------------------------------ MODULE WebPage ------------------------------
(***************************************************************************)
(* Attaching a web page: the request and its redirects, the converters     *)
(* tried in turn, the built-in one as the parser drives it tag by tag, and *)
(* the attachment with its warnings.                                       *)
(*                                                                         *)
(* The document is written as it is parsed.  Its texts are numbered; of    *)
(* the markdown only texts and links are kept, not the marks around them.  *)
(***************************************************************************)
EXTENDS Integers, Sequences, FiniteSets

CONSTANTS
  MaxRedirects, \* cfg.max_redirects
  MaxTags,      \* bound: start tags and texts of a document
  MaxTexts      \* cfg.max_attachment_chars, in texts

ASSUME WebPageAssumption == {MaxRedirects, MaxTags, MaxTexts} \subseteq Nat

\* SKIP_TAGS but the void `embed`, then those the extractor tells apart; "block"
\* stands for every other element that has an end tag.
Tags == {"skip", "head", "title", "a", "pre", "block"}
Converters == {"readability", "html2text", "stdlib"}
Orders == {<<"readability", "html2text">>, <<"stdlib", "html2text">>, <<"html2text">>}
Sizes == {"small", "large", "over"} \* over: more than cfg.max_response_bytes
Warned == {"bytes", "script", "chars"}

VARIABLES
  visit,     \* "asked", "request", "read", "convert", "parse", "render",
             \* "preview", "attached" or "refused"
  redirects, \* redirect_count
  body,      \* size and media type of the answer
  order,     \* the converters left to try
  converter, \* engine_used
  document,  \* what was parsed: the open elements, texts and visible texts
  extractor, \* the fields of SimpleHTMLExtractor
  markdown,  \* the texts of the page
  warnings   \* what the attachment's header warns of

pageVars == <<visit, redirects, body, order, converter, document, extractor,
              markdown, warnings>>

TextSet == 1 .. MaxTags
TextLists == UNION { [1 .. n -> TextSet] : n \in 0 .. MaxTags }

WebPageTypeOK ==
  /\ visit \in {"asked", "request", "read", "convert", "parse", "render", "preview",
                "attached", "refused"}
  /\ redirects \in 0 .. MaxRedirects
  /\ body \in [size : Sizes, html : BOOLEAN]
  /\ Len(order) <= 2 /\ converter \in Converters \cup {"none", "plain"}
  /\ extractor.skip \in 0 .. MaxTags
  /\ {extractor.head, extractor.title, extractor.pre, extractor.anchor} \subseteq BOOLEAN
  /\ {extractor.parts, extractor.chunks, markdown} \subseteq TextLists
  /\ document.visible \subseteq 1 .. document.texts /\ warnings \subseteq Warned

NewExtractor == [skip |-> 0, head |-> FALSE, title |-> FALSE, pre |-> FALSE,
                 anchor |-> FALSE, parts |-> << >>, chunks |-> << >>]
Unparsed == [open |-> << >>, tags |-> 0, texts |-> 0, visible |-> {}, over |-> FALSE]

WebPageInit ==
  /\ visit = "asked" /\ redirects = 0
  /\ body = [size |-> "small", html |-> TRUE]
  /\ order \in Orders /\ converter = "none"
  /\ document = Unparsed /\ extractor = NewExtractor
  /\ markdown = << >> /\ warnings = {}

-----------------------------------------------------------------------------
(* The request.                                                            *)

NothingRead == UNCHANGED <<body, order, converter, document, extractor, markdown, warnings>>

\* Disabled, cancelled, or an address that check_url_safety does not allow.
RefuseAddress == visit = "asked" /\ visit' = "refused" /\ NothingRead
                 /\ UNCHANGED redirects

AllowAddress == visit = "asked" /\ visit' = "request" /\ NothingRead
                /\ UNCHANGED redirects

\* A redirect to an address the policy allows.
FollowRedirect ==
  /\ visit = "request" /\ redirects < MaxRedirects
  /\ redirects' = redirects + 1
  /\ UNCHANGED visit /\ NothingRead

\* One with no address, one not allowed, one too many, an error, a media type
\* that is not accepted.
FetchRefused ==
  /\ visit = "request"
  /\ visit' = "refused"
  /\ UNCHANGED redirects /\ NothingRead

FetchPage(size, html) ==
  /\ visit = "request"
  /\ visit' = "read"
  /\ body' = [size |-> size, html |-> html]
  /\ warnings' = {w \in {"bytes"} : size = "over"}
  /\ UNCHANGED <<redirects, order, converter, document, extractor, markdown>>

-----------------------------------------------------------------------------
(* The converters.                                                         *)

Fetched == UNCHANGED <<redirects, body>>

\* extract_plain_text: the whole body is one text.
ReadPlain ==
  /\ visit = "read" /\ ~ body.html
  /\ converter' = "plain" /\ markdown' = <<1>> /\ visit' = "render"
  /\ Fetched /\ UNCHANGED <<order, document, extractor, warnings>>

ReadHtml ==
  /\ visit = "read" /\ body.html /\ visit' = "convert"
  /\ Fetched /\ UNCHANGED <<order, converter, document, extractor, markdown, warnings>>

\* A converter that is not installed, is unknown, fails or finds nothing.
SkipConverter ==
  /\ visit = "convert" /\ order # << >> /\ Head(order) # "stdlib"
  /\ order' = Tail(order)
  /\ Fetched /\ UNCHANGED <<visit, converter, document, extractor, markdown, warnings>>

\* The text is its own, and never empty.
ForeignConverter ==
  /\ visit = "convert" /\ order # << >> /\ Head(order) # "stdlib"
  /\ converter' = Head(order) /\ markdown' \in {<<1>>, <<1, 2>>} /\ visit' = "render"
  /\ Fetched /\ UNCHANGED <<order, document, extractor, warnings>>

\* The built-in converter, in its turn or when no other is left.  A document it
\* found empty in its turn is empty again at the end.
BuiltIn ==
  /\ visit = "convert" /\ (order # << >> => Head(order) = "stdlib")
  /\ converter' = "stdlib"
  /\ visit' = IF document.over THEN "render" ELSE "parse"
  /\ Fetched /\ UNCHANGED <<order, document, extractor, markdown, warnings>>

BuiltInEnds ==
  /\ visit = "parse" /\ document' = [document EXCEPT !.over = TRUE]
  /\ IF extractor.chunks = << >> /\ order # << >>
     THEN visit' = "convert" /\ order' = Tail(order) /\ UNCHANGED markdown
     ELSE visit' = "render" /\ markdown' = extractor.chunks /\ UNCHANGED order
  /\ Fetched /\ UNCHANGED <<converter, extractor, warnings>>

-----------------------------------------------------------------------------
(* The built-in converter.                                                 *)

Parsing == visit = "parse" /\ Fetched /\ UNCHANGED <<visit, order, converter, markdown, warnings>>
Within(tags) == \E i \in 1 .. Len(document.open) : document.open[i] \in tags
Growing == document.tags < MaxTags

\* handle_starttag.  Authors do not put a link within a link, nor a head or a
\* title outside its place; every other nesting occurs, also without end tags.
StartTag(tag) ==
  /\ Parsing /\ Growing
  /\ tag = "head" => document.tags = 0
  /\ tag = "title" => Within({"head"})
  /\ tag = "a" => ~ Within({"a", "head"})
  /\ document' = [document EXCEPT !.open = Append(@, tag), !.tags = @ + 1]
  /\ extractor' =
       IF extractor.skip > 0
       THEN [extractor EXCEPT !.skip = IF tag = "skip" THEN @ + 1 ELSE @]
       ELSE CASE tag = "skip" -> [extractor EXCEPT !.skip = 1]
              [] tag = "head" -> [extractor EXCEPT !.head = TRUE]
              [] tag = "title" -> [extractor EXCEPT !.title = TRUE]
              [] tag = "a" -> [extractor EXCEPT !.anchor = TRUE, !.parts = << >>]
              [] tag = "pre" -> [extractor EXCEPT !.pre = TRUE]
              [] OTHER -> extractor

\* Changed: a link that has ended stays open, without in_anchor = False.
EndTagStaying(tag) ==
  /\ Parsing /\ document.open # << >> /\ tag = document.open[Len(document.open)]
  /\ document' = [document EXCEPT !.open = SubSeq(@, 1, Len(@) - 1)]
  /\ extractor' =
       IF extractor.skip > 0
       THEN [extractor EXCEPT !.skip = IF tag = "skip" THEN @ - 1 ELSE @]
       ELSE CASE tag = "head" -> [extractor EXCEPT !.head = FALSE]
              [] tag = "title" -> [extractor EXCEPT !.title = FALSE]
              [] tag = "a" -> [extractor EXCEPT !.chunks = @ \o extractor.parts, !.parts = << >>]
              [] OTHER -> extractor

\* handle_endtag.  A block tag is handled first, so "pre" never ends in_pre.
EndTag(tag) ==
  /\ Parsing /\ document.open # << >> /\ tag = document.open[Len(document.open)]
  /\ document' = [document EXCEPT !.open = SubSeq(@, 1, Len(@) - 1)]
  /\ extractor' =
       IF extractor.skip > 0
       THEN [extractor EXCEPT !.skip = IF tag = "skip" THEN @ - 1 ELSE @]
       ELSE CASE tag = "head" -> [extractor EXCEPT !.head = FALSE]
              [] tag = "title" -> [extractor EXCEPT !.title = FALSE]
              [] tag = "a" -> [extractor EXCEPT !.chunks = @ \o extractor.parts, !.parts = << >>,
                                                !.anchor = FALSE]
              [] OTHER -> extractor

\* handle_data, of a text that is not blank.
Text ==
  /\ Parsing /\ Growing
  /\ LET n == document.texts + 1 IN
     /\ document' = [document EXCEPT !.texts = n, !.tags = @ + 1,
                       !.visible = IF Within({"skip", "head", "title"}) THEN @ ELSE @ \cup {n}]
     /\ extractor' =
          IF extractor.skip > 0 \/ extractor.title \/ extractor.head THEN extractor
          ELSE IF extractor.anchor /\ ~ extractor.pre
               THEN [extractor EXCEPT !.parts = Append(@, n)]
               ELSE [extractor EXCEPT !.chunks = Append(@, n)]

-----------------------------------------------------------------------------
(* The attachment.                                                         *)

Cut(texts) == SubSeq(texts, 1, IF Len(texts) > MaxTexts THEN MaxTexts ELSE Len(texts))

\* render_page: a large page with hardly a text, a text that is too long.
Render ==
  /\ visit = "render" /\ visit' = "preview" /\ markdown' = Cut(markdown)
  /\ warnings' = warnings
       \cup {w \in {"script"} : body.html /\ body.size # "small" /\ Len(markdown) < 2}
       \cup {w \in {"chars"} : Len(markdown) > MaxTexts}
  /\ Fetched /\ UNCHANGED <<order, converter, document, extractor>>

\* /web, and the --web of a command.
Attach ==
  /\ visit = "preview" /\ visit' = "attached"
  /\ Fetched /\ UNCHANGED <<order, converter, document, extractor, markdown, warnings>>

\* /web-preview asks first.
Decline ==
  /\ visit = "preview" /\ visit' = "refused"
  /\ Fetched /\ UNCHANGED <<order, converter, document, extractor, markdown, warnings>>

WebPageNext ==
  \/ RefuseAddress \/ AllowAddress \/ FollowRedirect \/ FetchRefused
  \/ \E size \in Sizes, html \in BOOLEAN : FetchPage(size, html)
  \/ ReadPlain \/ ReadHtml \/ SkipConverter \/ ForeignConverter \/ BuiltIn \/ BuiltInEnds
  \/ \E tag \in Tags : StartTag(tag) \/ EndTag(tag)
  \/ Text \/ Render \/ Attach \/ Decline

-----------------------------------------------------------------------------
\* A page whose elements are all closed and that is attached without a warning
\* that it was cut holds every text of the document outside its head and its
\* scripts, menus and forms, each once, and no other, however they are nested.
TextKept ==
  visit = "attached" /\ converter = "stdlib" /\ document.open = << >>
      /\ warnings \cap {"bytes", "chars"} = {} =>
    /\ {markdown[i] : i \in 1 .. Len(markdown)} = document.visible
    /\ Len(markdown) = Cardinality(document.visible)
=============================================================================
