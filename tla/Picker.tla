------------------------------- MODULE Picker -------------------------------
(***************************************************************************)
(* Picking from a list, in the five ways of the program: the whole list,   *)
(* page by page, one at a time, and for screen readers one or several of   *)
(* the choices, with filters.  The answers are a number, a part of a name  *)
(* or a command.                                                           *)
(***************************************************************************)
EXTENDS Integers, Sequences, SequencesExt, FiniteSets

CONSTANTS
  Count,      \* the number of items
  PageSize,   \* items on a page
  Queries,    \* what the user may type in part of a name
  Matched,    \* the items a query matches, the best first (rank_choices)
  Exact       \* the item whose whole name a query is, or 0

Items == 1 .. Count

ASSUME PickerAssumption ==
  /\ {Count, PageSize} \subseteq Nat \ {0}
  /\ Matched \in [Queries -> Seq(Items)] /\ Exact \in [Queries -> Items \cup {0}]
  /\ \A q \in Queries : IsInjective(Matched[q])

VARIABLES
  way,        \* "all", "paged", "one", "blind" or "many"
  whole,      \* the list is short: one page, read out at once
  active,     \* the items that pass the filter, in their order
  at,         \* the page, or the place in a list shown one at a time
  read,       \* the items last read out, by the number they had (0: Enter)
  picked,     \* the number and the item of the last number given, if it picked
  chosen,     \* the items selected so far
  outcome     \* "asking", "item", "none", or "escaped" (an exception)

place == <<active, at, read>>
pickerVars == <<way, whole, place, picked, chosen, outcome>>

PickerTypeOK ==
  /\ way \in {"all", "paged", "one", "blind", "many"} /\ whole \in BOOLEAN
  /\ active \in Seq(Items) /\ at \in 1 .. Count
  /\ DOMAIN read \subseteq 0 .. Count /\ Range(read) \subseteq Items
  /\ picked \in [number : 0 .. Count, item : 0 .. Count] /\ chosen \in Seq(Items)
  /\ outcome \in {"asking", "item", "none", "escaped"}

-----------------------------------------------------------------------------
All == [i \in Items |-> i]

\* The items of a list that are in S, in the order of the list.
Those(list, S) ==
  LET places == { i \in DOMAIN list : list[i] \in S }
      order == CHOOSE s \in [1 .. Cardinality(places) -> places] :
                 \A i, j \in DOMAIN s : i < j => s[i] < s[j]
  IN [n \in DOMAIN order |-> list[order[n]]]
NoPick == [number |-> 0, item |-> 0]

\* Pager.
Size == IF whole THEN Count ELSE PageSize
Pages(list) == IF list = << >> THEN 1 ELSE ((Len(list) - 1) \div Size) + 1
Least(a, b) == IF a < b THEN a ELSE b
Chunk(list, p) == SubSeq(list, (p - 1) * Size + 1, Least(p * Size, Len(list)))

\* How a page is numbered: from 1 for screen readers, else through the list.
Blind == way \in {"blind", "many"}
Reading(list, p) ==
  IF Blind THEN Chunk(list, p)
  ELSE [n \in (p - 1) * Size + 1 .. Least(p * Size, Len(list)) |-> list[n]]

\* Changed: numbers count through the list and not the page.
NumberedThrough == active

\* What a number may pick: the page, or all of the list.
Numbered == IF Blind THEN Chunk(active, at) ELSE active

Asking(W) == outcome = "asking" /\ way \in W
Stay == UNCHANGED <<way, whole, chosen, outcome>>

\* A list is read out; an empty one leaves what was read before.
ReadOut(list, p) ==
  /\ active' = list /\ at' = p
  /\ read' = IF list = << >> THEN read ELSE Reading(list, p)
  /\ picked' = NoPick
  /\ Stay

End(how) == outcome' = how /\ UNCHANGED <<way, whole, place>>

-----------------------------------------------------------------------------
(* Moving through the list.                                                *)

\* Changed: the last page is not the last.
NextUnclamped == Asking({"paged", "blind", "many"}) /\ ReadOut(active, at + 1)
NextPage == Asking({"paged", "blind", "many"}) /\ ReadOut(active, Least(at + 1, Pages(active)))
PreviousPage == Asking({"paged", "blind", "many"}) /\ ReadOut(active, IF at > 1 THEN at - 1 ELSE 1)
\* first, last, page N and list.
GoToPage(p) == Asking({"blind"}) /\ ReadOut(active, Least(p, Pages(active)))
ListAgain == Asking({"blind", "many"}) /\ ReadOut(active, at)

\* find, filter and match.
Find(q) == Asking({"blind", "many"}) /\ ReadOut(Matched[q], 1)

\* One at a time: next and previous go round; a filter that matches nothing
\* is not applied, an empty one is cleared.
Show(list, i) ==
  /\ active' = list /\ at' = i /\ read' = [n \in {0} |-> list[i]] /\ picked' = NoPick /\ Stay
Round(step) == Asking({"one"}) /\ Show(active, ((at - 1 + step + Len(active)) % Len(active)) + 1)
Bracket(list) == Asking({"one"}) /\ list # << >> /\ Show(list, 1)
InOrder(q) == Those(All, Range(Matched[q]))

-----------------------------------------------------------------------------
(* Answers.                                                                *)

Take(n, i) ==
  /\ picked' = [number |-> n, item |-> i]
  /\ IF way = "many"
     THEN /\ chosen' = IF i \in Range(chosen) THEN chosen ELSE Append(chosen, i)
          /\ UNCHANGED <<way, whole, place, outcome>>
     ELSE End("item") /\ chosen' = <<i>>

Number(n) ==
  /\ Asking({"all", "paged", "blind", "many"})
  /\ n \in DOMAIN Numbered /\ Take(n, Numbered[n])

Enter == Asking({"one"}) /\ Take(0, active[at])

\* resolve_token: a part of a name picks when it is of one item only.
Name(q) ==
  /\ Asking({"all", "paged"})
  /\ LET m == Those(active, Range(Matched[q]))
     IN Len(m) = 1 /\ picked' = NoPick /\ End("item") /\ chosen' = m

\* ChoiceInput: the whole name of the only match picks; a part of the only
\* match is asked about; several matches become the list.
BlindName(q) ==
  /\ Asking({"blind"}) /\ Matched[q] # << >>
  /\ LET m == Matched[q]
         here == Those(m, Range(active))
     IN CASE Len(here) = 1 /\ here[1] = Exact[q] -> picked' = NoPick /\ End("item") /\ chosen' = here
          [] Len(m) = 1 -> \/ picked' = NoPick /\ End("item") /\ chosen' = m
                           \/ Exact[q] # m[1] /\ picked' = NoPick /\ Stay /\ UNCHANGED place
          [] OTHER -> ReadOut(m, 1)

\* MultiSelectInput: the only match among the listed is added.
ManyName(q) ==
  /\ Asking({"many"})
  /\ LET m == Those(Matched[q], Range(active))
     IN CASE m = << >> -> UNCHANGED pickerVars
          [] Len(m) = 1 ->
               /\ chosen' = IF m[1] \in Range(chosen) THEN chosen ELSE Append(chosen, m[1])
               /\ picked' = NoPick /\ UNCHANGED <<way, whole, place, outcome>>
          [] OTHER -> ReadOut(m, 1)
Deselect(i) ==
  /\ Asking({"many"}) /\ i \in DOMAIN chosen
  /\ chosen' = RemoveAt(chosen, i) /\ picked' = NoPick
  /\ UNCHANGED <<way, whole, place, outcome>>
Clear == Asking({"many"}) /\ chosen' = << >> /\ picked' = NoPick /\ UNCHANGED <<way, whole, place, outcome>>
Done == Asking({"many"}) /\ End("item") /\ picked' = NoPick /\ UNCHANGED chosen

\* Cancel, or nothing typed.
Cancel ==
  /\ Asking({"all", "paged", "one", "blind", "many"})
  /\ End("none") /\ picked' = NoPick /\ chosen' = << >>

\* back and skip are commands of every prompt; pick_from_list_blind only
\* knows the exception of cancel.
BackOrSkip ==
  /\ Asking({"blind", "many"})
  /\ End("escaped") /\ picked' = NoPick /\ UNCHANGED chosen

-----------------------------------------------------------------------------
\* pick_from_list: the way depends on the mode, the length and the screen
\* reader; a long list is filtered first.
PickerInit ==
  /\ way \in {"all", "paged", "one", "blind", "many"}
  /\ whole \in (CASE way = "all" -> {TRUE} [] way \in {"paged", "one"} -> {FALSE} [] OTHER -> BOOLEAN)
  /\ active \in {All} \cup IF way = "paged" THEN { InOrder(q) : q \in Queries } \ {<< >>} ELSE {}
  /\ at = 1
  /\ read = CASE way = "one" -> [n \in {0} |-> 1]
              [] way \in {"all", "paged"} \/ (way = "blind" /\ whole) -> Reading(active, 1)
              [] OTHER -> << >>
  /\ picked = NoPick /\ chosen = << >> /\ outcome = "asking"

\* Another list is shown later.
Reopen ==
  /\ outcome # "asking"
  /\ outcome' = "asking" /\ active' = All /\ at' = 1 /\ picked' = NoPick /\ chosen' = << >>
  /\ read' = CASE way = "one" -> [n \in {0} |-> 1]
               [] way \in {"all", "paged"} \/ (way = "blind" /\ whole) -> Reading(All, 1)
               [] OTHER -> << >>
  /\ UNCHANGED <<way, whole>>

PickerNext ==
  \/ NextPage \/ PreviousPage \/ ListAgain \/ Enter \/ Clear \/ Done \/ Cancel
  \/ BackOrSkip \/ Reopen \/ Bracket(All)
  \/ \E step \in {-1, 1} : Round(step)
  \/ \E n \in Items : Number(n) \/ Deselect(n) \/ GoToPage(n)
  \/ \E q \in Queries : Find(q) \/ Bracket(InOrder(q)) \/ Name(q) \/ BlindName(q) \/ ManyName(q)

-----------------------------------------------------------------------------
(* Properties.                                                             *)

\* A number, or Enter, picks the item that was last read out under it,
\* through every filter and page (select_by_token, resolve_token).
PicksWhatWasRead ==
  picked.item # 0 /\ picked.number \in DOMAIN read => picked.item = read[picked.number]

=============================================================================
