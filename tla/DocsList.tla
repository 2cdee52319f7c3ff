------------------------------ MODULE DocsList ------------------------------
(***************************************************************************)
(* The class list in the documentation's navigation frame (full_list.js):  *)
(* a tree of entries that fold, the entry that is marked as clicked, and   *)
(* a search that goes through the entries a batch at a time, yielding to   *)
(* the browser with a timer of 0 ms in between.                            *)
(*                                                                         *)
(* Left out: row colours, scrolling, the Escape key and aria-expanded.     *)
(* caseSensitiveMatch is worked out from the query each time before it is  *)
(* used, so it is no state: Hits says what a query matches.                *)
(***************************************************************************)
EXTENDS Naturals, Sequences, FiniteSets, DocsPages

CONSTANTS Order,   \* the entries of the list, in the order of searchCache
          Above,   \* the entries an entry is nested in
          Folded,  \* the entries the generator collapsed
          Queries, \* what the reader types
          Blank,   \* the empty input
          Hits,    \* the entries each query matches
          Batch    \* entries looked at before yielding, 50 in the code

Listed == {Order[i] : i \in DOMAIN Order}

ASSUME ListIsTree ==
    /\ Order \in Seq(Pages) /\ Above \in [Listed -> SUBSET Listed]
    /\ \A p \in Listed : p \notin Above[p] /\ \A a \in Above[p] : Above[a] \subseteq Above[p]
    /\ Folded \subseteq Listed
ASSUME SearchFits ==
    /\ Blank \notin Queries /\ None \notin [query : Queries, offset : Nat]
    /\ Hits \in [Queries -> SUBSET Listed]
    /\ Batch \in Nat \ {0}

VARIABLES input,     \* the value of the search field
          found,     \* the entries with class "found"
          bold,      \* the query each entry's link highlights, None at first
          insearch,  \* whether the list hides what is not found
          busy,      \* whether the spinner turns (class "insearch" of #content)
          pending,   \* the batches whose timers have not fired
          handle,    \* searchTimeout, the one clearSearchTimeout would cancel
          collapsed, \* the entries with class "collapsed"
          clicked,   \* the entry with class "clicked"
          status     \* the number #noresults announces
listVars == <<input, found, bold, insearch, busy, pending, handle,
              collapsed, clicked, status>>

Batches == [query : Queries, offset : Nat]

(* Types.                                                                  *)
ListTypeOK ==
    /\ input \in Queries \cup {Blank}
    /\ found \subseteq Listed
    /\ bold \in [Listed -> Queries \cup {None}]
    /\ insearch \in BOOLEAN /\ busy \in BOOLEAN
    /\ pending \subseteq Batches /\ handle \in Batches \cup {None}
    /\ collapsed \subseteq Listed
    /\ clicked \in Listed \cup {None}
    /\ status \in Nat \cup {None}

(* The list as a fresh document has it.                                    *)
ListFresh(in, f, b, s, y, ps, h, cs, cl, st) ==
    /\ in = Blank /\ f = {} /\ b = [p \in Listed |-> None] /\ s = FALSE /\ y = FALSE
    /\ ps = {} /\ h = None /\ cs = Folded /\ cl = None /\ st = None
ListInit == ListFresh(input, found, bold, insearch, busy, pending, handle,
                      collapsed, clicked, status)
ListReset == ListFresh(input', found', bold', insearch', busy', pending', handle',
                       collapsed', clicked', status')
-----------------------------------------------------------------------------
(* isVisible: the style sheet hides what is below a collapsed entry, and   *)
(* that rule is more specific than the one that unfolds lists in a search. *)
Visible(p, folded) == Above[p] \cap folded = {}
Shown(p) == Visible(p, collapsed) /\ (insearch => p \in found)

(* Variant: the timer is left alone.                                       *)
ClearSearchTimeout_Kept(ps) == ps
ClearSearchTimeout(ps) == ps \ {handle}
Mark(q, rows) == (found \ rows) \cup (rows \cap Hits[q])

(* Variant: the spinner is not stopped.                                    *)
SearchDone_Busy(was) ==
    /\ handle' = None
    /\ status' = Cardinality({p \in Listed : Visible(p, collapsed)})
    /\ busy' = was
SearchDone(was) ==
    /\ handle' = None
    /\ status' = Cardinality({p \in Listed : Visible(p, collapsed)})
    /\ busy' = FALSE

(* One batch; left are the timers still running, was and said the spinner  *)
(* and the announcement before it.                                         *)
PartialSearch(q, offset, left, was, said) ==
    LET end  == IF offset + Batch < Len(Order) THEN offset + Batch ELSE Len(Order)
        rows == {Order[i] : i \in (offset + 1)..end}
        rest == [query |-> q, offset |-> end]
    IN /\ found' = Mark(q, rows)
       /\ bold' = [p \in Listed |-> IF p \in rows \cap Hits[q] THEN q ELSE bold[p]]
       /\ IF end = Len(Order)
          THEN SearchDone(was) /\ pending' = left
          ELSE /\ pending' = left \cup {rest} /\ handle' = rest
               /\ busy' = was /\ status' = said

PerformSearch(q) ==
    /\ insearch' = TRUE
    /\ PartialSearch(q, 0, ClearSearchTimeout(pending), TRUE, None)
    /\ UNCHANGED collapsed

(* The way to the clicked entry is unfolded; the bold text and the         *)
(* announcement of the last search stay.                                   *)
ClearSearch ==
    /\ pending' = ClearSearchTimeout(pending) /\ handle' = None
    /\ found' = {} /\ insearch' = FALSE /\ busy' = FALSE
    /\ collapsed' = IF clicked = None THEN collapsed ELSE collapsed \ Above[clicked]
    /\ UNCHANGED <<bold, status>>

(* "input" or "change" of the search field.                                *)
UpdateSearchResults(q) ==
    /\ input' = q
    /\ IF q = Blank THEN ClearSearch ELSE PerformSearch(q)
    /\ UNCHANGED clicked

NextBatch(b) ==
    /\ b \in pending
    /\ PartialSearch(b.query, b.offset, pending \ {b}, busy, status)
    /\ UNCHANGED <<input, insearch, collapsed, clicked>>

(* The folding triangles are hidden during a search.                       *)
ToggleItem(p) ==
    /\ ~insearch /\ p \in Listed /\ Visible(p, collapsed)
    /\ \E below \in Listed : p \in Above[below]
    /\ collapsed' = IF p \in collapsed THEN collapsed \ {p} ELSE collapsed \cup {p}
    /\ UNCHANGED <<input, found, bold, insearch, busy, pending, handle, clicked, status>>

SetClicked(p) ==
    /\ clicked' = p
    /\ UNCHANGED <<input, found, bold, insearch, busy, pending, handle, status>>

(* A click on an entry.  What it posts to the page is DocsSite's Click.    *)
ClickItem(p) ==
    /\ p \in Listed /\ Shown(p)
    /\ SetClicked(p)
    /\ UNCHANGED collapsed

(* The message "expand".  Variant: only the entry itself is unfolded.      *)
ExpandTo_Itself(p) ==
    IF p \in Listed THEN SetClicked(p) /\ collapsed' = collapsed \ {p}
    ELSE UNCHANGED listVars
ExpandTo(p) ==
    IF p \in Listed THEN SetClicked(p) /\ collapsed' = collapsed \ ({p} \cup Above[p])
    ELSE UNCHANGED listVars
=============================================================================
