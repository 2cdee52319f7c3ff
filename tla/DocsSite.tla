------------------------------ MODULE DocsSite ------------------------------
(***************************************************************************)
(* The documentation site in a browser: the page (DocsShell) and the class *)
(* list in its navigation frame (DocsList), which post messages to each    *)
(* other, and a reader who clicks, searches and uses the history at any    *)
(* time.                                                                   *)
(***************************************************************************)
EXTENDS DocsShell, DocsList

CONSTANTS MaxMoves,   \* what the reader does before leaving it at that
          MaxFailures \* loads that fail before the connection is back for good

ASSUME MovesFit == MaxMoves \in Nat
ASSUME FailuresFit == MaxFailures \in Nat

VARIABLES moves, failures
siteVars == <<moves, failures>>
vars == <<shellVars, listVars, siteVars>>

(* A click in the list or an expansion that is not through yet.            *)
ClickUnderWay == \/ toTop # <<>>
                 \/ Current(loader.onload) /\ loader.onload.push
ExpandUnderWay == toNav # <<>>
Notice == crossed' = (crossed \/ (ClickUnderWay' /\ ExpandUnderWay'))

Init == ShellInit /\ ListInit /\ moves = 0 /\ failures = 0
-----------------------------------------------------------------------------
ShellStep(A) == A /\ Notice /\ UNCHANGED <<listVars, siteVars>>
ListStep(A)  == A /\ UNCHANGED <<shellVars, siteVars>>

(* The hidden frame's request is answered, or there is no connection.      *)
Load(kind) ==
    /\ Answer(kind) /\ Notice /\ UNCHANGED <<listVars, moves>>
    /\ IF kind = "foreign" THEN failures < MaxFailures /\ failures' = failures + 1
                           ELSE UNCHANGED failures

(* The page is replaced and its frames with it.                            *)
Leave == ForeignLoad /\ ListReset /\ UNCHANGED siteVars

(* The message "expand" reaches the list.                                  *)
ReceiveExpand ==
    /\ toNav # <<>> /\ toNav' = Tail(toNav)
    /\ ExpandTo(Head(toNav))
    /\ ShellIdle /\ UNCHANGED <<bar, expanders, navReady, toTop, siteVars>>
    /\ Notice

(* The reader.                                                             *)
Moves == moves < MaxMoves /\ moves' = moves + 1 /\ UNCHANGED failures

Click(p) ==
    /\ Moves /\ navReady /\ ClickItem(p)
    /\ toTop' = Append(toTop, [page |-> p, hash |-> NoHash])
    /\ ShellIdle /\ UNCHANGED <<bar, expanders, navReady, toNav>>
    /\ Notice
Search(q) == Moves /\ navReady /\ UpdateSearchResults(q) /\ UNCHANGED shellVars
Fold(p)   == Moves /\ navReady /\ ToggleItem(p) /\ UNCHANGED shellVars
Back      == Moves /\ Traverse(tab.at - 1) /\ Notice /\ UNCHANGED listVars
Forward   == Moves /\ Traverse(tab.at + 1) /\ Notice /\ UNCHANGED listVars
Fragment(hash) == Moves /\ FollowFragment(hash) /\ Notice /\ UNCHANGED listVars

Timers == IndicatorTimer \/ Tick \/ HideTimer \/ ExpandByTimer
Loads  == StaleLoad \/ BareLoad \/ PageLoad \/ FragmentLoad

Next ==
    \/ \E p \in Listed : Click(p)
    \/ \E q \in Queries \cup {Blank} : Search(q)
    \/ \E p \in Listed : Fold(p)
    \/ Back
    \/ Forward
    \/ \E hash \in Hashes : Fragment(hash)
    \/ ShellStep(ReceiveNavigate)
    \/ \E kind \in Kinds : Load(kind)
    \/ ShellStep(StaleLoad)
    \/ ShellStep(BareLoad)
    \/ ShellStep(PageLoad)
    \/ ShellStep(FragmentLoad)
    \/ Leave
    \/ ShellStep(IndicatorTimer)
    \/ ShellStep(Tick)
    \/ ShellStep(HideTimer)
    \/ ShellStep(ExpandByTimer)
    \/ ShellStep(NavLoads)
    \/ ReceiveExpand
    \/ \E b \in pending : ListStep(NextBatch(b))

Spec == Init /\ [][Next]_vars

(* The browser does not rest while it has a task or a timer, and a request *)
(* is answered or given up, the latter MaxFailures times at most; in which *)
(* order is open.  The reader and the navigation frame owe nothing.        *)
Browser ==
    \/ \E kind \in Kinds : Load(kind)
    \/ ShellStep(ReceiveNavigate \/ Loads \/ Timers)
    \/ Leave
    \/ ReceiveExpand
    \/ \E b \in pending : ListStep(NextBatch(b))
Fairness == WF_vars(Browser)
FairSpec == Spec /\ Fairness
-----------------------------------------------------------------------------
ShellTypeOK ==
    /\ latest \in Nat /\ currentUrl \in Url /\ content \in Pages
    /\ tab \in Tabs /\ loader \in Loaders /\ bar \in Bars
    /\ expanders \subseteq {"timer", "load"} /\ navReady \in BOOLEAN
    /\ toTop \in Seq(Url) /\ toNav \in Seq(Pages)
    /\ asked \in Url /\ overtaken \in BOOLEAN /\ crossed \in BOOLEAN

(* The variables keep their types; a load event always has a document.     *)
TypeOK ==
    /\ ShellTypeOK /\ ListTypeOK /\ moves \in 0..MaxMoves /\ failures \in 0..MaxFailures
    /\ loader.events > 0 => loader.held # None

(* The address bar and currentUrl say the same, except while the page last *)
(* asked for is being loaded or when it came without a #main; a navigation *)
(* that was dropped for a later one never leaves them apart.               *)
AddressAgrees ==
    Address # currentUrl => loader.onload # None /\ loader.onload.id = latest

(* The content on show is that of currentUrl, unless a URL was asked for   *)
(* between another page's loading and its load event, which the new        *)
(* handler then takes for its own.                                         *)
ContentAgrees == overtaken \/ content = currentUrl.page

(* Only the page last asked for is put on show: not one whose handler is   *)
(* still set when a link inside the page on show was followed meanwhile.   *)
LatestWins == [][content' # content => overtaken' \/ content' = asked'.page]_vars

(* When nothing is under way the entry marked in the list is the page on   *)
(* show, unless a navigation was dropped or came to nothing (its handler   *)
(* is left), or a click crossed with an "expand".                          *)
Calm == /\ toTop = <<>> /\ toNav = <<>> /\ "timer" \notin expanders /\ navReady
        /\ loader.onload = None
NavAgrees ==
    Calm /\ ~crossed /\ ~overtaken /\ content \in Listed => clicked = content

(* The bar of a page that is not loading stays empty: no timer of an       *)
(* earlier navigation moves or shows it.                                   *)
BarAtRest == ~bar.loading => bar.progress \in {0, Full} /\ ~bar.ticking

(* The page last asked for is shown, unless it has no #main: the reader    *)
(* makes MaxMoves moves at most, and is left with what the last one wanted.*)
Failed == /\ loader.onload # None /\ loader.fetching = None /\ loader.events = 0
          /\ loader.held # None /\ loader.held.kind = "bare"
Arrives == content # asked.page ~> (content = asked.page \/ Failed \/ overtaken)

(* The bar is hidden again, unless a link inside the page on show dropped  *)
(* the load it was shown for: that handler returns before it cancels.      *)
Dropped == loader.onload # None /\ loader.onload.id # latest
BarEnds == bar.loading ~> (~bar.loading \/ Dropped)

(* With no batch pending, what is marked as found is what the text in the  *)
(* field matches, shown in bold for that text, and the spinner is off.     *)
SearchExact ==
    pending = {} =>
        /\ ~busy
        /\ insearch = (input # Blank)
        /\ found = IF input = Blank THEN {} ELSE Hits[input]
        /\ \A p \in found : bold[p] = input

(* The clicked entry goes out of sight only when the reader folds an entry *)
(* above it.                                                               *)
ClickedStaysInSight ==
    [][clicked' \in Listed /\ ~Visible(clicked', collapsed') =>
         \/ clicked' = clicked /\ ~Visible(clicked, collapsed)
         \/ \E p \in Listed : Fold(p)]_vars

(* A search comes to an end, however often it is changed before.           *)
SearchEnds == busy ~> ~busy
=============================================================================
