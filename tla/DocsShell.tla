----------------------------- MODULE DocsShell -----------------------------
(***************************************************************************)
(* The page of the documentation site that stays while its content is      *)
(* exchanged (app.js): navigateTo loads a page in a hidden frame and its   *)
(* load handler moves the page's #main over, corrects the history and      *)
(* stops the progress bar, unless a later navigation was asked for.        *)
(*                                                                         *)
(* Timers are on or off; which of them fires first is open, except that a  *)
(* bar due to be hidden (120 ms) is before one is shown again (400 ms).    *)
(* Only the history entries of the present document are modelled, and one  *)
(* that a full load opens has the page asked for.                          *)
(***************************************************************************)
EXTENDS Naturals, Sequences, DocsPages

CONSTANTS Hashes,  \* fragments of URLs
          NoHash,  \* a URL without one
          Entries, \* the URLs readers open the site at
          Full,    \* ticks that fill the progress bar, some 220 in the code
          AboutBlank  \* what a frame without src shows

Url == [page : Pages, hash : Hashes \cup {NoHash}]

ASSUME FullFits == Full \in Nat \ {0} /\ Entries \subseteq Url
ASSUME BlankIsNoPage == AboutBlank \notin Pages \cup {None}

(* What the hidden frame ends up with: a page with #main, one without (a   *)
(* list, a 404), or nothing the script may look at (no connection).  An    *)
(* empty frame holds a document without #main too.                         *)
Kinds == {"page", "bare", "foreign"}

VARIABLES latest,     \* appState.latestNavigationId
          currentUrl, \* appState.currentUrl
          content,    \* the page whose #main is on show, and pathId
          tab,        \* the entries of the history and the one we are at
          loader,     \* #page_loader: its onload handler, the page being
                      \* fetched, the document it holds, load events queued
          bar,        \* the progress bar and its timers
          expanders,  \* what navExpander still waits for
          navReady,   \* whether the navigation frame has loaded
          toTop,      \* "navigate" messages on their way
          toNav,      \* "expand" messages on their way
          asked,      \* the URL of the last navigateTo (history)
          overtaken,  \* whether a URL was asked for while the load event of
                      \* another page was queued (history)
          crossed     \* whether a click and an "expand" overlapped (history)
frameVars == <<expanders, navReady, toTop, toNav>>
shellVars == <<latest, currentUrl, content, tab, loader, bar, expanders,
               navReady, toTop, toNav, asked, overtaken, crossed>>

Handlers == [id : Nat, url : Url, push : BOOLEAN, sync : BOOLEAN]
Documents == [page : Pages, kind : Kinds] \cup {[page |-> AboutBlank, kind |-> "bare"]}
ASSUME NoneIsNothing == None \notin Handlers /\ None \notin Documents

Tabs == {t \in [entries : Seq(Url), at : Nat] : t.at \in DOMAIN t.entries}
Loaders == [onload : Handlers \cup {None}, fetching : Pages \cup {AboutBlank, None},
            held : Documents \cup {None}, events : Nat]
Bars == [loading : BOOLEAN, timer : Nat \cup {None}, ticking : BOOLEAN,
         progress : 0..Full, hides : Nat, handle : BOOLEAN]

Address == tab.entries[tab.at]

IdleLoader == [onload |-> None, fetching |-> None, held |-> None, events |-> 0]
IdleBar == [loading |-> FALSE, timer |-> None, ticking |-> FALSE, progress |-> 0,
            hides |-> 0, handle |-> FALSE]

(* A document opened at url: navExpander sets a timer and listens to the   *)
(* load of the navigation frame, which may have been there before.         *)
ShellFresh(url, l, cu, c, t, ld, b, ex, nr, tt, tn, as, ov, cr) ==
    /\ l = 0 /\ cu = url /\ c = url.page /\ t = [entries |-> <<url>>, at |-> 1]
    /\ ld = IdleLoader /\ b = IdleBar
    /\ ex = {"timer", "load"} /\ nr \in BOOLEAN
    /\ tt = <<>> /\ tn = <<>> /\ as = url /\ ov = FALSE /\ cr = FALSE
ShellInit ==
    \E url \in Entries : ShellFresh(url, latest, currentUrl, content, tab, loader, bar,
        expanders, navReady, toTop, toNav, asked, overtaken, crossed)
-----------------------------------------------------------------------------
(* The progress bar.                                                       *)

(* Clearing the hide timer stops the one last set, if its handle is kept.  *)
ClearHide(b) == [b EXCEPT !.hides = IF b.handle THEN b.hides - 1 ELSE b.hides,
                          !.handle = FALSE]

ScheduleMainLoading(b, id) == [ClearHide(b) EXCEPT !.timer = id]

StartLoadingProgress(b) ==
    [ClearHide(b) EXCEPT !.loading = TRUE, !.ticking = TRUE, !.progress = 0]

(* Variant: the progress timer goes on.                                    *)
CancelMainLoading_Ticks(b) ==
    [b EXCEPT !.timer = None, !.progress = Full, !.hides = b.hides + 1, !.handle = TRUE]
CancelMainLoading(b) ==
    [b EXCEPT !.timer = None, !.ticking = FALSE, !.progress = Full,
              !.hides = b.hides + 1, !.handle = TRUE]

ShellIdle == UNCHANGED <<latest, currentUrl, content, tab, loader, asked, overtaken>>

IndicatorTimer ==
    /\ bar.timer # None /\ bar.hides = 0
    /\ bar' = [(IF bar.timer = latest THEN StartLoadingProgress(bar) ELSE bar)
               EXCEPT !.timer = None]
    /\ ShellIdle /\ UNCHANGED frameVars

(* Variant: the next tick is set without a look at the progress.           *)
Tick_Endless ==
    /\ bar.ticking /\ bar' = [bar EXCEPT !.progress = bar.progress + 1]
    /\ ShellIdle /\ UNCHANGED frameVars
Tick ==
    /\ bar.ticking
    /\ bar' = IF bar.progress < Full
              THEN [bar EXCEPT !.progress = bar.progress + 1,
                               !.ticking = bar.progress + 1 < Full]
              ELSE [bar EXCEPT !.ticking = FALSE]
    /\ ShellIdle /\ UNCHANGED frameVars

HideTimer ==
    /\ bar.hides > 0
    /\ bar' = [bar EXCEPT !.loading = FALSE, !.progress = 0,
                          !.hides = bar.hides - 1, !.handle = FALSE]
    /\ ShellIdle /\ UNCHANGED frameVars
-----------------------------------------------------------------------------
(* Navigation.                                                             *)

PushState(t, url) ==
    [entries |-> Append(SubSeq(t.entries, 1, t.at), url), at |-> t.at + 1]

(* Going to a fragment of the page one is at; there is no new entry for    *)
(* the URL that is the address already.                                    *)
ToFragment(t, url) == IF url = t.entries[t.at] THEN t ELSE PushState(t, url)

ContentPageUrl(url) == url.page
SameDocument(left, right) == ContentPageUrl(left) = ContentPageUrl(right)

(* Variant: the handler takes the id before it is counted up.              *)
Handler_Early(url, push, sync) == [id |-> latest, url |-> url, push |-> push, sync |-> sync]
Handler(url, push, sync) == [id |-> latest + 1, url |-> url, push |-> push, sync |-> sync]

(* updatePageState, which fails if there is no #main.                      *)
UpdatePageState(doc) == doc.kind = "page"

(* A page whose load event is still queued will be taken for url.          *)
TakenFor(ld, url) == ld.events > 0 /\ UpdatePageState(ld.held) /\ ld.held.page # url.page

(* navigateTo, called when the history is t and the loader ld.             *)
NavigateTo(url, push, sync, t, ld) ==
    /\ latest' = latest + 1
    /\ asked' = url
    /\ UNCHANGED content
    /\ \/ /\ SameDocument(currentUrl, url)
          /\ tab' = IF push THEN PushState(t, url) ELSE t
          /\ currentUrl' = url
          /\ loader' = ld
          /\ UNCHANGED <<bar, overtaken>>
       \/ /\ ~SameDocument(currentUrl, url)
          /\ tab' = t
          /\ bar' = ScheduleMainLoading(bar, latest + 1)
          /\ loader' = [ld EXCEPT !.onload = Handler(url, push, sync),
                                  !.fetching = ContentPageUrl(url)]
          /\ overtaken' = (overtaken \/ TakenFor(ld, url))
          /\ UNCHANGED currentUrl

(* The message "navigate" of the class list.                               *)
ReceiveNavigate ==
    /\ toTop # <<>>
    /\ NavigateTo(Head(toTop), TRUE, FALSE, tab, loader)
    /\ toTop' = Tail(toTop)
    /\ UNCHANGED <<expanders, navReady, toNav>>

(* popstate: the reader goes back or forward, or follows a fragment.       *)
Traverse(to) ==
    /\ to \in DOMAIN tab.entries /\ (to = tab.at + 1 \/ tab.at = to + 1)
    /\ NavigateTo(tab.entries[to], FALSE, TRUE, [tab EXCEPT !.at = to], loader)
    /\ UNCHANGED frameVars
FollowFragment(hash) ==
    LET url == [Address EXCEPT !.hash = hash]
    IN NavigateTo(url, FALSE, TRUE, ToFragment(tab, url), loader) /\ UNCHANGED frameVars

(* The frame has its document; the load event is queued as a task.         *)
Answer(kind) ==
    /\ loader.fetching # None /\ (loader.fetching = AboutBlank => kind = "bare")
    /\ loader' = [loader EXCEPT !.held = [page |-> loader.fetching, kind |-> kind],
                                !.fetching = None, !.events = loader.events + 1]
    /\ UNCHANGED <<latest, currentUrl, content, tab, bar, asked, overtaken, frameVars>>

(* Variants: the id is not compared; the frame is not told of the page.    *)
Current_Any(handler) == handler # None
Current(handler) == handler # None /\ handler.id = latest
SyncNav_Never(handler, page) == toNav
SyncNav(handler, page) == IF handler.sync THEN Append(toNav, page) ELSE toNav

Dequeued == [loader EXCEPT !.events = loader.events - 1]
LoadEvent == loader.events > 0 /\ loader' = Dequeued

StaleLoad ==
    /\ LoadEvent /\ ~Current(loader.onload)
    /\ UNCHANGED <<latest, currentUrl, content, tab, bar, asked, overtaken, frameVars>>

(* Without one the handler and the frame's src stay.  Variants: currentUrl *)
(* is set first; the bar is not stopped.                                   *)
BareLoad_Counted ==
    /\ LoadEvent /\ Current(loader.onload) /\ loader.held.kind = "bare"
    /\ bar' = CancelMainLoading(bar) /\ currentUrl' = loader.onload.url
    /\ UNCHANGED <<latest, content, tab, asked, overtaken, frameVars>>
BareLoad_Loading ==
    /\ LoadEvent /\ Current(loader.onload) /\ loader.held.kind = "bare"
    /\ UNCHANGED <<latest, currentUrl, content, tab, bar, asked, overtaken, frameVars>>
BareLoad ==
    /\ LoadEvent /\ Current(loader.onload)
    /\ loader.held.kind # "foreign" /\ ~UpdatePageState(loader.held)
    /\ bar' = CancelMainLoading(bar)
    /\ UNCHANGED <<latest, currentUrl, content, tab, asked, overtaken, frameVars>>

(* completeNavigation; the frame without src goes to an empty document.    *)
PageLoad ==
    LET handler == loader.onload IN
    /\ loader.events > 0 /\ Current(handler) /\ UpdatePageState(loader.held)
    /\ content' = loader.held.page
    /\ toNav' = SyncNav(handler, loader.held.page)
    /\ tab' = IF handler.push THEN PushState(tab, handler.url) ELSE tab
    /\ currentUrl' = handler.url
    /\ bar' = CancelMainLoading(bar)
    /\ loader' = [Dequeued EXCEPT !.onload = None, !.fetching = AboutBlank]
    /\ UNCHANGED <<latest, asked, overtaken, expanders, navReady, toTop>>

(* The frame's document is out of reach, so the address is set to the URL. *)
OutOfReach ==
    loader.events > 0 /\ Current(loader.onload) /\ loader.held.kind = "foreign"

(* For a fragment of the page the address is at, that only fires popstate: *)
(* the load is asked for anew, and as a later navigation than this one,    *)
(* whose finally block does not cancel the bar then.                       *)
OnlyFragment(url) == url.hash # NoHash /\ url.page = Address.page
FragmentLoad ==
    LET url == loader.onload.url IN
    /\ OutOfReach /\ OnlyFragment(url)
    /\ NavigateTo(url, FALSE, TRUE, ToFragment(tab, url), Dequeued)
    /\ UNCHANGED frameVars

(* Else the whole page goes there.                                         *)
ForeignLoad ==
    /\ OutOfReach /\ ~OnlyFragment(loader.onload.url)
    /\ ShellFresh(loader.onload.url, latest', currentUrl', content', tab', loader',
                  bar', expanders', navReady', toTop', toNav', asked', overtaken', crossed')
-----------------------------------------------------------------------------
(* navExpander: the navigation frame is told of the page when it has       *)
(* loaded and after 50 ms; what is posted before it has loaded is lost.    *)
ExpandByTimer ==
    /\ "timer" \in expanders
    /\ expanders' = expanders \ {"timer"}
    /\ toNav' = IF navReady THEN Append(toNav, content) ELSE toNav
    /\ ShellIdle /\ UNCHANGED <<bar, navReady, toTop>>
NavLoads ==
    /\ ~navReady /\ navReady' = TRUE
    /\ expanders' = expanders \ {"load"}
    /\ toNav' = IF "load" \in expanders THEN Append(toNav, content) ELSE toNav
    /\ ShellIdle /\ UNCHANGED <<bar, toTop>>
=============================================================================
