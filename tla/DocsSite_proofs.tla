--------------------------- MODULE DocsSite_proofs ---------------------------
(***************************************************************************)
(* What holds of DocsSite for every set of pages, every list, every batch  *)
(* size and however often the reader acts.                                 *)
(***************************************************************************)
EXTENDS DocsSite, TLAPS, SequenceTheorems, FiniteSetTheorems

(* The loader: what is fetched is what the handler waits for, and what is  *)
(* held too unless the URL was asked for while a load event was queued.    *)
LoaderFits ==
    /\ loader.events > 0 => loader.held # None
    /\ loader.onload # None => loader.onload.id <= latest
    /\ Current(loader.onload) => asked = loader.onload.url
    /\ Current(loader.onload) /\ ~loader.onload.push => loader.onload.url = Address
    /\ loader.fetching \in Pages =>
         loader.onload # None /\ loader.fetching = loader.onload.url.page
    /\ loader.fetching = AboutBlank => loader.onload = None
    /\ ~overtaken /\ loader.onload # None /\ loader.events > 0 /\ UpdatePageState(loader.held) =>
         loader.held.page = loader.onload.url.page

(* The bar: a handle is one of a timer that runs, and a bar that is due to *)
(* be hidden does not move.                                                *)
BarFits ==
    /\ bar.handle => bar.hides > 0
    /\ bar.hides > 0 => ~bar.ticking

ShellInv ==
    /\ ShellTypeOK
    /\ LoaderFits
    /\ BarFits
    /\ BarAtRest
    /\ AddressAgrees
    /\ ContentAgrees

(* The list: there is one batch to come, the one clearSearchTimeout would  *)
(* cancel, it is one of the query in the field and all before it is done,  *)
(* or there is none and the marks are right.                               *)
Done(p) == /\ p \in found <=> p \in Hits[input]
           /\ p \in Hits[input] => bold[p] = input
Searching ==
    /\ handle \in Batches /\ pending = {handle}
    /\ handle.query = input /\ input \in Queries
    /\ insearch /\ handle.offset < Len(Order)
    /\ \A i \in 1..handle.offset : Done(Order[i])
AtRest == pending = {} /\ handle = None /\ SearchExact
ListInv == ListTypeOK /\ (Searching \/ AtRest)

SiteInv == ShellInv /\ ListInv /\ moves \in 0..MaxMoves /\ failures \in 0..MaxFailures
-----------------------------------------------------------------------------
(* Lemmas about the operators of the page.                                 *)

LEMMA TabTypes ==
    ASSUME NEW t \in Tabs
    PROVE  /\ t = [entries |-> t.entries, at |-> t.at]
           /\ t.entries \in Seq(Url) /\ t.at \in 1..Len(t.entries)
           /\ t.entries[t.at] \in Url
<1>1. t.entries \in Seq(Url) /\ t.at \in DOMAIN t.entries /\ t.at \in Nat
  BY DEF Tabs
<1>2. DOMAIN t.entries = 1..Len(t.entries)
  BY <1>1, LenProperties
<1>3. t.entries[t.at] \in Url
  BY <1>1, <1>2, ElementOfSeq
<1> QED BY <1>1, <1>2, <1>3 DEF Tabs

(* A pushed URL becomes the address.                                       *)
LEMMA PushStateTypes ==
    ASSUME NEW t \in Tabs, NEW url \in Url
    PROVE  /\ PushState(t, url) \in Tabs
           /\ PushState(t, url).entries[PushState(t, url).at] = url
<1> DEFINE old == SubSeq(t.entries, 1, t.at)
           new == Append(old, url)
<1>1. t.entries \in Seq(Url) /\ t.at \in 1..Len(t.entries) /\ Len(t.entries) \in Nat
  BY TabTypes, LenProperties
<1>2. \A i \in 1..t.at : t.entries[i] \in Url
  <2>1. TAKE i \in 1..t.at
  <2>2. i \in 1..Len(t.entries)
    BY <1>1
  <2> QED BY <1>1, <2>2, ElementOfSeq
<1>3. old \in Seq(Url) /\ Len(old) = t.at
  BY <1>1, <1>2, SubSeqProperties
<1>4. new \in Seq(Url) /\ Len(new) = t.at + 1 /\ new[t.at + 1] = url
  BY <1>3, AppendProperties
<1>5. t.at + 1 \in DOMAIN new /\ t.at + 1 \in Nat
  BY <1>1, <1>4, LenProperties
<1>6. PushState(t, url) = [entries |-> new, at |-> t.at + 1]
  BY DEF PushState
<1> HIDE DEF new
<1> QED BY <1>4, <1>5, <1>6 DEF Tabs

LEMMA FoundAt ==
    ASSUME NEW url \in Url
    PROVE  [entries |-> <<url>>, at |-> 1] \in Tabs
BY DEF Tabs

LEMMA UrlFields ==
    ASSUME NEW url \in Url
    PROVE  /\ url.page \in Pages
           /\ \A hash \in Hashes : [url EXCEPT !.hash = hash] \in Url
BY DEF Url

LEMMA ClearHideTypes ==
    ASSUME NEW b \in Bars, b.handle => b.hides > 0
    PROVE  /\ ClearHide(b) \in Bars
           /\ ~ClearHide(b).handle
           /\ ClearHide(b).hides > 0 => b.hides > 0
           /\ ClearHide(b).loading = b.loading /\ ClearHide(b).ticking = b.ticking
           /\ ClearHide(b).progress = b.progress /\ ClearHide(b).timer = b.timer
<1> DEFINE n == IF b.handle THEN b.hides - 1 ELSE b.hides
<1>1. n \in Nat /\ (n > 0 => b.hides > 0)
  BY DEF Bars
<1>2. ClearHide(b) = [b EXCEPT !.hides = n, !.handle = FALSE]
  BY DEF ClearHide
<1> HIDE DEF n
<1> QED BY <1>1, <1>2 DEF Bars

LEMMA IdleBarTypes == IdleBar \in Bars
BY FullFits DEF IdleBar, Bars

LEMMA IdleLoaderTypes == IdleLoader \in Loaders
BY DEF IdleLoader, Loaders

LEMMA HandlerTypes ==
    ASSUME ShellTypeOK, loader.onload # None
    PROVE  /\ loader.onload \in Handlers
           /\ loader.onload.url \in Url /\ loader.onload.id \in Nat
BY DEF ShellTypeOK, Loaders, Handlers

LEMMA HeldTypes ==
    ASSUME ShellTypeOK, loader.held # None
    PROVE  /\ loader.held \in Documents
           /\ UpdatePageState(loader.held) => loader.held.page \in Pages
BY DEF ShellTypeOK, Loaders, Documents, UpdatePageState

(* Going to a fragment of a page makes it the address.                     *)
LEMMA ToFragmentTypes ==
    ASSUME NEW t \in Tabs, NEW url \in Url
    PROVE  /\ ToFragment(t, url) \in Tabs
           /\ ToFragment(t, url).entries[ToFragment(t, url).at] = url
BY PushStateTypes DEF ToFragment

(* The loader navigateTo finds: as it is, or after the load event whose    *)
(* handler it is called by.                                                *)
FoundBy(ld) ==
    /\ ld \in Loaders /\ ld.onload = loader.onload /\ ld.fetching = loader.fetching
    /\ ld.held = loader.held /\ (ld.events > 0 => loader.events > 0)

LEMMA DequeuedTypes ==
    ASSUME ShellTypeOK, loader.events > 0
    PROVE  FoundBy(Dequeued) /\ Dequeued.events = loader.events - 1
<1>1. loader \in Loaders
  BY DEF ShellTypeOK
<1>2. PICK n \in Nat : n = loader.events - 1
  BY <1>1 DEF Loaders
<1>3. Dequeued = [loader EXCEPT !.events = n]
  BY <1>2 DEF Dequeued
<1> QED BY <1>1, <1>2, <1>3 DEF Loaders, FoundBy
-----------------------------------------------------------------------------
(* The page: each action keeps ShellInv, crossed being kept by Notice.     *)

(* What navigateTo leaves to its callers.                                  *)
FrameTypes == /\ expanders \subseteq {"timer", "load"} /\ navReady \in BOOLEAN
              /\ toTop \in Seq(Url) /\ toNav \in Seq(Pages) /\ crossed \in BOOLEAN

LEMMA NavigateToInv ==
    ASSUME ShellInv, NEW url \in Url, NEW push \in BOOLEAN, NEW sync \in BOOLEAN,
           NEW t \in Tabs, push \/ t.entries[t.at] = url, NEW ld, FoundBy(ld),
           NavigateTo(url, push, sync, t, ld), FrameTypes'
    PROVE  ShellInv'
<1>1. ShellTypeOK /\ LoaderFits /\ BarFits /\ BarAtRest /\ AddressAgrees /\ ContentAgrees
  BY DEF ShellInv
<1>2. /\ latest' = latest + 1 /\ latest' \in Nat /\ latest \in Nat
      /\ asked' = url /\ content' = content /\ content \in Pages /\ url.page \in Pages
  BY <1>1, UrlFields DEF NavigateTo, ShellTypeOK
<1>3. CASE /\ SameDocument(currentUrl, url)
           /\ tab' = IF push THEN PushState(t, url) ELSE t
           /\ currentUrl' = url
           /\ loader' = ld
           /\ UNCHANGED <<bar, overtaken>>
  <2>1. tab' \in Tabs /\ Address' = url
    <3>1. CASE push
      <4>1. tab' = PushState(t, url)
        BY <1>3, <3>1
      <4> QED BY <4>1, PushStateTypes DEF Address
    <3>2. CASE ~push
      BY <1>3, <3>2 DEF Address
    <3> QED BY <3>1, <3>2
  <2>2. ShellTypeOK'
    BY <1>1, <1>2, <1>3, <2>1 DEF ShellTypeOK, FrameTypes, FoundBy
  <2>3. ~Current(loader.onload)'
    <3>1. loader.onload # None => loader.onload.id \in Nat /\ loader.onload.id <= latest
      BY <1>1, HandlerTypes DEF LoaderFits
    <3> QED BY <1>2, <1>3, <3>1 DEF Current, FoundBy
  <2>4. LoaderFits'
    <3>1. loader.onload' # None => loader.onload'.id <= latest'
      BY <1>1, <1>2, <1>3, HandlerTypes DEF LoaderFits, FoundBy
    <3> QED BY <1>1, <1>3, <2>3, <3>1 DEF LoaderFits, FoundBy
  <2>5. (BarFits /\ BarAtRest)'
    BY <1>1, <1>3 DEF BarFits, BarAtRest
  <2>6. AddressAgrees'
    BY <1>3, <2>1 DEF AddressAgrees
  <2>7. ContentAgrees'
    BY <1>1, <1>2, <1>3 DEF ContentAgrees, SameDocument, ContentPageUrl
  <2> QED BY <2>2, <2>4, <2>5, <2>6, <2>7 DEF ShellInv
<1>4. CASE /\ ~SameDocument(currentUrl, url)
           /\ tab' = t
           /\ bar' = ScheduleMainLoading(bar, latest + 1)
           /\ loader' = [ld EXCEPT !.onload = Handler(url, push, sync),
                                   !.fetching = ContentPageUrl(url)]
           /\ overtaken' = (overtaken \/ TakenFor(ld, url))
           /\ UNCHANGED currentUrl
  <2>1. Handler(url, push, sync) \in Handlers /\ Handler(url, push, sync) # None
    BY <1>2, NoneIsNothing DEF Handler, Handlers
  <2>2. /\ loader' \in Loaders /\ loader.events' = ld.events
        /\ (loader.events' > 0 => loader.events > 0) /\ loader.held' = loader.held
        /\ loader.held' = ld.held
        /\ loader.onload' = Handler(url, push, sync) /\ loader.fetching' = url.page
    BY <1>2, <1>4, <2>1 DEF FoundBy, Loaders, ContentPageUrl
  <2>3. /\ bar' \in Bars /\ ~bar'.handle /\ (bar'.hides > 0 => bar.hides > 0)
        /\ bar'.loading = bar.loading /\ bar'.ticking = bar.ticking
        /\ bar'.progress = bar.progress
    <3>1. bar \in Bars /\ (bar.handle => bar.hides > 0)
      BY <1>1 DEF ShellTypeOK, BarFits
    <3>2. ClearHide(bar) \in Bars
      BY <3>1, ClearHideTypes
    <3> HIDE DEF ClearHide
    <3>3. bar' = [ClearHide(bar) EXCEPT !.timer = latest + 1]
      BY <1>4 DEF ScheduleMainLoading
    <3>4. /\ bar' \in Bars /\ bar'.handle = ClearHide(bar).handle
          /\ bar'.hides = ClearHide(bar).hides /\ bar'.loading = ClearHide(bar).loading
          /\ bar'.ticking = ClearHide(bar).ticking /\ bar'.progress = ClearHide(bar).progress
      BY <1>2, <3>2, <3>3 DEF Bars
    <3> QED BY <3>1, <3>4, ClearHideTypes
  <2>4. ShellTypeOK'
    BY <1>1, <1>2, <1>4, <2>2, <2>3 DEF ShellTypeOK, FrameTypes, TakenFor
  <2>5. /\ Handler(url, push, sync).id = latest' /\ Handler(url, push, sync).url = url
        /\ Handler(url, push, sync).push = push
    BY <1>2 DEF Handler
  <2>6. LoaderFits'
    <3>1. Address' = url \/ push
      BY <1>4 DEF Address
    <3>2. ~overtaken' /\ loader'.events > 0 /\ UpdatePageState(loader'.held) =>
            loader'.held.page = url.page
      BY <1>4, <2>2 DEF TakenFor
    <3>3. loader'.fetching # AboutBlank
      BY <1>2, <2>2, BlankIsNoPage
    <3> HIDE DEF Handler
    <3> QED BY <1>1, <1>2, <2>1, <2>2, <2>5, <3>1, <3>2, <3>3 DEF LoaderFits, Current
  <2>7. (BarFits /\ BarAtRest)'
    BY <1>1, <2>3 DEF BarFits, BarAtRest
  <2>8. AddressAgrees'
    BY <2>1, <2>2, <2>5 DEF AddressAgrees
  <2>9. ContentAgrees'
    BY <1>1, <1>2, <1>4 DEF ContentAgrees
  <2> QED BY <2>4, <2>6, <2>7, <2>8, <2>9 DEF ShellInv
<1> QED BY <1>3, <1>4 DEF NavigateTo

LEMMA ReceiveNavigateInv ==
    ASSUME ShellInv, ReceiveNavigate, crossed' \in BOOLEAN
    PROVE  ShellInv'
<1>1. ShellTypeOK
  BY DEF ShellInv
<1>2. Head(toTop) \in Url /\ Tail(toTop) \in Seq(Url)
  BY <1>1, HeadTailProperties DEF ReceiveNavigate, ShellTypeOK
<1>3. FrameTypes'
  BY <1>1, <1>2 DEF ReceiveNavigate, FrameTypes, ShellTypeOK
<1>4. NavigateTo(Head(toTop), TRUE, FALSE, tab, loader) /\ tab \in Tabs /\ FoundBy(loader)
  BY <1>1 DEF ReceiveNavigate, ShellTypeOK, FoundBy
<1> QED BY <1>2, <1>3, <1>4, NavigateToInv

LEMMA TraverseInv ==
    ASSUME ShellInv, NEW to, Traverse(to), crossed' \in BOOLEAN
    PROVE  ShellInv'
<1>1. ShellTypeOK
  BY DEF ShellInv
<1>2. tab \in Tabs /\ tab.entries \in Seq(Url) /\ DOMAIN tab.entries = 1..Len(tab.entries)
  BY <1>1, TabTypes, LenProperties DEF ShellTypeOK
<1>3. to \in 1..Len(tab.entries) /\ tab.entries[to] \in Url
  BY <1>2, ElementOfSeq DEF Traverse
<1>4. [tab EXCEPT !.at = to] \in Tabs /\ [tab EXCEPT !.at = to].entries = tab.entries
      /\ [tab EXCEPT !.at = to].at = to
  BY <1>2, <1>3 DEF Tabs
<1>5. FrameTypes'
  BY <1>1 DEF Traverse, FrameTypes, ShellTypeOK, frameVars
<1>6. NavigateTo(tab.entries[to], FALSE, TRUE, [tab EXCEPT !.at = to], loader) /\ FoundBy(loader)
  BY <1>1 DEF Traverse, FoundBy, ShellTypeOK
<1> QED BY <1>3, <1>4, <1>5, <1>6, NavigateToInv

LEMMA FollowFragmentInv ==
    ASSUME ShellInv, NEW hash \in Hashes, FollowFragment(hash), crossed' \in BOOLEAN
    PROVE  ShellInv'
<1> DEFINE url == [Address EXCEPT !.hash = hash]
<1>1. ShellTypeOK
  BY DEF ShellInv
<1>2. tab \in Tabs /\ Address \in Url
  BY <1>1, TabTypes DEF ShellTypeOK, Address
<1>3. url \in Url
  BY <1>2, UrlFields
<1>4. FrameTypes'
  BY <1>1 DEF FollowFragment, FrameTypes, ShellTypeOK, frameVars
<1>5. NavigateTo(url, FALSE, TRUE, ToFragment(tab, url), loader) /\ FoundBy(loader)
  BY <1>1 DEF FollowFragment, FoundBy, ShellTypeOK
<1> HIDE DEF url
<1>6. ToFragment(tab, url) \in Tabs
      /\ ToFragment(tab, url).entries[ToFragment(tab, url).at] = url
  BY <1>2, <1>3, ToFragmentTypes
<1> QED BY <1>3, <1>4, <1>5, <1>6, NavigateToInv

LEMMA AnswerInv ==
    ASSUME ShellInv, NEW kind \in Kinds, Answer(kind), crossed' \in BOOLEAN
    PROVE  ShellInv'
<1> DEFINE doc == [page |-> loader.fetching, kind |-> kind]
<1>1. ShellTypeOK /\ LoaderFits /\ BarFits /\ BarAtRest /\ AddressAgrees /\ ContentAgrees
  BY DEF ShellInv
<1>2. loader \in Loaders /\ (loader.fetching \in Pages \/ loader.fetching = AboutBlank)
  BY <1>1 DEF Answer, ShellTypeOK, Loaders
<1>3. /\ doc \in Documents /\ doc # None /\ doc.page = loader.fetching
      /\ loader.fetching = AboutBlank => ~UpdatePageState(doc)
  BY <1>2, NoneIsNothing DEF Documents, Answer, UpdatePageState
<1> HIDE DEF doc
<1>4. loader' = [loader EXCEPT !.held = doc, !.fetching = None, !.events = loader.events + 1]
  BY DEF Answer, doc
<1>5. /\ loader' \in Loaders /\ loader'.onload = loader.onload
      /\ loader'.held = doc /\ loader'.fetching = None
  <2>1. PICK n \in Nat : n = loader.events + 1
    BY <1>2 DEF Loaders
  <2>2. loader' = [loader EXCEPT !.held = doc, !.fetching = None, !.events = n]
    BY <1>4, <2>1
  <2> QED BY <1>2, <1>3, <2>2 DEF Loaders
<1>6. UNCHANGED <<latest, currentUrl, content, tab, bar, asked, overtaken, frameVars>>
  BY DEF Answer
<1>7. ShellTypeOK'
  BY <1>1, <1>5, <1>6 DEF ShellTypeOK, frameVars
<1>8. LoaderFits'
  <2>1. loader.onload # None /\ UpdatePageState(doc) => loader.fetching = loader.onload.url.page
    BY <1>1, <1>2, <1>3 DEF LoaderFits
  <2>2. loader'.fetching \notin Pages /\ loader'.fetching # AboutBlank
    BY <1>5, NoneIsNoPage, BlankIsNoPage
  <2> QED BY <1>1, <1>3, <1>5, <1>6, <2>1, <2>2 DEF LoaderFits, Current, Address
<1>9. (BarFits /\ BarAtRest /\ AddressAgrees /\ ContentAgrees)'
  BY <1>1, <1>5, <1>6 DEF BarFits, BarAtRest, AddressAgrees, ContentAgrees, Address
<1> QED BY <1>7, <1>8, <1>9 DEF ShellInv

(* A load event that is taken from the queue.                              *)
LEMMA LoadEventFits ==
    ASSUME ShellInv, LoadEvent, UNCHANGED <<latest, currentUrl, content, tab, asked, overtaken>>
    PROVE  /\ loader' \in Loaders /\ LoaderFits'
           /\ (AddressAgrees /\ ContentAgrees)'
<1>1. ShellTypeOK /\ LoaderFits /\ AddressAgrees /\ ContentAgrees
  BY DEF ShellInv
<1>2. /\ loader' \in Loaders /\ loader'.onload = loader.onload /\ loader'.held = loader.held
      /\ loader'.fetching = loader.fetching /\ loader.events > 0
  BY <1>1, DequeuedTypes DEF LoadEvent, FoundBy
<1>3. LoaderFits'
  BY <1>1, <1>2 DEF LoaderFits, Current, Address
<1> QED BY <1>1, <1>2, <1>3 DEF AddressAgrees, ContentAgrees, Address

LEMMA StaleLoadInv ==
    ASSUME ShellInv, StaleLoad, crossed' \in BOOLEAN
    PROVE  ShellInv'
<1>1. /\ LoadEvent
      /\ UNCHANGED <<latest, currentUrl, content, tab, bar, asked, overtaken, frameVars>>
  BY DEF StaleLoad
<1>2. ShellTypeOK /\ BarFits /\ BarAtRest
  BY DEF ShellInv
<1>3. loader' \in Loaders /\ LoaderFits' /\ (AddressAgrees /\ ContentAgrees)'
  BY <1>1, LoadEventFits
<1>4. ShellTypeOK'
  BY <1>1, <1>2, <1>3 DEF ShellTypeOK, frameVars
<1>5. (BarFits /\ BarAtRest)'
  BY <1>1, <1>2 DEF BarFits, BarAtRest
<1> QED BY <1>3, <1>4, <1>5 DEF ShellInv

LEMMA CancelMainLoadingFits ==
    ASSUME ShellInv, bar' = CancelMainLoading(bar)
    PROVE  bar' \in Bars /\ (BarFits /\ BarAtRest)'
<1>1. bar \in Bars /\ Full \in 0..Full
  BY FullFits DEF ShellInv, ShellTypeOK
<1>2. /\ bar' \in Bars /\ ~bar'.ticking /\ bar'.progress = Full
      /\ bar'.handle /\ bar'.hides > 0
  <2>1. PICK n \in Nat : n = bar.hides + 1 /\ n > 0
    BY <1>1 DEF Bars
  <2>2. bar' = [bar EXCEPT !.timer = None, !.ticking = FALSE, !.progress = Full,
                           !.hides = n, !.handle = TRUE]
    BY <2>1 DEF CancelMainLoading
  <2> QED BY <1>1, <2>1, <2>2 DEF Bars
<1> QED BY <1>2 DEF BarFits, BarAtRest

LEMMA BareLoadInv ==
    ASSUME ShellInv, BareLoad, crossed' \in BOOLEAN
    PROVE  ShellInv'
<1>1. /\ LoadEvent /\ bar' = CancelMainLoading(bar)
      /\ UNCHANGED <<latest, currentUrl, content, tab, asked, overtaken, frameVars>>
  BY DEF BareLoad
<1>2. loader' \in Loaders /\ LoaderFits' /\ (AddressAgrees /\ ContentAgrees)'
  BY <1>1, LoadEventFits
<1>3. bar' \in Bars /\ (BarFits /\ BarAtRest)'
  BY <1>1, CancelMainLoadingFits
<1>4. ShellTypeOK'
  BY <1>1, <1>2, <1>3 DEF ShellInv, ShellTypeOK, frameVars
<1> QED BY <1>2, <1>3, <1>4 DEF ShellInv

LEMMA PageLoadInv ==
    ASSUME ShellInv, PageLoad, crossed' \in BOOLEAN
    PROVE  ShellInv'
<1> DEFINE handler == loader.onload
<1>1. ShellTypeOK /\ LoaderFits /\ ContentAgrees
  BY DEF ShellInv
<1>2. /\ loader.events > 0 /\ Current(handler)
      /\ content' = loader.held.page
      /\ toNav' = SyncNav(handler, loader.held.page)
      /\ tab' = IF handler.push THEN PushState(tab, handler.url) ELSE tab
      /\ currentUrl' = handler.url
      /\ bar' = CancelMainLoading(bar)
      /\ loader' = [Dequeued EXCEPT !.onload = None, !.fetching = AboutBlank]
      /\ UNCHANGED <<latest, asked, overtaken, expanders, navReady, toTop>>
      /\ UpdatePageState(loader.held)
  BY DEF PageLoad
<1>3. handler # None /\ handler.url \in Url
  BY <1>1, <1>2, HandlerTypes DEF Current
<1>4. loader.held # None /\ loader.held.page \in Pages
  BY <1>1, <1>2, HeldTypes DEF LoaderFits
<1>5. /\ loader' \in Loaders /\ loader'.onload = None /\ loader'.fetching = AboutBlank
      /\ loader'.held = loader.held
  BY <1>1, <1>2, DequeuedTypes DEF FoundBy, Loaders
<1>6. tab' \in Tabs /\ Address' = handler.url
  <2>1. CASE handler.push
    <3>1. tab \in Tabs /\ tab' = PushState(tab, handler.url)
      BY <1>1, <1>2, <2>1 DEF ShellTypeOK
    <3> QED BY <1>3, <3>1, PushStateTypes DEF Address
  <2>2. CASE ~handler.push
    BY <1>1, <1>2, <2>2 DEF LoaderFits, Address, ShellTypeOK
  <2> QED BY <2>1, <2>2
<1>7. toNav' \in Seq(Pages)
  BY <1>1, <1>2, <1>4, AppendProperties DEF SyncNav, ShellTypeOK
<1>8. bar' \in Bars /\ (BarFits /\ BarAtRest)'
  BY <1>2, CancelMainLoadingFits
<1>9. ShellTypeOK'
  BY <1>1, <1>2, <1>3, <1>4, <1>5, <1>6, <1>7, <1>8 DEF ShellTypeOK
<1>10. LoaderFits'
  BY <1>4, <1>5, BlankIsNoPage DEF LoaderFits, Current
<1>11. (AddressAgrees /\ ContentAgrees)'
  BY <1>1, <1>2, <1>3, <1>6 DEF AddressAgrees, ContentAgrees, LoaderFits
<1> QED BY <1>8, <1>9, <1>10, <1>11 DEF ShellInv

(* The load that is asked for anew is of the address, as before.           *)
LEMMA FragmentLoadInv ==
    ASSUME ShellInv, FragmentLoad, crossed' \in BOOLEAN
    PROVE  ShellInv'
<1> DEFINE url == loader.onload.url
<1>1. ShellTypeOK
  BY DEF ShellInv
<1>2. /\ loader.events > 0 /\ Current(loader.onload)
      /\ NavigateTo(url, FALSE, TRUE, ToFragment(tab, url), Dequeued)
      /\ UNCHANGED frameVars
  BY DEF FragmentLoad, OutOfReach
<1>3. url \in Url /\ tab \in Tabs /\ FoundBy(Dequeued)
  BY <1>1, <1>2, HandlerTypes, DequeuedTypes DEF Current, ShellTypeOK
<1> HIDE DEF url
<1>4. ToFragment(tab, url) \in Tabs
      /\ ToFragment(tab, url).entries[ToFragment(tab, url).at] = url
  BY <1>3, ToFragmentTypes
<1>5. FrameTypes'
  BY <1>1, <1>2 DEF FrameTypes, ShellTypeOK, frameVars
<1> QED BY <1>2, <1>3, <1>4, <1>5, NavigateToInv

(* What the timers and the messages leave alone.                           *)
LEMMA IdleInv ==
    ASSUME ShellInv, ShellIdle, bar' \in Bars, BarFits', BarAtRest', FrameTypes'
    PROVE  ShellInv'
<1>1. ShellTypeOK /\ LoaderFits /\ AddressAgrees /\ ContentAgrees
  BY DEF ShellInv
<1>2. ShellTypeOK'
  BY <1>1 DEF ShellTypeOK, ShellIdle, FrameTypes
<1>3. LoaderFits' /\ (AddressAgrees /\ ContentAgrees)'
  BY <1>1 DEF LoaderFits, AddressAgrees, ContentAgrees, Current, Address, ShellIdle
<1> QED BY <1>2, <1>3 DEF ShellInv

LEMMA IndicatorTimerInv ==
    ASSUME ShellInv, IndicatorTimer, crossed' \in BOOLEAN
    PROVE  ShellInv'
<1>1. bar \in Bars /\ (bar.handle => bar.hides > 0) /\ bar.hides = 0 /\ BarAtRest
  BY DEF ShellInv, ShellTypeOK, BarFits, IndicatorTimer
<1>2. FrameTypes'
  BY DEF ShellInv, ShellTypeOK, IndicatorTimer, frameVars, FrameTypes
<1>3. ClearHide(bar) \in Bars /\ ~ClearHide(bar).handle /\ ~(ClearHide(bar).hides > 0)
  BY <1>1, ClearHideTypes
<1>4. CASE bar.timer = latest
  <2>1. bar' = [[ClearHide(bar) EXCEPT !.loading = TRUE, !.ticking = TRUE, !.progress = 0]
                EXCEPT !.timer = None]
    BY <1>4 DEF IndicatorTimer, StartLoadingProgress
  <2>2. 0 \in 0..Full
    BY FullFits
  <2>3. /\ bar' \in Bars /\ ~bar'.handle /\ ~(bar'.hides > 0) /\ bar'.loading
    BY <1>3, <2>1, <2>2 DEF Bars
  <2> QED BY <1>2, <2>3, IdleInv DEF BarFits, BarAtRest, IndicatorTimer
<1>5. CASE bar.timer # latest
  <2>1. bar' = [bar EXCEPT !.timer = None]
    BY <1>5 DEF IndicatorTimer
  <2>2. /\ bar' \in Bars /\ bar'.handle = bar.handle /\ bar'.hides = bar.hides
        /\ bar'.loading = bar.loading /\ bar'.ticking = bar.ticking
        /\ bar'.progress = bar.progress
    BY <1>1, <2>1 DEF Bars
  <2> QED BY <1>1, <1>2, <2>2, IdleInv DEF BarFits, BarAtRest, IndicatorTimer
<1> QED BY <1>4, <1>5

LEMMA TickInv ==
    ASSUME ShellInv, Tick, crossed' \in BOOLEAN
    PROVE  ShellInv'
<1>1. bar \in Bars /\ BarFits /\ BarAtRest /\ bar.ticking /\ bar.loading
  BY DEF ShellInv, ShellTypeOK, Tick, BarAtRest
<1>2. FrameTypes'
  BY DEF ShellInv, ShellTypeOK, Tick, frameVars, FrameTypes
<1>3. CASE bar.progress < Full
  <2>1. PICK n \in 0..Full : n = bar.progress + 1
    BY <1>1, <1>3, FullFits DEF Bars
  <2> DEFINE more == n < Full
  <2>2. bar' = [bar EXCEPT !.progress = n, !.ticking = more] /\ more \in BOOLEAN
    BY <1>3, <2>1 DEF Tick
  <2> HIDE DEF more
  <2>3. /\ bar' \in Bars /\ bar'.handle = bar.handle /\ bar'.hides = bar.hides
        /\ bar'.loading
    BY <1>1, <2>1, <2>2 DEF Bars
  <2>4. ~(bar.hides > 0)
    BY <1>1 DEF BarFits
  <2> QED BY <1>1, <1>2, <2>3, <2>4, IdleInv DEF BarFits, BarAtRest, Tick
<1>4. CASE ~(bar.progress < Full)
  <2>1. bar' = [bar EXCEPT !.ticking = FALSE]
    BY <1>4 DEF Tick
  <2>2. /\ bar' \in Bars /\ bar'.handle = bar.handle /\ bar'.hides = bar.hides
        /\ bar'.loading /\ ~bar'.ticking
    BY <1>1, <2>1 DEF Bars
  <2> QED BY <1>1, <1>2, <2>2, IdleInv DEF BarFits, BarAtRest, Tick
<1> QED BY <1>3, <1>4

LEMMA HideTimerInv ==
    ASSUME ShellInv, HideTimer, crossed' \in BOOLEAN
    PROVE  ShellInv'
<1>1. bar \in Bars /\ bar.hides > 0 /\ ~bar.ticking
  BY DEF ShellInv, ShellTypeOK, HideTimer, BarFits
<1>2. FrameTypes'
  BY DEF ShellInv, ShellTypeOK, HideTimer, frameVars, FrameTypes
<1>3. PICK n \in Nat : n = bar.hides - 1
  BY <1>1 DEF Bars
<1>4. bar' = [bar EXCEPT !.loading = FALSE, !.progress = 0, !.hides = n, !.handle = FALSE]
  BY <1>3 DEF HideTimer
<1>5. 0 \in 0..Full
  BY FullFits
<1>6. bar' \in Bars /\ ~bar'.handle /\ ~bar'.ticking /\ bar'.progress = 0
  BY <1>1, <1>4, <1>5 DEF Bars
<1> QED BY <1>2, <1>6, IdleInv DEF BarFits, BarAtRest, HideTimer

(* The messages and navExpander.                                           *)
LEMMA PostingInv ==
    ASSUME ShellInv, ShellIdle, UNCHANGED bar, FrameTypes'
    PROVE  ShellInv'
<1>1. bar' \in Bars /\ BarFits' /\ BarAtRest'
  BY DEF ShellInv, ShellTypeOK, BarFits, BarAtRest
<1> QED BY <1>1, IdleInv

LEMMA ExpandByTimerInv ==
    ASSUME ShellInv, ExpandByTimer, crossed' \in BOOLEAN
    PROVE  ShellInv'
<1>1. content \in Pages /\ toNav \in Seq(Pages)
  BY DEF ShellInv, ShellTypeOK
<1>2. toNav' \in Seq(Pages)
  BY <1>1, AppendProperties DEF ExpandByTimer
<1>3. FrameTypes'
  BY <1>2 DEF FrameTypes, ExpandByTimer, ShellInv, ShellTypeOK
<1> QED BY <1>3, PostingInv DEF ExpandByTimer

LEMMA NavLoadsInv ==
    ASSUME ShellInv, NavLoads, crossed' \in BOOLEAN
    PROVE  ShellInv'
<1>1. content \in Pages /\ toNav \in Seq(Pages)
  BY DEF ShellInv, ShellTypeOK
<1>2. toNav' \in Seq(Pages)
  BY <1>1, AppendProperties DEF NavLoads
<1>3. FrameTypes'
  BY <1>2 DEF FrameTypes, NavLoads, ShellInv, ShellTypeOK
<1> QED BY <1>3, PostingInv DEF NavLoads

(* A fresh document.                                                       *)
LEMMA FreshInv ==
    ASSUME NEW url \in Url,
           ShellFresh(url, latest, currentUrl, content, tab, loader, bar, expanders,
                      navReady, toTop, toNav, asked, overtaken, crossed)
    PROVE  ShellInv
<1>1. /\ latest = 0 /\ currentUrl = url /\ content = url.page
      /\ tab = [entries |-> <<url>>, at |-> 1] /\ loader = IdleLoader /\ bar = IdleBar
      /\ expanders = {"timer", "load"} /\ navReady \in BOOLEAN
      /\ toTop = <<>> /\ toNav = <<>> /\ asked = url /\ overtaken = FALSE /\ crossed = FALSE
  BY DEF ShellFresh
<1>2. url.page \in Pages /\ tab \in Tabs /\ Address = url
  BY <1>1, UrlFields, FoundAt DEF Address
<1>3. /\ toTop \in Seq(Url) /\ toNav \in Seq(Pages)
      /\ loader \in Loaders /\ bar \in Bars
  BY <1>1, EmptySeq, IdleBarTypes, IdleLoaderTypes
<1>4. ShellTypeOK
  BY <1>1, <1>2, <1>3 DEF ShellTypeOK
<1>5. LoaderFits
  BY <1>1, NoneIsNoPage, BlankIsNoPage DEF LoaderFits, IdleLoader, Current
<1>6. BarFits /\ BarAtRest
  BY <1>1 DEF BarFits, BarAtRest, IdleBar
<1>7. AddressAgrees /\ ContentAgrees
  BY <1>1, <1>2 DEF AddressAgrees, ContentAgrees
<1> QED BY <1>4, <1>5, <1>6, <1>7 DEF ShellInv
-----------------------------------------------------------------------------
(* The list.                                                               *)

LEMMA ListedFinite == IsFiniteSet(Listed) /\ Listed \subseteq Pages
<1> DEFINE f == [i \in DOMAIN Order |-> Order[i]]
<1>1. Order \in Seq(Pages) /\ DOMAIN Order = 1..Len(Order) /\ Len(Order) \in Nat
  BY ListIsTree, LenProperties
<1>2. \A i \in DOMAIN Order : Order[i] \in Pages
  BY <1>1, ElementOfSeq
<1>3. f \in Surjection(DOMAIN Order, Listed)
  BY DEF Listed, Surjection
<1>4. IsFiniteSet(DOMAIN Order)
  BY <1>1, FS_Interval
<1>5. IsFiniteSet(Listed)
  BY <1>3, <1>4, FS_Surjection
<1> QED BY <1>2, <1>5 DEF Listed

LEMMA VisibleCounted ==
    Cardinality({p \in Listed : Visible(p, collapsed)}) \in Nat
<1>1. {p \in Listed : Visible(p, collapsed)} \in SUBSET Listed
  OBVIOUS
<1> QED BY <1>1, ListedFinite, FS_Subset, FS_CardinalityType

(* A batch of the query in the field, all before it being done.            *)
LEMMA PartialSearchInv ==
    ASSUME ListTypeOK, NEW q \in Queries, NEW offset \in Nat, offset <= Len(Order),
           NEW was, was \in BOOLEAN, NEW said, said \in Nat \cup {None},
           PartialSearch(q, offset, {}, was, said),
           input' = q, insearch' = TRUE, collapsed' \subseteq Listed,
           clicked' \in Listed \cup {None},
           \A i \in 1..offset : q = input /\ Done(Order[i])
    PROVE  ListInv'
<1> DEFINE end  == IF offset + Batch < Len(Order) THEN offset + Batch ELSE Len(Order)
           rows == {Order[i] : i \in (offset + 1)..end}
           rest == [query |-> q, offset |-> end]
<1>1. /\ Len(Order) \in Nat /\ DOMAIN Order = 1..Len(Order)
      /\ \A i \in 1..Len(Order) : Order[i] \in Listed
  BY ListIsTree, LenProperties DEF Listed
<1>2. /\ end \in Nat /\ end <= Len(Order) /\ Blank \notin Queries /\ None \notin Batches
      /\ Hits[q] \subseteq Listed /\ offset <= end
  BY <1>1, SearchFits DEF Batches
<1>3. rest \in Batches /\ rest.query = q /\ rest.offset = end
  BY <1>2 DEF Batches
<1>4. rows \subseteq Listed
  BY <1>1, <1>2
<1>5. /\ found' = Mark(q, rows)
      /\ bold' = [p \in Listed |-> IF p \in rows \cap Hits[q] THEN q ELSE bold[p]]
      /\ \/ end = Len(Order) /\ SearchDone(was) /\ pending' = {}
         \/ end # Len(Order) /\ pending' = {rest} /\ handle' = rest
            /\ busy' = was /\ status' = said
  BY DEF PartialSearch
<1>6. found' \subseteq Listed /\ bold' \in [Listed -> Queries \cup {None}]
  BY <1>2, <1>4, <1>5 DEF Mark, ListTypeOK
<1>7. \A i \in 1..end : Done(Order[i])'
  <2>1. TAKE i \in 1..end
  <2>2. Order[i] \in Listed
    BY <1>1, <1>2
  <2>3. CASE Order[i] \in rows
    BY <1>5, <2>2, <2>3 DEF Done, Mark
  <2>4. CASE Order[i] \notin rows
    <3>1. i \in 1..offset
      BY <1>2, <2>4
    <3>2. q = input /\ Done(Order[i])
      BY <3>1
    <3>3. (Order[i] \in found' <=> Order[i] \in found) /\ bold'[Order[i]] = bold[Order[i]]
      BY <1>5, <2>2, <2>4 DEF Mark
    <3> QED BY <3>2, <3>3 DEF Done
  <2> QED BY <2>3, <2>4
<1>8. CASE end = Len(Order) /\ SearchDone(was) /\ pending' = {}
  <2>1. handle' = None /\ busy' = FALSE /\ status' \in Nat
    BY <1>8, VisibleCounted DEF SearchDone
  <2>2. found' = Hits[q] /\ \A p \in found' : bold'[p] = q
    <3>1. \A i \in 1..Len(Order) : Done(Order[i])'
      BY <1>7, <1>8
    <3>2. \A p \in Listed : Done(p)'
      BY <1>1, <3>1 DEF Listed
    <3> QED BY <1>2, <1>6, <3>2 DEF Done
  <2>3. q # Blank
    BY <1>2
  <2> HIDE DEF end
  <2>4. ListTypeOK'
    BY <1>6, <1>8, <2>1 DEF ListTypeOK
  <2>5. AtRest'
    BY <1>8, <2>1, <2>2, <2>3 DEF AtRest, SearchExact
  <2> QED BY <2>4, <2>5 DEF ListInv
<1>9. CASE end # Len(Order) /\ pending' = {rest} /\ handle' = rest
           /\ busy' = was /\ status' = said
  <2>1. end < Len(Order)
    BY <1>1, <1>2, <1>9
  <2> HIDE DEF rest, end
  <2>2. ListTypeOK'
    BY <1>3, <1>6, <1>9 DEF ListTypeOK
  <2>3. Searching'
    BY <1>3, <1>7, <1>9, <2>1 DEF Searching
  <2> QED BY <2>2, <2>3 DEF ListInv
<1> HIDE DEF end, rest, rows
<1> QED BY <1>5, <1>8, <1>9

LEMMA ListFreshInv ==
    ASSUME ListFresh(input, found, bold, insearch, busy, pending, handle,
                     collapsed, clicked, status)
    PROVE  ListInv
<1>1. ListTypeOK
  BY ListIsTree DEF ListFresh, ListTypeOK
<1>2. AtRest
  BY DEF ListFresh, AtRest, SearchExact
<1> QED BY <1>1, <1>2 DEF ListInv

(* Clearing the timer leaves no batch to come.                             *)
LEMMA ClearSearchTimeoutFits ==
    ASSUME ListInv
    PROVE  ClearSearchTimeout(pending) = {}
BY DEF ListInv, Searching, AtRest, ClearSearchTimeout

LEMMA UpdateSearchResultsInv ==
    ASSUME ListInv, NEW q \in Queries \cup {Blank}, UpdateSearchResults(q)
    PROVE  ListInv'
<1>1. ListTypeOK /\ ClearSearchTimeout(pending) = {}
  BY ClearSearchTimeoutFits DEF ListInv
<1>2. CASE q = Blank
  <2>1. ClearSearch /\ input' = Blank /\ clicked' = clicked
    BY <1>2 DEF UpdateSearchResults
  <2>2. /\ pending' = {} /\ handle' = None /\ found' = {} /\ insearch' = FALSE
        /\ busy' = FALSE /\ bold' = bold /\ status' = status /\ collapsed' \subseteq collapsed
    BY <1>1, <2>1 DEF ClearSearch
  <2>3. ListTypeOK'
    BY <1>1, <2>1, <2>2 DEF ListTypeOK
  <2>4. AtRest'
    BY <2>1, <2>2 DEF AtRest, SearchExact
  <2> QED BY <2>3, <2>4 DEF ListInv
<1>3. CASE q # Blank
  <2>1. PerformSearch(q) /\ input' = q /\ clicked' = clicked /\ q \in Queries
    BY <1>3 DEF UpdateSearchResults
  <2>2. /\ insearch' = TRUE /\ collapsed' = collapsed
        /\ PartialSearch(q, 0, {}, TRUE, None)
    BY <1>1, <2>1 DEF PerformSearch
  <2>3. 0 <= Len(Order) /\ \A i \in 1..0 : q = input /\ Done(Order[i])
    BY ListIsTree, LenProperties
  <2>4. collapsed' \subseteq Listed /\ clicked' \in Listed \cup {None}
    BY <1>1, <2>1, <2>2 DEF ListTypeOK
  <2> QED BY <1>1, <2>1, <2>2, <2>3, <2>4, PartialSearchInv
<1> QED BY <1>2, <1>3

LEMMA NextBatchInv ==
    ASSUME ListInv, NEW b \in pending, NextBatch(b)
    PROVE  ListInv'
<1>1. ListTypeOK /\ Searching /\ b = handle
  BY DEF ListInv, Searching, AtRest
<1>2. /\ b.query = input /\ b.query \in Queries /\ b.offset \in Nat
      /\ b.offset <= Len(Order) /\ pending \ {b} = {}
  <2>1. Len(Order) \in Nat
    BY ListIsTree, LenProperties
  <2> QED BY <1>1, <2>1 DEF Searching, Batches
<1>3. /\ PartialSearch(b.query, b.offset, {}, busy, status)
      /\ UNCHANGED <<input, insearch, collapsed, clicked>>
  BY <1>2 DEF NextBatch
<1>4. /\ collapsed' \subseteq Listed /\ clicked' \in Listed \cup {None}
      /\ busy \in BOOLEAN /\ status \in Nat \cup {None}
      /\ insearch' = TRUE /\ input' = b.query
      /\ \A i \in 1..b.offset : b.query = input /\ Done(Order[i])
  BY <1>1, <1>2, <1>3 DEF ListTypeOK, Searching
<1> QED BY <1>1, <1>2, <1>3, <1>4, PartialSearchInv

(* Folding and marking do not touch the search.                            *)
LEMMA FoldingInv ==
    ASSUME ListInv, collapsed' \subseteq Listed, clicked' \in Listed \cup {None},
           UNCHANGED <<input, found, bold, insearch, busy, pending, handle, status>>
    PROVE  ListInv'
<1>1. ListTypeOK'
  BY DEF ListInv, ListTypeOK
<1>2. Searching' \/ AtRest'
  BY DEF ListInv, Searching, AtRest, Done, SearchExact
<1> QED BY <1>1, <1>2 DEF ListInv

LEMMA ToggleItemInv ==
    ASSUME ListInv, NEW p \in Listed, ToggleItem(p)
    PROVE  ListInv'
<1>1. collapsed' \subseteq Listed /\ clicked' \in Listed \cup {None}
  BY DEF ToggleItem, ListInv, ListTypeOK
<1> QED BY <1>1, FoldingInv DEF ToggleItem

LEMMA ClickItemInv ==
    ASSUME ListInv, NEW p, ClickItem(p)
    PROVE  ListInv'
<1>1. collapsed' \subseteq Listed /\ clicked' \in Listed \cup {None}
  BY DEF ClickItem, SetClicked, ListInv, ListTypeOK
<1> QED BY <1>1, FoldingInv DEF ClickItem, SetClicked

LEMMA ExpandToInv ==
    ASSUME ListInv, NEW p, ExpandTo(p)
    PROVE  ListInv'
<1>1. collapsed' \subseteq Listed /\ clicked' \in Listed \cup {None}
  BY DEF ExpandTo, SetClicked, ListInv, ListTypeOK, listVars
<1>2. UNCHANGED <<input, found, bold, insearch, busy, pending, handle, status>>
  BY DEF ExpandTo, SetClicked, listVars
<1> QED BY <1>1, <1>2, FoldingInv

LEMMA ListStutter ==
    ASSUME ListInv, UNCHANGED listVars
    PROVE  ListInv'
<1>1. collapsed' \subseteq Listed /\ clicked' \in Listed \cup {None}
  BY DEF ListInv, ListTypeOK, listVars
<1> QED BY <1>1, FoldingInv DEF listVars
-----------------------------------------------------------------------------
(* The site.                                                               *)

LEMMA ShellStutter ==
    ASSUME ShellInv, UNCHANGED shellVars
    PROVE  ShellInv'
<1>1. ShellIdle /\ UNCHANGED bar /\ FrameTypes'
  BY DEF shellVars, ShellIdle, FrameTypes, ShellInv, ShellTypeOK
<1> QED BY <1>1, PostingInv

LEMMA NoticeTypes ==
    ASSUME ShellInv, Notice
    PROVE  crossed' \in BOOLEAN
BY DEF ShellInv, ShellTypeOK, Notice

LEMMA ListReaches == \A p \in Listed : [page |-> p, hash |-> NoHash] \in Url
BY ListedFinite DEF Url

LEMMA InitInv == Init => SiteInv
<1> SUFFICES ASSUME Init PROVE SiteInv
  OBVIOUS
<1>1. ShellInv
  <2>1. PICK url \in Entries :
          ShellFresh(url, latest, currentUrl, content, tab, loader, bar, expanders,
                     navReady, toTop, toNav, asked, overtaken, crossed)
    BY DEF Init, ShellInit
  <2>2. url \in Url
    BY FullFits
  <2> QED BY <2>1, <2>2, FreshInv
<1>2. ListInv
  BY ListFreshInv DEF Init, ListInit
<1> QED BY <1>1, <1>2, MovesFit, FailuresFit DEF Init, SiteInv

LEMMA MovesType ==
    ASSUME moves \in 0..MaxMoves, Moves
    PROVE  moves' \in 0..MaxMoves /\ failures' = failures
BY MovesFit DEF Moves

(* The page is replaced: the new document is a fresh one.                  *)
Fresh(url) == ShellFresh(url, latest, currentUrl, content, tab, loader, bar, expanders,
                         navReady, toTop, toNav, asked, overtaken, crossed)
FreshFits == \A url \in Url : Fresh(url) => ShellInv

LEMMA FreshFitsAlways == FreshFits
BY FreshInv DEF FreshFits, Fresh

LEMMA FreshFitsNext == FreshFits'
BY FreshFitsAlways, PTL

LEMMA ForeignLoadInv ==
    ASSUME ShellInv, ForeignLoad
    PROVE  ShellInv'
<1>1. PICK url \in Url : url = loader.onload.url
  BY HandlerTypes DEF ShellInv, ForeignLoad, OutOfReach, Current
<1>2. Fresh(url)'
  BY <1>1 DEF ForeignLoad, Fresh, ShellFresh
<1> QED BY <1>2, FreshFitsNext DEF FreshFits

LEMMA ListResetInv ==
    ASSUME ListReset
    PROVE  ListInv'
<1>1. /\ input' = Blank /\ found' = {} /\ bold' = [p \in Listed |-> None]
      /\ insearch' = FALSE /\ busy' = FALSE /\ pending' = {} /\ handle' = None
      /\ collapsed' = Folded /\ clicked' = None /\ status' = None
  BY DEF ListReset, ListFresh
<1>2. ListTypeOK'
  BY <1>1, ListIsTree DEF ListTypeOK
<1>3. AtRest'
  BY <1>1 DEF AtRest, SearchExact
<1> QED BY <1>2, <1>3 DEF ListInv

(* What is posted between the page and the list.                           *)
LEMMA ClickInv ==
    ASSUME SiteInv, NEW p \in Listed, Click(p)
    PROVE  SiteInv'
<1>1. /\ ShellInv /\ ListInv /\ moves \in 0..MaxMoves /\ failures \in 0..MaxFailures
      /\ crossed' \in BOOLEAN
  BY NoticeTypes DEF SiteInv, Click
<1>2. toTop' \in Seq(Url)
  BY <1>1, ListReaches, AppendProperties DEF Click, ShellInv, ShellTypeOK
<1>3. FrameTypes'
  BY <1>1, <1>2 DEF Click, FrameTypes, ShellInv, ShellTypeOK
<1>4. ShellInv'
  BY <1>1, <1>3, PostingInv DEF Click
<1>5. ListInv'
  BY <1>1, ClickItemInv DEF Click
<1> QED BY <1>1, <1>4, <1>5, MovesType DEF SiteInv, Click

LEMMA ReceiveExpandInv ==
    ASSUME SiteInv, ReceiveExpand
    PROVE  SiteInv'
<1>1. /\ ShellInv /\ ListInv /\ moves \in 0..MaxMoves /\ failures \in 0..MaxFailures
      /\ crossed' \in BOOLEAN
  BY NoticeTypes DEF SiteInv, ReceiveExpand
<1>2. toNav' \in Seq(Pages)
  BY <1>1, HeadTailProperties DEF ReceiveExpand, ShellInv, ShellTypeOK
<1>3. FrameTypes'
  BY <1>1, <1>2 DEF ReceiveExpand, FrameTypes, ShellInv, ShellTypeOK
<1>4. ShellInv'
  BY <1>1, <1>3, PostingInv DEF ReceiveExpand
<1>5. ListInv'
  BY <1>1, ExpandToInv DEF ReceiveExpand
<1> QED BY <1>1, <1>4, <1>5 DEF SiteInv, ReceiveExpand, siteVars

LEMMA ShellStepInv ==
    ASSUME SiteInv, ShellInv', UNCHANGED <<listVars, siteVars>>
    PROVE  SiteInv'
BY ListStutter DEF SiteInv, siteVars

LEMMA LoadInv ==
    ASSUME SiteInv, NEW kind \in Kinds, Load(kind)
    PROVE  SiteInv'
<1>1. ShellInv' /\ ListInv'
  BY AnswerInv, NoticeTypes, ListStutter DEF SiteInv, Load
<1>2. failures' \in 0..MaxFailures /\ moves' = moves
  BY FailuresFit DEF SiteInv, Load
<1> QED BY <1>1, <1>2 DEF SiteInv

LEMMA NextInv ==
    ASSUME SiteInv, [Next]_vars
    PROVE  SiteInv'
<1>1. ShellInv /\ ListInv /\ moves \in 0..MaxMoves /\ failures \in 0..MaxFailures
  BY DEF SiteInv
<1>2. CASE \E p \in Listed : Click(p)
  BY <1>2, ClickInv
<1>3. CASE \E q \in Queries \cup {Blank} : Search(q)
  <2>1. PICK q \in Queries \cup {Blank} : Search(q)
    BY <1>3
  <2> QED BY <1>1, <2>1, UpdateSearchResultsInv, ShellStutter, MovesType DEF Search, SiteInv
<1>4. CASE \E p \in Listed : Fold(p)
  <2>1. PICK p \in Listed : Fold(p)
    BY <1>4
  <2> QED BY <1>1, <2>1, ToggleItemInv, ShellStutter, MovesType DEF Fold, SiteInv
<1>5. CASE Back
  BY <1>1, <1>5, TraverseInv, NoticeTypes, ListStutter, MovesType DEF Back, SiteInv
<1>6. CASE Forward
  BY <1>1, <1>6, TraverseInv, NoticeTypes, ListStutter, MovesType DEF Forward, SiteInv
<1>7. CASE \E hash \in Hashes : Fragment(hash)
  <2>1. PICK hash \in Hashes : Fragment(hash)
    BY <1>7
  <2> QED BY <1>1, <2>1, FollowFragmentInv, NoticeTypes, ListStutter, MovesType
          DEF Fragment, SiteInv
<1>8. CASE ShellStep(ReceiveNavigate)
  BY <1>1, <1>8, ReceiveNavigateInv, NoticeTypes, ShellStepInv DEF ShellStep
<1>9. CASE \E kind \in Kinds : Load(kind)
  BY <1>9, LoadInv
<1>10. CASE ShellStep(StaleLoad)
  BY <1>1, <1>10, StaleLoadInv, NoticeTypes, ShellStepInv DEF ShellStep
<1>11. CASE ShellStep(BareLoad)
  BY <1>1, <1>11, BareLoadInv, NoticeTypes, ShellStepInv DEF ShellStep
<1>12. CASE ShellStep(PageLoad)
  BY <1>1, <1>12, PageLoadInv, NoticeTypes, ShellStepInv DEF ShellStep
<1>13. CASE Leave
  BY <1>1, <1>13, ForeignLoadInv, ListResetInv DEF Leave, SiteInv, siteVars
<1>14. CASE ShellStep(IndicatorTimer)
  BY <1>1, <1>14, IndicatorTimerInv, NoticeTypes, ShellStepInv DEF ShellStep
<1>15. CASE ShellStep(Tick)
  BY <1>1, <1>15, TickInv, NoticeTypes, ShellStepInv DEF ShellStep
<1>16. CASE ShellStep(HideTimer)
  BY <1>1, <1>16, HideTimerInv, NoticeTypes, ShellStepInv DEF ShellStep
<1>17. CASE ShellStep(ExpandByTimer)
  BY <1>1, <1>17, ExpandByTimerInv, NoticeTypes, ShellStepInv DEF ShellStep
<1>18. CASE ShellStep(NavLoads)
  BY <1>1, <1>18, NavLoadsInv, NoticeTypes, ShellStepInv DEF ShellStep
<1>19. CASE ReceiveExpand
  BY <1>19, ReceiveExpandInv
<1>20. CASE \E b \in pending : ListStep(NextBatch(b))
  <2>1. PICK b \in pending : ListStep(NextBatch(b))
    BY <1>20
  <2> QED BY <1>1, <2>1, NextBatchInv, ShellStutter DEF ListStep, SiteInv, siteVars
<1>21. CASE UNCHANGED vars
  BY <1>1, <1>21, ShellStutter, ListStutter DEF vars, siteVars, SiteInv
<1>22. CASE ShellStep(FragmentLoad)
  BY <1>1, <1>22, FragmentLoadInv, NoticeTypes, ShellStepInv DEF ShellStep
<1> QED BY <1>2, <1>3, <1>4, <1>5, <1>6, <1>7, <1>8, <1>9, <1>10, <1>11, <1>12, <1>13,
           <1>14, <1>15, <1>16, <1>17, <1>18, <1>19, <1>20, <1>21, <1>22 DEF Next
-----------------------------------------------------------------------------
(* The inductive invariant.                                                *)
THEOREM Invariance == Spec => []SiteInv
<1>1. SiteInv /\ [Next]_vars => SiteInv'
  BY NextInv
<1> QED BY InitInv, <1>1, PTL DEF Spec

(* The variables keep their types, and a load event always has a document. *)
THEOREM TypeCorrect == Spec => []TypeOK
<1>1. SiteInv => TypeOK
  BY DEF SiteInv, ShellInv, ListInv, LoaderFits, TypeOK
<1> QED BY <1>1, Invariance, PTL

(* The address bar is that of the page on show, whichever navigations were *)
(* dropped, failed or gone back on, except while one is being loaded.      *)
THEOREM AddressOfPage == Spec => []AddressAgrees
<1>1. SiteInv => AddressAgrees
  BY DEF SiteInv, ShellInv
<1> QED BY <1>1, Invariance, PTL

(* The content is that of currentUrl, but for the one known race.          *)
THEOREM ContentOfPage == Spec => []ContentAgrees
<1>1. SiteInv => ContentAgrees
  BY DEF SiteInv, ShellInv
<1> QED BY <1>1, Invariance, PTL

(* A bar that is not loading neither moves nor shows a part.               *)
THEOREM BarRests == Spec => []BarAtRest
<1>1. SiteInv => BarAtRest
  BY DEF SiteInv, ShellInv
<1> QED BY <1>1, Invariance, PTL

(* Whatever is typed while batches are to come, the search that ends is    *)
(* that of the text in the field.                                          *)
THEOREM SearchCorrect == Spec => []SearchExact
<1>1. SiteInv => SearchExact
  <2>1. ASSUME Searching PROVE pending # {}
    BY <2>1 DEF Searching
  <2> QED BY <2>1 DEF SiteInv, ListInv, AtRest, SearchExact
<1> QED BY <1>1, Invariance, PTL
-----------------------------------------------------------------------------
(* What a step may not do.                                                 *)

(* Only two actions exchange the content, and both are of the page asked   *)
(* for.                                                                    *)
LEMMA ContentExchanged ==
    ASSUME SiteInv, [Next]_vars, content' # content
    PROVE  PageLoad \/ ForeignLoad
<1>1. CASE \E p \in Listed : Click(p)
  BY <1>1 DEF Click, ShellIdle
<1>2. CASE \E q \in Queries \cup {Blank} : Search(q)
  BY <1>2 DEF Search, shellVars
<1>3. CASE \E p \in Listed : Fold(p)
  BY <1>3 DEF Fold, shellVars
<1>4. CASE Back \/ Forward
  BY <1>4 DEF Back, Forward, Traverse, NavigateTo
<1>5. CASE \E hash \in Hashes : Fragment(hash)
  BY <1>5 DEF Fragment, FollowFragment, NavigateTo
<1>6. CASE ShellStep(ReceiveNavigate)
  BY <1>6 DEF ShellStep, ReceiveNavigate, NavigateTo
<1>7. CASE \E kind \in Kinds : Load(kind)
  BY <1>7 DEF Load, Answer
<1>8. CASE ShellStep(StaleLoad) \/ ShellStep(BareLoad) \/ ShellStep(FragmentLoad)
  BY <1>8 DEF ShellStep, StaleLoad, BareLoad, FragmentLoad, NavigateTo
<1>9. CASE ShellStep(PageLoad) \/ Leave
  BY <1>9 DEF ShellStep, Leave
<1>10. CASE ShellStep(IndicatorTimer) \/ ShellStep(Tick) \/ ShellStep(HideTimer)
  BY <1>10 DEF ShellStep, IndicatorTimer, Tick, HideTimer, ShellIdle
<1>11. CASE ShellStep(ExpandByTimer) \/ ShellStep(NavLoads) \/ ReceiveExpand
  BY <1>11 DEF ShellStep, ExpandByTimer, NavLoads, ReceiveExpand, ShellIdle
<1>12. CASE \E b \in pending : ListStep(NextBatch(b))
  BY <1>12 DEF ListStep, shellVars
<1>13. CASE UNCHANGED vars
  BY <1>13 DEF vars, shellVars
<1> QED BY <1>1, <1>2, <1>3, <1>4, <1>5, <1>6, <1>7, <1>8, <1>9, <1>10, <1>11, <1>12, <1>13
        DEF Next

(* A page that is put on show is the one last asked for: no handler of an  *)
(* earlier navigation gets that far.                                       *)
THEOREM LatestShown == Spec => LatestWins
<1>1. SiteInv /\ [Next]_vars =>
        [content' # content => overtaken' \/ content' = asked'.page]_vars
  <2> SUFFICES ASSUME SiteInv, [Next]_vars, content' # content
               PROVE  overtaken' \/ content' = asked'.page
    OBVIOUS
  <2>1. LoaderFits
    BY DEF SiteInv, ShellInv
  <2>2. CASE PageLoad
    BY <2>1, <2>2 DEF PageLoad, LoaderFits, Current
  <2>3. CASE ForeignLoad
    BY <2>3 DEF ForeignLoad, ShellFresh
  <2> QED BY <2>2, <2>3, ContentExchanged
<1> QED BY Invariance, <1>1, PTL DEF Spec, LatestWins

(* Who folds an entry away, or marks one.                                  *)
LEMMA ListUnfolds ==
    ASSUME SiteInv, [Next]_vars
    PROVE  \/ \E p \in Listed : Fold(p)
           \/ clicked' = None
           \/ clicked' = clicked /\ collapsed' \subseteq collapsed
           \/ clicked' \in Listed /\ Visible(clicked', collapsed')
<1>1. CASE \E p \in Listed : Click(p)
  BY <1>1 DEF Click, ClickItem, SetClicked, Shown, Visible
<1>2. CASE \E q \in Queries \cup {Blank} : Search(q)
  BY <1>2 DEF Search, UpdateSearchResults, ClearSearch, PerformSearch
<1>3. CASE Back \/ Forward
  BY <1>3 DEF Back, Forward, listVars
<1>4. CASE \E hash \in Hashes : Fragment(hash)
  BY <1>4 DEF Fragment, listVars
<1>5. CASE \/ ShellStep(ReceiveNavigate) \/ \E kind \in Kinds : Load(kind)
           \/ ShellStep(StaleLoad) \/ ShellStep(BareLoad) \/ ShellStep(PageLoad)
           \/ ShellStep(FragmentLoad)
           \/ ShellStep(IndicatorTimer) \/ ShellStep(Tick) \/ ShellStep(HideTimer)
           \/ ShellStep(ExpandByTimer) \/ ShellStep(NavLoads)
  BY <1>5 DEF ShellStep, Load, listVars
<1>6. CASE Leave
  BY <1>6 DEF Leave, ListReset, ListFresh
<1>7. CASE ReceiveExpand
  <2>1. PICK p : ExpandTo(p)
    BY <1>7 DEF ReceiveExpand
  <2>2. CASE p \in Listed
    BY <2>1, <2>2 DEF ExpandTo, SetClicked, Visible
  <2>3. CASE p \notin Listed
    BY <2>1, <2>3 DEF ExpandTo, listVars
  <2> QED BY <2>2, <2>3
<1>8. CASE \E b \in pending : ListStep(NextBatch(b))
  BY <1>8 DEF ListStep, NextBatch
<1>9. CASE UNCHANGED vars
  BY <1>9 DEF vars, listVars
<1> QED BY <1>1, <1>2, <1>3, <1>4, <1>5, <1>6, <1>7, <1>8, <1>9 DEF Next

(* Neither a click, nor an "expand", nor a search cleared leaves the       *)
(* clicked entry below a folded one.                                       *)
THEOREM ClickedSeen == Spec => ClickedStaysInSight
<1>1. SiteInv /\ [Next]_vars =>
        [clicked' \in Listed /\ ~Visible(clicked', collapsed') =>
           \/ clicked' = clicked /\ ~Visible(clicked, collapsed)
           \/ \E p \in Listed : Fold(p)]_vars
  <2> SUFFICES ASSUME SiteInv, [Next]_vars, clicked' \in Listed,
                      ~Visible(clicked', collapsed')
               PROVE  \/ clicked' = clicked /\ ~Visible(clicked, collapsed)
                      \/ \E p \in Listed : Fold(p)
    OBVIOUS
  <2>1. clicked' # None
    BY ListedFinite, NoneIsNoPage
  <2> QED BY <2>1, ListUnfolds DEF Visible
<1> QED BY Invariance, <1>1, PTL DEF Spec, ClickedStaysInSight
-----------------------------------------------------------------------------
(* The mark in the list.  As long as no click crossed an "expand" and no   *)
(* load event was taken for another's, the message that comes last is      *)
(* about the page on show, a click is about the entry it marked, and with  *)
(* nothing under way the mark is right.                                    *)
LastOf(s) == s[Len(s)]
NavFits ==
    /\ ClickUnderWay /\ ExpandUnderWay => crossed
    /\ ~navReady => "load" \in expanders
    /\ loader.onload # None => loader.onload.push = ~loader.onload.sync
    /\ toNav # <<>> => crossed \/ overtaken \/ LastOf(toNav) = content
    /\ toTop # <<>> => crossed \/ overtaken \/ LastOf(toTop).page = clicked
    /\ toTop = <<>> /\ Current(loader.onload) /\ loader.onload.push =>
         crossed \/ overtaken \/ clicked = loader.onload.url.page
    /\ Calm /\ content \in Listed => crossed \/ overtaken \/ clicked = content

LEMMA LastAppended ==
    ASSUME NEW S, NEW s \in Seq(S), NEW e \in S
    PROVE  Append(s, e) # <<>> /\ LastOf(Append(s, e)) = e
BY AppendProperties DEF LastOf

LEMMA LastOfTail ==
    ASSUME NEW S, NEW s \in Seq(S), s # <<>>
    PROVE  /\ Tail(s) # <<>> => LastOf(Tail(s)) = LastOf(s)
           /\ Tail(s) = <<>> => Head(s) = LastOf(s)
<1>1. /\ Tail(s) \in Seq(S) /\ Len(Tail(s)) = Len(s) - 1 /\ Len(s) \in Nat \ {0}
      /\ \A i \in 1..Len(Tail(s)) : Tail(s)[i] = s[i + 1]
  BY HeadTailProperties, EmptySeq
<1>2. ASSUME Tail(s) # <<>> PROVE LastOf(Tail(s)) = LastOf(s)
  <2>1. Len(Tail(s)) \in Nat \ {0}
    BY <1>1, <1>2, EmptySeq
  <2>2. Len(Tail(s)) \in 1..Len(Tail(s)) /\ Len(Tail(s)) + 1 = Len(s)
    BY <1>1, <2>1
  <2>3. Tail(s)[Len(Tail(s))] = s[Len(Tail(s)) + 1]
    BY <1>1, <2>2
  <2> QED BY <2>2, <2>3 DEF LastOf
<1>3. ASSUME Tail(s) = <<>> PROVE Head(s) = LastOf(s)
  <2>1. Len(Tail(s)) = 0
    BY <1>3, EmptySeq, Zenon
  <2>2. Len(s) = 1
    <3>1. Len(Tail(s)) = Len(s) - 1 /\ Len(s) \in Nat
      BY <1>1
    <3> DEFINE m == Len(s)
               n == Len(Tail(s))
    <3>2. n = m - 1 /\ m \in Nat /\ n = 0
      BY <2>1, <3>1
    <3> HIDE DEF m, n
    <3>3. m = 1
      BY <3>2
    <3> QED BY <3>3 DEF m
  <2> QED BY <2>2 DEF LastOf
<1> QED BY <1>2, <1>3

LEMMA NoticeKeeps ==
    ASSUME Notice
    PROVE  /\ crossed => crossed'
           /\ (ClickUnderWay /\ ExpandUnderWay => crossed)'
BY DEF Notice

(* Steps that touch neither the messages nor the handler nor the mark.     *)
LEMMA NavQuiet ==
    ASSUME NavFits, UNCHANGED <<latest, content, overtaken, frameVars, clicked>>,
           loader.onload' = loader.onload, Notice
    PROVE  NavFits'
<1>1. Current(loader.onload)' = Current(loader.onload)
  BY DEF Current
<1> QED BY <1>1, NoticeKeeps DEF NavFits, Calm, frameVars

LEMMA NavUntouched ==
    ASSUME NavFits, UNCHANGED <<shellVars, clicked>>
    PROVE  NavFits'
<1>1. (ClickUnderWay /\ ExpandUnderWay)' = (ClickUnderWay /\ ExpandUnderWay)
  BY DEF shellVars, ClickUnderWay, ExpandUnderWay, Current
<1>2. Current(loader.onload)' = Current(loader.onload)
  BY DEF shellVars, Current
<1> QED BY <1>1, <1>2 DEF NavFits, Calm, shellVars

(* What becomes of the handler.                                            *)
LEMMA NavigateToHandler ==
    ASSUME ShellInv, NEW url \in Url, NEW push \in BOOLEAN, NEW sync \in BOOLEAN, NEW t,
           NEW ld, FoundBy(ld), NavigateTo(url, push, sync, t, ld)
    PROVE  /\ content' = content /\ (overtaken => overtaken')
           /\ \/ /\ loader.onload' = loader.onload /\ ~Current(loader.onload)'
                 /\ currentUrl.page = url.page
              \/ /\ loader.onload' # None /\ loader.onload'.url = url
                 /\ loader.onload'.push = push /\ loader.onload'.sync = sync
<1>1. ShellTypeOK /\ LoaderFits
  BY DEF ShellInv
<1>2. latest' = latest + 1 /\ latest \in Nat
  BY <1>1 DEF NavigateTo, ShellTypeOK
<1>3. CASE /\ SameDocument(currentUrl, url)
           /\ loader' = ld
           /\ UNCHANGED <<bar, overtaken>>
  <2>1. loader.onload # None => loader.onload.id \in Nat /\ loader.onload.id <= latest
    BY <1>1, HandlerTypes DEF LoaderFits
  <2>2. loader.onload' = loader.onload /\ currentUrl.page = url.page
    BY <1>3 DEF FoundBy, SameDocument, ContentPageUrl
  <2>3. content' = content /\ (overtaken => overtaken')
    BY <1>3 DEF NavigateTo
  <2> QED BY <1>2, <2>1, <2>2, <2>3 DEF Current
<1>4. CASE /\ loader' = [ld EXCEPT !.onload = Handler(url, push, sync),
                                   !.fetching = ContentPageUrl(url)]
           /\ overtaken' = (overtaken \/ TakenFor(ld, url))
  <2>1. Handler(url, push, sync) \in Handlers /\ Handler(url, push, sync) # None
    BY <1>2, NoneIsNothing DEF Handler, Handlers
  <2>2. loader.onload' = Handler(url, push, sync)
    BY <1>4 DEF FoundBy, Loaders
  <2>3. /\ Handler(url, push, sync).url = url /\ Handler(url, push, sync).push = push
        /\ Handler(url, push, sync).sync = sync
    BY DEF Handler
  <2>4. content' = content /\ (overtaken => overtaken')
    BY <1>4 DEF NavigateTo
  <2> QED BY <2>1, <2>2, <2>3, <2>4
<1> QED BY <1>3, <1>4 DEF NavigateTo

(* The reader's history moves are passed on to the list.                   *)
LEMMA NavTraverses ==
    ASSUME SiteInv, NavFits, NEW url \in Url, NEW t,
           NEW ld, FoundBy(ld), NavigateTo(url, FALSE, TRUE, t, ld),
           UNCHANGED <<frameVars, clicked>>, Notice
    PROVE  NavFits'
<1>1. ShellInv
  BY DEF SiteInv
<1>2. /\ content' = content /\ (overtaken => overtaken')
      /\ \/ /\ loader.onload' = loader.onload /\ ~Current(loader.onload)'
            /\ currentUrl.page = url.page
         \/ /\ loader.onload' # None /\ loader.onload'.url = url
            /\ loader.onload'.push = FALSE /\ loader.onload'.sync = TRUE
  BY <1>1, NavigateToHandler
<1> QED BY <1>2, NoticeKeeps DEF NavFits, Calm, frameVars

LEMMA NavReceives ==
    ASSUME SiteInv, NavFits, ReceiveNavigate, UNCHANGED clicked, Notice
    PROVE  NavFits'
<1> DEFINE url == Head(toTop)
<1>1. /\ ShellInv /\ toTop # <<>> /\ toTop' = Tail(toTop) /\ NavigateTo(url, TRUE, FALSE, tab, loader)
      /\ UNCHANGED <<expanders, navReady, toNav>> /\ FoundBy(loader)
  BY DEF SiteInv, ReceiveNavigate, FoundBy, ShellInv, ShellTypeOK
<1>2. /\ url \in Url /\ (Tail(toTop) # <<>> => LastOf(Tail(toTop)) = LastOf(toTop))
      /\ (Tail(toTop) = <<>> => url = LastOf(toTop))
  BY <1>1, HeadTailProperties, LastOfTail DEF ShellInv, ShellTypeOK
<1> HIDE DEF url
<1>3. /\ content' = content /\ (overtaken => overtaken')
      /\ \/ /\ loader.onload' = loader.onload /\ ~Current(loader.onload)'
            /\ currentUrl.page = url.page
         \/ /\ loader.onload' # None /\ loader.onload'.url = url
            /\ loader.onload'.push = TRUE /\ loader.onload'.sync = FALSE
  BY <1>1, <1>2, NavigateToHandler
<1>4. overtaken \/ content = currentUrl.page
  BY <1>1 DEF ShellInv, ContentAgrees
<1> QED BY <1>1, <1>2, <1>3, <1>4, NoticeKeeps DEF NavFits, Calm

LEMMA NavPageLoad ==
    ASSUME SiteInv, NavFits, PageLoad, UNCHANGED clicked, Notice
    PROVE  NavFits'
<1> DEFINE handler == loader.onload
<1>1. /\ ShellTypeOK /\ LoaderFits /\ loader.events > 0 /\ Current(handler)
      /\ content' = loader.held.page /\ toNav' = SyncNav(handler, loader.held.page)
      /\ UpdatePageState(loader.held)
      /\ UNCHANGED <<latest, overtaken, expanders, navReady, toTop>>
  BY DEF SiteInv, ShellInv, PageLoad
<1>2. loader.onload' = None /\ ~Current(loader.onload)'
  BY <1>1, DequeuedTypes DEF PageLoad, FoundBy, Loaders, Current
<1>3. handler # None /\ (overtaken \/ content' = handler.url.page)
  BY <1>1 DEF Current, LoaderFits
<1>4. loader.held.page \in Pages /\ toNav \in Seq(Pages)
  BY <1>1, HeldTypes DEF LoaderFits, ShellTypeOK
<1>5. CASE handler.sync
  <2>1. toNav' # <<>> /\ LastOf(toNav') = content'
    BY <1>1, <1>4, <1>5, LastAppended DEF SyncNav
  <2> QED BY <1>1, <1>2, <2>1, NoticeKeeps DEF NavFits, Calm
<1>6. CASE ~handler.sync
  <2>1. toNav' = toNav /\ handler.push
    BY <1>1, <1>3, <1>6 DEF SyncNav, NavFits
  <2>2. toNav # <<>> => crossed
    BY <1>1, <2>1 DEF NavFits, ClickUnderWay, ExpandUnderWay
  <2> QED BY <1>1, <1>2, <1>3, <2>1, <2>2, NoticeKeeps DEF NavFits, Calm
<1> QED BY <1>5, <1>6

LEMMA NavLeave ==
    ASSUME Leave
    PROVE  NavFits'
<1>1. /\ expanders' = {"timer", "load"} /\ loader' = IdleLoader
      /\ toTop' = <<>> /\ toNav' = <<>>
  BY DEF Leave, ForeignLoad, ShellFresh
<1>2. loader.onload' = None
  BY <1>1 DEF IdleLoader
<1> QED BY <1>1, <1>2 DEF NavFits, Calm, Current, ClickUnderWay, ExpandUnderWay

(* navExpander tells the list of the page on show.                         *)
LEMMA NavExpands ==
    ASSUME SiteInv, NavFits, ExpandByTimer \/ NavLoads, UNCHANGED clicked, Notice
    PROVE  NavFits'
<1>1. content \in Pages /\ toNav \in Seq(Pages) /\ navReady \in BOOLEAN
  BY DEF SiteInv, ShellInv, ShellTypeOK
<1>2. /\ UNCHANGED <<latest, loader, content, overtaken, toTop>>
      /\ Current(loader.onload)' = Current(loader.onload)
  BY DEF ExpandByTimer, NavLoads, ShellIdle, Current
<1>3. /\ \/ toNav' = Append(toNav, content)
         \/ toNav' = toNav /\ ~navReady'
      /\ ~navReady' => "load" \in expanders'
  BY <1>1 DEF ExpandByTimer, NavLoads, NavFits
<1>4. CASE toNav' = Append(toNav, content)
  <2>1. toNav' # <<>> /\ LastOf(toNav') = content
    BY <1>1, <1>4, LastAppended
  <2> QED BY <1>2, <1>3, <2>1, NoticeKeeps DEF NavFits, Calm
<1>5. CASE toNav' = toNav /\ ~navReady'
  BY <1>2, <1>3, <1>5, NoticeKeeps DEF NavFits, Calm
<1> QED BY <1>3, <1>4, <1>5

LEMMA NavClick ==
    ASSUME SiteInv, NavFits, NEW p \in Listed, Click(p)
    PROVE  NavFits'
<1>1. /\ toTop' = Append(toTop, [page |-> p, hash |-> NoHash]) /\ clicked' = p
      /\ UNCHANGED <<latest, loader, content, overtaken, expanders, navReady, toNav>> /\ Notice
  BY DEF Click, ClickItem, SetClicked, ShellIdle
<1>2. toTop' # <<>> /\ LastOf(toTop').page = p
  <2>1. toTop \in Seq(Url)
    BY DEF SiteInv, ShellInv, ShellTypeOK
  <2>2. LastOf(toTop') = [page |-> p, hash |-> NoHash] /\ toTop' # <<>>
    BY <1>1, <2>1, ListReaches, LastAppended
  <2> QED BY <2>2
<1> QED BY <1>1, <1>2, NoticeKeeps DEF NavFits, Calm

LEMMA NavReceiveExpand ==
    ASSUME SiteInv, NavFits, ReceiveExpand
    PROVE  NavFits'
<1>1. /\ toNav # <<>> /\ toNav' = Tail(toNav) /\ toNav \in Seq(Pages) /\ Notice
      /\ UNCHANGED <<latest, loader, content, overtaken, expanders, navReady, toTop>>
      /\ ExpandTo(Head(toNav))
  BY DEF ReceiveExpand, ShellIdle, SiteInv, ShellInv, ShellTypeOK
<1>2. /\ Tail(toNav) # <<>> => LastOf(Tail(toNav)) = LastOf(toNav)
      /\ Tail(toNav) = <<>> => Head(toNav) = LastOf(toNav)
  BY <1>1, LastOfTail
<1>3. Head(toNav) \in Listed => clicked' = Head(toNav)
  BY <1>1 DEF ExpandTo, SetClicked
<1>4. ClickUnderWay => crossed
  BY <1>1 DEF NavFits, ExpandUnderWay
<1>5. Current(loader.onload)' = Current(loader.onload)
  BY <1>1 DEF Current
<1> QED BY <1>1, <1>2, <1>3, <1>4, <1>5, NoticeKeeps DEF NavFits, Calm, ClickUnderWay

LEMMA NavInit == Init => NavFits
<1> SUFFICES ASSUME Init PROVE NavFits
  OBVIOUS
<1>1. /\ expanders = {"timer", "load"} /\ loader = IdleLoader /\ toTop = <<>> /\ toNav = <<>>
  BY DEF Init, ShellInit, ShellFresh
<1> QED BY <1>1 DEF NavFits, Calm, IdleLoader, Current, ClickUnderWay, ExpandUnderWay

LEMMA NavNext ==
    ASSUME SiteInv, NavFits, [Next]_vars
    PROVE  NavFits'
<1>1. ShellTypeOK /\ FoundBy(loader)
  BY DEF SiteInv, ShellInv, FoundBy, ShellTypeOK
<1>2. CASE \E p \in Listed : Click(p)
  BY <1>2, NavClick
<1>3. CASE \/ \E q \in Queries \cup {Blank} : Search(q)
           \/ \E p \in Listed : Fold(p)
           \/ \E b \in pending : ListStep(NextBatch(b))
           \/ UNCHANGED vars
  <2>1. UNCHANGED <<shellVars, clicked>>
    BY <1>3 DEF Search, UpdateSearchResults, Fold, ToggleItem, ListStep, NextBatch, vars, listVars
  <2> QED BY <2>1, NavUntouched
<1>4. CASE Back \/ Forward
  <2>1. PICK to : Traverse(to) /\ Notice /\ UNCHANGED listVars
    BY <1>4 DEF Back, Forward
  <2>2. tab.entries[to] \in Url
    <3>1. tab.entries \in Seq(Url) /\ DOMAIN tab.entries = 1..Len(tab.entries)
      BY <1>1, TabTypes, LenProperties DEF ShellTypeOK
    <3> QED BY <2>1, <3>1, ElementOfSeq DEF Traverse
  <2> QED BY <2>1, <2>2, <1>1, NavTraverses DEF Traverse, listVars
<1>5. CASE \E hash \in Hashes : Fragment(hash)
  <2>1. PICK hash \in Hashes : FollowFragment(hash) /\ Notice /\ UNCHANGED listVars
    BY <1>5 DEF Fragment
  <2>2. [Address EXCEPT !.hash = hash] \in Url
    BY <1>1, TabTypes, UrlFields DEF ShellTypeOK, Address
  <2> QED BY <2>1, <2>2, <1>1, NavTraverses DEF FollowFragment, listVars
<1>6. CASE ShellStep(ReceiveNavigate)
  BY <1>6, NavReceives DEF ShellStep, listVars
<1>7. CASE \/ \E kind \in Kinds : Load(kind)
           \/ ShellStep(StaleLoad) \/ ShellStep(BareLoad)
  <2>1. Notice /\ UNCHANGED <<latest, content, overtaken, frameVars, clicked>>
    BY <1>7 DEF ShellStep, Load, Answer, StaleLoad, BareLoad, listVars
  <2>2. loader.onload' = loader.onload
    BY <1>1, <1>7, DequeuedTypes
       DEF ShellStep, Load, Answer, StaleLoad, BareLoad, LoadEvent, FoundBy, ShellTypeOK, Loaders
  <2> QED BY <2>1, <2>2, NavQuiet
<1>8. CASE ShellStep(PageLoad)
  BY <1>8, NavPageLoad DEF ShellStep, listVars
<1>9. CASE Leave
  BY <1>9, NavLeave
<1>10. CASE ShellStep(IndicatorTimer) \/ ShellStep(Tick) \/ ShellStep(HideTimer)
  <2>1. /\ Notice /\ UNCHANGED <<latest, content, overtaken, frameVars, clicked>>
        /\ loader.onload' = loader.onload
    BY <1>10 DEF ShellStep, IndicatorTimer, Tick, HideTimer, ShellIdle, listVars
  <2> QED BY <2>1, NavQuiet
<1>11. CASE ShellStep(ExpandByTimer) \/ ShellStep(NavLoads)
  BY <1>11, NavExpands DEF ShellStep, listVars
<1>12. CASE ReceiveExpand
  BY <1>12, NavReceiveExpand
<1>13. CASE ShellStep(FragmentLoad)
  <2>1. /\ loader.events > 0 /\ loader.onload # None
        /\ NavigateTo(loader.onload.url, FALSE, TRUE, ToFragment(tab, loader.onload.url), Dequeued)
        /\ UNCHANGED <<frameVars, clicked>> /\ Notice
    BY <1>13 DEF ShellStep, FragmentLoad, OutOfReach, Current, listVars
  <2>2. loader.onload.url \in Url /\ FoundBy(Dequeued)
    BY <1>1, <2>1, HandlerTypes, DequeuedTypes
  <2> QED BY <2>1, <2>2, NavTraverses
<1> QED BY <1>2, <1>3, <1>4, <1>5, <1>6, <1>7, <1>8, <1>9, <1>10, <1>11, <1>12, <1>13 DEF Next

(* However clicks, history moves, failed loads and the navigation frame's  *)
(* own loading interleave, with nothing under way the marked entry is the  *)
(* page on show, unless one of the two known races happened.               *)
THEOREM MarkOfPage == Spec => []NavAgrees
<1>1. SiteInv /\ NavFits /\ [Next]_vars => NavFits'
  BY NavNext
<1>2. NavFits => NavAgrees
  BY DEF NavFits, NavAgrees
<1> QED BY Invariance, NavInit, <1>1, <1>2, PTL DEF Spec
==============================================================================
