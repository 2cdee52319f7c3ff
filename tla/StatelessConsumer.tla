-------------------------- MODULE StatelessConsumer --------------------------
(***************************************************************************)
(* What a caller may expect of a consumer, said without any state that     *)
(* calls share: a call is for one destination, fixed by its own argument   *)
(* and the consumer's options; its requests go there and nowhere else; it  *)
(* sends one request, and after that at most one per redirect it is        *)
(* allowed to follow.  ConsumerHttp implements this as long as the         *)
(* connections that some calls leave behind are not reused by others.      *)
(***************************************************************************)
EXTENDS Naturals

CONSTANTS Caller,      \* who makes calls
          Destination, \* where calls may be for
          Budget,      \* how many requests a call may be allowed
          Nobody       \* the destination of no call

VARIABLES dest,    \* dest[t]: what t's call is for
          budget,  \* budget[t]: how many requests it may send
          sentTo,  \* sentTo[t]: who has received a request of it
          sent     \* sent[t]: how many it has sent
vars == <<dest, budget, sentTo, sent>>

Init ==
    /\ dest = [t \in Caller |-> Nobody]
    /\ budget = [t \in Caller |-> 0]
    /\ sentTo = [t \in Caller |-> {}]
    /\ sent = [t \in Caller |-> 0]

Begin(t) ==
    /\ dest[t] = Nobody
    /\ dest'[t] \in Destination /\ dest' = [dest EXCEPT ![t] = dest'[t]]
    /\ budget'[t] \in Budget /\ budget' = [budget EXCEPT ![t] = budget'[t]]
    /\ UNCHANGED <<sentTo, sent>>

Ask(t) ==
    /\ dest[t] # Nobody
    /\ sent[t] < budget[t]
    /\ sent' = [sent EXCEPT ![t] = @ + 1]
    /\ sentTo' = [sentTo EXCEPT ![t] = {dest[t]}]
    /\ UNCHANGED <<dest, budget>>

End(t) ==
    /\ dest[t] # Nobody
    /\ dest' = [dest EXCEPT ![t] = Nobody]
    /\ budget' = [budget EXCEPT ![t] = 0]
    /\ sentTo' = [sentTo EXCEPT ![t] = {}]
    /\ sent' = [sent EXCEPT ![t] = 0]

Next == \E t \in Caller : Begin(t) \/ Ask(t) \/ End(t)

Spec == Init /\ [][Next]_vars
=============================================================================
