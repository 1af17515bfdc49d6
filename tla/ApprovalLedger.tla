--------------------------- MODULE ApprovalLedger ---------------------------
(***************************************************************************)
(* What the QR flow promises to whoever issues a session for an exchanged  *)
(* ticket, with Redis, requests and time left out: a ledger to which lines *)
(* are only added.  A user who passed a ticket's PKCE check may have the   *)
(* ticket's action run, under a token of its own; an exchange may only     *)
(* name a token whose action ran for the ticket it answers with.           *)
(***************************************************************************)
CONSTANTS Tid, User, Rid

VARIABLES verified, executed, redeemed

ledger == <<verified, executed, redeemed>>

Init == verified = {} /\ executed = {} /\ redeemed = {}

Verify(t, u) ==
    /\ verified' = verified \cup {<<t, u>>}
    /\ UNCHANGED <<executed, redeemed>>

\* A token is the approval's own: it stands for one run of one action.
Execute(g, t, u) ==
    /\ <<t, u>> \in verified
    /\ \A e \in executed : e.by # g
    /\ executed' = executed \cup {[by |-> g, tid |-> t, user |-> u]}
    /\ UNCHANGED <<verified, redeemed>>

\* By grant token: the answer is the very approval of the token.
RedeemGrant(r, g, t, u) ==
    /\ [by |-> g, tid |-> t, user |-> u] \in executed
    /\ redeemed' = redeemed \cup
          {[by |-> r, via |-> "exchangeGrant", code |-> g, tid |-> t,
            user |-> u]}
    /\ UNCHANGED <<verified, executed>>

\* By delivery code: the ticket's action ran under that code; the user is the
\* last one the ticket records, who passed the check but whose own run of the
\* action may still be pending when another approval overlapped.
RedeemDelivery(r, g, t, u) ==
    /\ \E e \in executed : e.by = g /\ e.tid = t
    /\ <<t, u>> \in verified
    /\ redeemed' = redeemed \cup
          {[by |-> r, via |-> "exchangeDelivery", code |-> g, tid |-> t,
            user |-> u]}
    /\ UNCHANGED <<verified, executed>>

Next ==
    \E t \in Tid, u \in User :
        \/ Verify(t, u)
        \/ \E g \in Rid : \/ Execute(g, t, u)
                          \/ \E r \in Rid : \/ RedeemGrant(r, g, t, u)
                                            \/ RedeemDelivery(r, g, t, u)

Spec == Init /\ [][Next]_ledger
=============================================================================
