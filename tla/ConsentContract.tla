--------------------------- MODULE ConsentContract ---------------------------
(***************************************************************************)
(* What consent promises, each decision one step: authority comes from a   *)
(* reviewer only, by creating a grant or by approving a pending request,   *)
(* with the terms that were asked for; a request is decided once and gives *)
(* at most one grant; a revocation is final.  Grants implements it with    *)
(* concurrent transactions.                                                *)
(***************************************************************************)
CONSTANTS
    Requests,
    GrantIds,
    Terms,            \* what a grant gives: kind, scopes, depth
    NoTerms,
    NoGrant

VARIABLES
    terms,            \* grant -> its terms, or NoTerms: no such grant
    revoked,          \* grants taken back
    status,           \* request -> "none", "pending", "approved" or "denied"
    asked,            \* request -> the terms it asks for, or NoTerms
    result            \* request -> the grant it became, or NoGrant

vars == <<terms, revoked, status, asked, result>>

Init ==
    /\ terms = [g \in GrantIds |-> NoTerms]
    /\ revoked = {}
    /\ status = [r \in Requests |-> "none"]
    /\ asked = [r \in Requests |-> NoTerms]
    /\ result = [r \in Requests |-> NoGrant]

Ask(r, t) ==
    /\ status[r] = "none"
    /\ status' = [status EXCEPT ![r] = "pending"]
    /\ asked' = [asked EXCEPT ![r] = t]
    /\ UNCHANGED <<terms, revoked, result>>

Deny(r) ==
    /\ status[r] = "pending"
    /\ status' = [status EXCEPT ![r] = "denied"]
    /\ UNCHANGED <<terms, revoked, asked, result>>

Approve(r, g) ==
    /\ status[r] = "pending"
    /\ terms[g] = NoTerms
    /\ terms' = [terms EXCEPT ![g] = asked[r]]
    /\ status' = [status EXCEPT ![r] = "approved"]
    /\ result' = [result EXCEPT ![r] = g]
    /\ UNCHANGED <<revoked, asked>>

Create(g, t) ==
    /\ terms[g] = NoTerms
    /\ terms' = [terms EXCEPT ![g] = t]
    /\ UNCHANGED <<revoked, status, asked, result>>

Revoke(g) ==
    /\ terms[g] # NoTerms
    /\ g \notin revoked
    /\ revoked' = revoked \cup {g}
    /\ UNCHANGED <<terms, status, asked, result>>

Next ==
    \/ \E r \in Requests :
          \/ \E t \in Terms : Ask(r, t)
          \/ Deny(r)
          \/ \E g \in GrantIds : Approve(r, g)
    \/ \E g \in GrantIds :
          \/ \E t \in Terms : Create(g, t)
          \/ Revoke(g)

Spec == Init /\ [][Next]_vars

-------------------------------------------------------------------------------
(* What the contract comes to                                              *)

\* A grant that a request led to has the terms it asked for, and was given for
\* that request alone.
OneGrantARequest ==
    /\ \A r \in Requests : status[r] = "none" <=> asked[r] = NoTerms
    /\ \A r \in Requests : status[r] = "approved" <=> result[r] # NoGrant
    /\ \A r \in Requests : result[r] # NoGrant => terms[result[r]] = asked[r]
    /\ \A r, s \in Requests : result[r] # NoGrant /\ result[r] = result[s] => r = s

\* Nothing that was decided is decided again: requests stay as they were answered,
\* grants keep their terms, revoked ones stay revoked.
DecisionsAreFinal ==
    [][/\ \A r \in Requests : status[r] \in {"approved", "denied"} =>
             status'[r] = status[r] /\ result'[r] = result[r]
       /\ \A g \in GrantIds : terms[g] # NoTerms => terms'[g] = terms[g]
       /\ revoked \subseteq revoked']_vars
===============================================================================
