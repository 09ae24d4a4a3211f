------------------------------- MODULE Metering -------------------------------
(***************************************************************************)
(* What the proxy promises about money.  A request is charged once the     *)
(* provider has processed it, it is recorded once it has a row in the      *)
(* usage table, and its client is told one thing, once: a refusal of the   *)
(* core, a failure, or the answer of the provider.  How the promise is     *)
(* kept is the business of AnthropicProxy, which implements this module.   *)
(***************************************************************************)
EXTENDS TLAPS

CONSTANT Req      \* requests

VARIABLES
    charged,      \* requests the provider has processed
    recorded,     \* requests with a row in the usage table
    told          \* what the client of each request has been told

vars == <<charged, recorded, told>>

Tales == {"nothing", "refused", "failed", "answer"}

Init == charged = {} /\ recorded = {} /\ told = [r \in Req |-> "nothing"]

(* The provider processes a request; a core that has given it up, and told *)
(* its client so, cannot call it back.                                     *)
Charge(r) ==
    /\ told[r] \in {"nothing", "failed"} /\ r \notin charged
    /\ charged' = charged \cup {r}
    /\ UNCHANGED <<recorded, told>>

(* The row is written before anybody is told anything. *)
Record(r) ==
    /\ told[r] = "nothing" /\ r \in charged \ recorded
    /\ recorded' = recorded \cup {r}
    /\ UNCHANGED <<charged, told>>

Tell(r, tale) ==
    /\ told[r] = "nothing"
    /\ told' = [told EXCEPT ![r] = tale]
    /\ UNCHANGED <<charged, recorded>>

Refuse(r)  == r \notin charged /\ Tell(r, "refused")
Fail(r)    == r \notin recorded /\ Tell(r, "failed")
Deliver(r) == r \in charged /\ Tell(r, "answer")

Next == \E r \in Req : Charge(r) \/ Record(r) \/ Refuse(r) \/ Fail(r) \/ Deliver(r)

Spec == Init /\ [][Next]_vars

(* No row without a charge; no charge, not even a late one, for what was   *)
(* refused; no row for what the client was told has failed.                *)
BooksAgree ==
    /\ told \in [Req -> Tales] /\ recorded \subseteq charged
    /\ \A r \in charged : told[r] # "refused"
    /\ \A r \in recorded : told[r] \in {"nothing", "answer"}
    /\ \A r \in Req : told[r] = "answer" => r \in charged

(* The books agree at any time. *)
THEOREM BooksAlwaysAgree == Spec => []BooksAgree
<1>1. Init => BooksAgree
  BY DEF Init, BooksAgree, Tales
<1>2. BooksAgree /\ [Next]_vars => BooksAgree'
  <2> SUFFICES ASSUME BooksAgree, [Next]_vars PROVE BooksAgree'
    OBVIOUS
  <2> USE DEF BooksAgree, Tales
  <2>1. ASSUME NEW r \in Req, Charge(r) \/ Record(r) PROVE BooksAgree'
    BY <2>1 DEF Charge, Record
  <2>2. ASSUME NEW r \in Req, NEW tale \in Tales, Tell(r, tale),
               tale = "refused" => r \notin charged,
               tale \in {"refused", "failed"} => r \notin recorded,
               tale = "answer" => r \in charged,
               tale # "nothing"
        PROVE  BooksAgree'
    BY <2>2 DEF Tell
  <2>3. ASSUME NEW r \in Req, Refuse(r) \/ Fail(r) \/ Deliver(r) PROVE BooksAgree'
    BY <2>2, <2>3 DEF Refuse, Fail, Deliver
  <2>4. CASE UNCHANGED vars
    BY <2>4 DEF vars
  <2> QED BY <2>1, <2>3, <2>4 DEF Next
<1> QED BY <1>1, <1>2, PTL DEF Spec
=============================================================================
