------------------------------ MODULE ApprovalGate ------------------------------
(***************************************************************************)
(* What the incident service promises about each run, without threads,     *)
(* transactions or a clock: one offer at a time is put before a human, who *)
(* may have it replaced, approve it or let it go; only the offer that was  *)
(* approved is acted upon, once, and nothing happens after the run closed. *)
(***************************************************************************)
EXTENDS Sequences

CONSTANTS Runs, Offers

VARIABLES
  phase,   \* where each run stands
  offer,   \* the offer that is open, being acted upon, or nothing
  acted    \* the offers acted upon, in order

gateVars == <<phase, offer, acted>>

Phases == {"preparing", "offered", "approved", "acting", "closed"}

Init ==
  /\ phase = [k \in Runs |-> "preparing"]
  /\ offer = [k \in Runs |-> {}]
  /\ acted = [k \in Runs |-> <<>>]

(* The first offer of a run, or a replacement of the one on the table.     *)
Offer(k, d) ==
  /\ phase[k] \in {"preparing", "offered"}
  /\ phase' = [phase EXCEPT ![k] = "offered"]
  /\ offer' = [offer EXCEPT ![k] = {d}]
  /\ UNCHANGED acted

Approve(k) ==
  /\ phase[k] = "offered"
  /\ phase' = [phase EXCEPT ![k] = "approved"]
  /\ UNCHANGED <<offer, acted>>

Begin(k) ==
  /\ phase[k] = "approved"
  /\ phase' = [phase EXCEPT ![k] = "acting"]
  /\ UNCHANGED <<offer, acted>>

Act(k) ==
  /\ phase[k] = "acting"
  /\ acted[k] = <<>>
  /\ \E d \in offer[k] : acted' = [acted EXCEPT ![k] = <<d>>]
  /\ UNCHANGED <<phase, offer>>

(* Runs close one by one, or several in one sweep.                         *)
Close(K) ==
  /\ \A k \in K : phase[k] # "closed"
  /\ phase' = [k \in Runs |-> IF k \in K THEN "closed" ELSE phase[k]]
  /\ offer' = [k \in Runs |-> IF k \in K THEN {} ELSE offer[k]]
  /\ UNCHANGED acted

Next ==
  \/ \E k \in Runs, d \in Offers : Offer(k, d)
  \/ \E k \in Runs : Approve(k) \/ Begin(k) \/ Act(k)
  \/ \E K \in SUBSET Runs : Close(K)

Spec == Init /\ [][Next]_gateVars

===============================================================================
