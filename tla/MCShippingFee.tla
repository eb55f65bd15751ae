--------------------------- MODULE MCShippingFee ---------------------------
(* Instances of ShippingFee for TLC. *)
EXTENDS ShippingFee, TLC

Symmetry == Permutations(Requests) \cup Permutations(Drivers) \cup Permutations(Events)
              \cup Permutations(Disputes)

(* Cash: two drivers, two disputes and a long life of the parcel; the one   *)
(* provider in use does not contradict itself. Online: two payments, two    *)
(* webhooks of the contradictory one, one driver at a time, one dispute and *)
(* a shorter life. What is not used stays as it is created.                 *)
OneWebhook(p) == Cardinality({e \in Events : event[p][e] # "NONE"}) <= 1
Cash == \A p \in Contradicting : /\ pay[p] = NoPayment
                                 /\ \A r \in Requests : req[r].key # p
Online == /\ \A s \in Shipments :
               /\ parcel[s].version <= 5
               /\ Cardinality({parcel[s].driver, fee[s].collectedBy, fee[s].remittedBy, None}
                                \cup {req[r].parcel.driver :
                                        r \in {q \in Requests : req[q].parcel # None}}) <= 2
          /\ Cardinality({i \in Disputes : dispute[i] # NoDispute}) <= 1

FeeSpec ==
    Init /\ [][/\ Next
               /\ (Cash \/ Online)'
               /\ (\A p \in Payments \ Contradicting : OneWebhook(p))']_vars
=============================================================================
