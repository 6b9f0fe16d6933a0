----------------------------- MODULE Observation -----------------------------
(***************************************************************************)
(* What one exchange promises to whoever holds its proof: the response     *)
(* grows by bytes of the upstream's answer, in order; it is attested at    *)
(* most once, when all of it was delivered if its end is marked at all,    *)
(* and for exactly what was delivered; an exchange that broke off is never *)
(* attested afterwards.                                                    *)
(***************************************************************************)
EXTENDS Naturals

VARIABLES
    length,          \* of the upstream's answer, which is given
    marked,          \* whether the answer says where it ends
    delivered,       \* the bytes of it that have reached the relay
    verdict,         \* "open" until the exchange ends
    signed           \* the bytes under the signature

vars == <<length, marked, delivered, verdict, signed>>

Init ==
    /\ length \in Nat /\ marked \in BOOLEAN
    /\ delivered = {} /\ verdict = "open" /\ signed = {}

\* What has been delivered is always a prefix, and it only grows.
Deliver ==
    /\ verdict = "open"
    /\ \E n \in 0..length : delivered \subseteq 1..n /\ delivered' = 1..n
    /\ UNCHANGED <<length, marked, verdict, signed>>

Attest ==
    /\ verdict = "open" /\ verdict' = "attested"
    /\ marked => delivered = 1..length
    /\ signed' = delivered
    /\ UNCHANGED <<length, marked, delivered>>

GiveUp ==
    /\ verdict = "open" /\ verdict' \in {"disclaimed", "broken"}
    /\ UNCHANGED <<length, marked, delivered, signed>>

Next == Deliver \/ Attest \/ GiveUp

Spec == Init /\ [][Next]_vars
=============================================================================
