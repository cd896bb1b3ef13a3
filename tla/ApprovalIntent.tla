---------------------------- MODULE ApprovalIntent ----------------------------
(***************************************************************************)
(* What the durable execution of an approval task promises, without        *)
(* claims, leases, phases or retries: one source record gets at most one   *)
(* approval instance; it is created only by an intent that was recorded    *)
(* before it was sent; a second intent is not formed while an earlier one  *)
(* may have created the instance, unless a person has asked for it; and    *)
(* the record is said to have an instance only when it has one.            *)
(***************************************************************************)
CONSTANTS Users, NoUser

VARIABLES
    intents,    \* users in whose name a creation is on its way
    instance,   \* the initiator of the instance, once there is one
    recorded,   \* the instance is on record
    allowed     \* a person has asked for another attempt in spite of the doubt

intentVars == <<intents, instance, recorded, allowed>>

Uncertain == ~recorded /\ (intents # {} \/ instance # NoUser)

Init ==
    /\ intents = {}
    /\ instance = NoUser
    /\ recorded = FALSE
    /\ allowed = FALSE

Intend(u) ==
    /\ ~recorded
    /\ Uncertain => allowed
    /\ intents' = intents \cup {u}
    /\ UNCHANGED <<instance, recorded, allowed>>

\* Only the first creation under the record's key makes an instance.  An intent
\* may be delivered by one of several requests of the same user.
Deliver(u) ==
    /\ u \in intents
    /\ instance' = IF instance = NoUser THEN u ELSE instance
    /\ intents' \in {intents, intents \ {u}}
    /\ UNCHANGED <<recorded, allowed>>

Drop(u) ==
    /\ u \in intents
    /\ intents' = intents \ {u}
    /\ UNCHANGED <<instance, recorded, allowed>>

Record ==
    /\ instance # NoUser
    /\ recorded' = TRUE
    /\ UNCHANGED <<intents, instance, allowed>>

Allow ==
    /\ allowed' = TRUE
    /\ Uncertain
    /\ UNCHANGED <<intents, instance, recorded>>

Next ==
    \/ \E u \in Users : Intend(u) \/ Deliver(u) \/ Drop(u)
    \/ Record
    \/ Allow

Spec == Init /\ [][Next]_intentVars
=============================================================================
