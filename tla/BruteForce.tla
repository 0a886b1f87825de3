----------------------------- MODULE BruteForce -----------------------------
(***************************************************************************)
(* The p2p service's handshake (src/services/p2p): Handshake::process      *)
(* asks p2p::BruteForce whether the address may try, and reports its       *)
(* offenses.  The lookup of the validator is a stub that always fails, so  *)
(* process ends there at the latest.                                       *)
(*                                                                         *)
(* Time is relative and in ticks: a point in time is kept as its distance  *)
(* from now and stops at the first value that the comparisons of the code  *)
(* cannot tell from later ones.  process does not suspend, so a handshake  *)
(* is one step.                                                            *)
(***************************************************************************)
EXTENDS Integers

CONSTANTS
    Addresses,
    MAX_OFFENSES,
    LOCKOUT_SECONDS,            \* in ticks, as the next one
    CLEANUP_INTERVAL_SECONDS

ASSUME DurationsAssumption ==
    /\ MAX_OFFENSES \in Nat \ {0, 1}
    /\ LOCKOUT_SECONDS \in Nat \ {0}
    /\ CLEANUP_INTERVAL_SECONDS \in Nat \ {0}

VARIABLES
    offenders,      \* address -> [offenses, age of the last one]
    forgiveness,    \* mapAddressToForgiveness: address -> ticks until then
    nextCleanup,    \* ticks until then
    strikes,        \* history: per address, its offenses of which each came within
                    \* the lockout after the one before
    since           \* history: per address, the ticks since its last offense

bvars == <<offenders, forgiveness, nextCleanup, strikes, since>>

\* now is a steady clock's, nextCleanup starts as the clock's zero.
BInit ==
    /\ offenders = [a \in {} |-> 0]
    /\ forgiveness = [a \in {} |-> 0]
    /\ nextCleanup = -1
    /\ strikes = [a \in Addresses |-> 0]
    /\ since = [a \in Addresses |-> LOCKOUT_SECONDS + 1]

Capped(n, cap) == IF n < cap THEN n + 1 ELSE cap

\* Time passes.
Tick ==
    /\ offenders' = [a \in DOMAIN offenders |->
                       [offenses |-> offenders[a].offenses,
                        age |-> Capped(offenders[a].age, LOCKOUT_SECONDS + 1)]]
    /\ forgiveness' = [a \in DOMAIN forgiveness |->
                         IF forgiveness[a] < 0 THEN -1 ELSE forgiveness[a] - 1]
    /\ nextCleanup' = IF nextCleanup < 0 THEN -1 ELSE nextCleanup - 1
    /\ since' = [a \in Addresses |-> Capped(since[a], LOCKOUT_SECONDS + 1)]
    /\ UNCHANGED strikes

\* cleanup returns early when nextCleanup < now.
Cleaned(early) ==
    IF early
    THEN [forgiveness |-> forgiveness, offenders |-> offenders, next |-> nextCleanup]
    ELSE [forgiveness |-> [a \in {b \in DOMAIN forgiveness : forgiveness[b] >= 0} |->
                             forgiveness[a]],
          offenders |-> [a \in {b \in DOMAIN offenders : offenders[b].age <= LOCKOUT_SECONDS} |->
                           offenders[a]],
          next |-> CLEANUP_INTERVAL_SECONDS]

\* A defect: every pending offense is reset, at every call.
cleanupForgetsOffenders == [Cleaned(FALSE) EXCEPT !.offenders = [a \in {} |-> 0]]

cleanup == Cleaned(nextCleanup < 0)

\* A defect: one offense more than the limit is allowed.
BlockOverLimit(c, a) == c.offenders[a].offenses + 1 > MAX_OFFENSES

\* addOffense after the cleanup of checkAddress.
Block(c, a) == c.offenders[a].offenses + 1 >= MAX_OFFENSES

Without(f, a) == [b \in DOMAIN f \ {a} |-> f[b]]
With(f, a, v) == [b \in DOMAIN f \cup {a} |-> IF b = a THEN v ELSE f[b]]

addOffense(c, a) ==
    /\ IF a \in DOMAIN c.offenders /\ Block(c, a)
       THEN /\ forgiveness' = With(c.forgiveness, a, LOCKOUT_SECONDS)
            /\ offenders' = Without(c.offenders, a)
       ELSE /\ forgiveness' = c.forgiveness
            /\ offenders' = With(c.offenders, a,
                 [offenses |-> IF a \in DOMAIN c.offenders
                               THEN c.offenders[a].offenses + 1 ELSE 1,
                  age |-> 0])
    /\ strikes' = [strikes EXCEPT ![a] =
                     IF since[a] <= LOCKOUT_SECONDS THEN Capped(@, MAX_OFFENSES) ELSE 1]
    /\ since' = [since EXCEPT ![a] = 0]

\* A handshake: refused when blocked; an offense when its version or nonce
\* is invalid; otherwise an error of the lookup.
process(a) ==
    LET c == cleanup
    IN /\ nextCleanup' = c.next
       /\ \/ /\ a \notin DOMAIN c.forgiveness
             /\ addOffense(c, a)
          \/ /\ offenders' = c.offenders
             /\ forgiveness' = c.forgiveness
             /\ UNCHANGED <<strikes, since>>

BNext == Tick \/ \E a \in Addresses : process(a)

BSpec == BInit /\ [][BNext]_bvars

\* Time goes on and every address keeps trying.
BFairSpec == BSpec /\ WF_bvars(Tick) /\ \A a \in Addresses : WF_bvars(process(a))
-----------------------------------------------------------------------------
BTypeOK ==
    /\ DOMAIN offenders \subseteq Addresses
    /\ \A a \in DOMAIN offenders :
         /\ offenders[a].offenses \in 1 .. MAX_OFFENSES - 1
         /\ offenders[a].age \in 0 .. LOCKOUT_SECONDS + 1
    /\ DOMAIN forgiveness \subseteq Addresses
    /\ \A a \in DOMAIN forgiveness : forgiveness[a] \in -1 .. LOCKOUT_SECONDS
    /\ nextCleanup \in -1 .. CLEANUP_INTERVAL_SECONDS
    /\ strikes \in [Addresses -> 0 .. MAX_OFFENSES]
    /\ since \in [Addresses -> 0 .. LOCKOUT_SECONDS + 1]

\* An address that offends MAX_OFFENSES times, each within the lockout after
\* the one before, is blocked for the lockout, whatever other addresses do
\* and however the clock and cleanup fall between the offenses.
StrikesBlock ==
    \A a \in Addresses :
        strikes[a] >= MAX_OFFENSES /\ since[a] <= LOCKOUT_SECONDS => a \in DOMAIN forgiveness

\* "Forgive previous transgressions": a blocked address that keeps trying is
\* let in again once its lockout is over.
Forgiven ==
    \A a \in Addresses : (a \in DOMAIN forgiveness) ~> (a \notin DOMAIN forgiveness)
=============================================================================
