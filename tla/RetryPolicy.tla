---------------------------- MODULE RetryPolicy ----------------------------
(***************************************************************************)
(* The retry arithmetic of app/infrastructure/messaging: how many times a  *)
(* payment message may be attempted, which attempt comes next, and for     *)
(* which attempts the topology declares a delay queue.                     *)
(*                                                                         *)
(* Attempts and headers are integers.  A missing or unparsable x-attempt   *)
(* header is the header 0: parse_attempt treats both alike.                *)
(***************************************************************************)
EXTENDS Integers

CONSTANT
    MaxAttempts     \* settings.message_max_attempts

\* Settings and RetryPolicy reject a MESSAGE_MAX_ATTEMPTS below 1.
ASSUME RetryAssumption == MaxAttempts \in Nat \ {0}

\* The value the broker header x-attempt may have in this system.
Header == 0 .. MaxAttempts

AtLeastOne(n) == IF n < 1 THEN 1 ELSE n

\* Mutant: the header is not read, every attempt is the first.
ParseAttemptFirst(header) == 1

ParseAttempt(header) == AtLeastOne(header)

\* Mutant: one attempt too many.
MayRetryOnceMore(attempt) == AtLeastOne(attempt) <= MaxAttempts

\* RetryPolicy.decide: no further attempt, or the number of the next one.
MayRetry(attempt) == AtLeastOne(attempt) < MaxAttempts
NextAttempt(attempt) == AtLeastOne(attempt) + 1

\* The attempt number written on a message that goes to the dead letter queue.
CappedAttempt(attempt) ==
    IF AtLeastOne(attempt) < MaxAttempts THEN AtLeastOne(attempt) ELSE MaxAttempts

\* The attempts for which build_topology declares and binds a delay queue.
RetryQueues == 2 .. MaxAttempts
============================================================================
