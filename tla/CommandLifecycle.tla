--------------------------- MODULE CommandLifecycle ---------------------------
(***************************************************************************)
(* One command record of the shadow executor and the pure functions that   *)
(* move it: executor/command_lifecycle.py over executor/models.py.         *)
(*                                                                         *)
(* The functions take their times as arguments, so there is no clock here: *)
(* calls and observations arrive with any timestamp, in any order, and the *)
(* same observation may be delivered again.  A call builds a candidate     *)
(* record; the dataclass validates it in __post_init__, and a candidate it *)
(* refuses makes the call raise and leaves the caller with the old record. *)
(***************************************************************************)
EXTENDS Integers

CONSTANTS
  Created,     \* created_at of the record
  Expires,     \* expires_at of the record
  MaxTime,     \* bound on the timestamps callers use
  MaxEpoch     \* bound on the restarts

ASSUME LifetimeAssumption ==
  /\ Created \in Nat /\ Expires \in Nat /\ MaxTime \in Nat /\ MaxEpoch \in Nat
  /\ Created < Expires

VARIABLES
  current,     \* the caller's current execution epoch
  record,      \* the CommandRecord the caller holds
  attempt      \* the candidate the last call built

commandVars == <<current, record, attempt>>

Unset == -1                      \* a timestamp that is None
Times == 0..MaxTime
Stamps == Times \cup {Unset}
CommandEpochs == 0..MaxEpoch

States == {"INTENT_CREATED", "COMMAND_ISSUED", "READBACK_CONFIRMED",
           "PHYSICAL_RESPONSE_CONFIRMED", "STABLE", "FAILED", "EXPIRED"}
Terminal_Stable == {"FAILED", "EXPIRED"}               \* mutated: not STABLE
Terminal == {"STABLE", "FAILED", "EXPIRED"}

(* A state needs the proofs 1..Rank[state].                                 *)
Rank == [INTENT_CREATED |-> 0, COMMAND_ISSUED |-> 1, READBACK_CONFIRMED |-> 2,
         PHYSICAL_RESPONSE_CONFIRMED |-> 3, STABLE |-> 4,
         FAILED |-> 0, EXPIRED |-> 0]

(* proof[i] is issued_at, readback_confirmed_at, physical_response_        *)
(* confirmed_at and stable_confirmed_at; matches says that the retained    *)
(* observed_readback covers expected_readback.                             *)
Records == [state : States, epoch : CommandEpochs, proof : [1..4 -> Stamps],
            last : Stamps, expired : Stamps, matches : BOOLEAN,
            failed : BOOLEAN]

Observations == [own : BOOLEAN, epoch : CommandEpochs, at : Times, sound : BOOLEAN,
                 readback : {"match", "mismatch", "missing"},
                 response : BOOLEAN]

-----------------------------------------------------------------------------
(* What __post_init__ demands of any record, FAILED and EXPIRED included.  *)
RecordOK(r) ==
  /\ \A i \in 1..4 : r.proof[i] # Unset =>
       /\ r.proof[i] >= Created
       /\ r.proof[i] < Expires
       /\ r.last # Unset => r.last >= r.proof[i]
       /\ \A j \in 1..4 : j < i => r.proof[j] <= r.proof[i]
  /\ r.last # Unset => r.last >= Created
  /\ \A i \in 1..4 : i <= Rank[r.state] => r.proof[i] # Unset
  /\ Rank[r.state] >= 2 => r.matches
  /\ r.state = "FAILED" => r.failed
  /\ r.state = "EXPIRED" => r.expired >= Expires /\ r.failed

(* A call that built candidate r returns it, or raises and returns nothing. *)
Build(r) ==
  /\ attempt' = r
  /\ record' = IF RecordOK(r) THEN r ELSE record

Reject == UNCHANGED <<record, attempt>>

Earliest(r) == IF r.proof[1] # Unset THEN r.proof[1] ELSE Created

-----------------------------------------------------------------------------
(* advance_command_lifecycle: the only accepted proposal is issuing.       *)
AdvanceCommand(now) ==
  /\ record.state \notin Terminal
  /\ record.epoch = current
  /\ now >= Created
  /\ \/ /\ now >= Expires
        /\ Build([record EXCEPT !.state = "EXPIRED", !.failed = TRUE,
                                !.expired = now])
     \/ /\ now < Expires
        /\ record.state = "INTENT_CREATED"
        /\ Build([record EXCEPT !.state = "COMMAND_ISSUED",
                                !.proof[1] = now])
  /\ UNCHANGED current

Addressed_Epoch(obs) ==                          \* mutated: caller's epoch
  /\ record.state \notin Terminal
  /\ obs.own
  /\ obs.epoch = record.epoch

Addressed(obs) ==
  /\ record.state \notin Terminal
  /\ obs.own
  /\ record.epoch = current /\ obs.epoch = current

OutOfOrder_Issue(obs) == obs.at < Earliest(record)   \* mutated: issue only

OutOfOrder(obs) == obs.at < Earliest(record) \/ obs.at < record.last

WithEvidence(r, obs) ==
  [r EXCEPT !.matches = (obs.readback = "match"), !.last = obs.at]

Fail_Unreasoned(r) ==                            \* mutated: no reason kept
  Build([r EXCEPT !.state = "FAILED"])

Fail(r) == Build([r EXCEPT !.state = "FAILED", !.failed = TRUE])

(* _validate_observation refuses an addressed observation by ending the     *)
(* record; every other refusal leaves the record alone.                    *)
Refuse(obs) ==
  \/ OutOfOrder(obs) /\ Fail(record)
  \/ /\ ~OutOfOrder(obs) /\ obs.at >= Expires
     /\ Build([WithEvidence(record, obs) EXCEPT !.state = "EXPIRED",
                 !.failed = TRUE, !.expired = obs.at])
  \/ /\ ~OutOfOrder(obs) /\ obs.at < Expires /\ ~obs.sound
     /\ Fail(WithEvidence(record, obs))

Valid(obs) ==
  Addressed(obs) /\ ~OutOfOrder(obs) /\ obs.at < Expires /\ obs.sound

ConfirmReadback(obs) ==
  IF ~Addressed(obs) THEN Reject
  ELSE IF ~Valid(obs) THEN Refuse(obs)
  ELSE IF record.state # "COMMAND_ISSUED" THEN Reject
  ELSE IF obs.readback # "match" THEN Fail(WithEvidence(record, obs))
  ELSE Build([WithEvidence(record, obs) EXCEPT
                !.state = "READBACK_CONFIRMED", !.proof[2] = obs.at,
                !.failed = FALSE])

(* The readback is not compared again here, only retained.                  *)
ConfirmPhysicalResponse(obs) ==
  IF ~Addressed(obs) THEN Reject
  ELSE IF ~Valid(obs) THEN Refuse(obs)
  ELSE IF record.state # "READBACK_CONFIRMED" THEN Reject
  ELSE IF ~obs.response THEN Fail(WithEvidence(record, obs))
  ELSE Build([WithEvidence(record, obs) EXCEPT
                !.state = "PHYSICAL_RESPONSE_CONFIRMED",
                !.proof[3] = obs.at, !.failed = FALSE])

ConfirmStability(own, ep, at, stable) ==
  /\ record.state = "PHYSICAL_RESPONSE_CONFIRMED"
  /\ own /\ record.epoch = current /\ ep = current
  /\ at >= record.last
  /\ \/ /\ at >= Expires
        /\ Build([record EXCEPT !.state = "EXPIRED", !.last = at,
                                !.failed = TRUE, !.expired = at])
     \/ /\ at < Expires /\ stable
        /\ Build([record EXCEPT !.state = "STABLE", !.last = at,
                                !.proof[4] = at, !.failed = FALSE])
  /\ UNCHANGED current

(* evaluate_command_observation: the state picks the confirmation.          *)
Dispatch(obs) ==
  \/ record.state = "COMMAND_ISSUED" /\ ConfirmReadback(obs)
  \/ record.state = "READBACK_CONFIRMED" /\ ConfirmPhysicalResponse(obs)
  \/ record.state \notin {"COMMAND_ISSUED", "READBACK_CONFIRMED"} /\ Reject

EvaluateObservation(obs) == Dispatch(obs) /\ UNCHANGED current

(* The two confirmations are public and may be called out of turn.          *)
Confirm(obs) ==
  /\ ConfirmReadback(obs) \/ ConfirmPhysicalResponse(obs)
  /\ UNCHANGED current

(* A restarted runtime works in a later epoch and may still be handed the   *)
(* records of an earlier one.                                              *)
CommandRestart ==
  /\ current < MaxEpoch
  /\ current' = current + 1
  /\ UNCHANGED <<record, attempt>>

-----------------------------------------------------------------------------
NewRecord == [state |-> "INTENT_CREATED", epoch |-> 0,
              proof |-> [i \in 1..4 |-> Unset], last |-> Unset,
              expired |-> Unset, matches |-> FALSE, failed |-> FALSE]

CommandInit ==
  /\ current = 0
  /\ record = NewRecord
  /\ attempt = NewRecord

CommandNext ==
  \/ \E now \in Times : AdvanceCommand(now)
  \/ \E obs \in Observations : EvaluateObservation(obs)
  \/ \E obs \in Observations : Confirm(obs)
  \/ \E own, stable \in BOOLEAN, ep \in CommandEpochs, at \in Times :
       ConfirmStability(own, ep, at, stable)
  \/ CommandRestart

CommandSpec == CommandInit /\ [][CommandNext]_commandVars

-----------------------------------------------------------------------------
CommandTypeOK ==
  /\ current \in CommandEpochs
  /\ record \in Records
  /\ attempt \in Records
  /\ attempt.failed <=> attempt.state \in {"FAILED", "EXPIRED"}

(* A physical response carrying a readback that no longer matches.          *)
Drifted(r) ==
  r.state = "PHYSICAL_RESPONSE_CONFIRMED" /\ ~r.matches
  /\ RecordOK([r EXCEPT !.matches = TRUE])

(* No sequence of calls, whatever the order of their timestamps, makes a    *)
(* lifecycle function build a record that CommandRecord refuses, except a   *)
(* physical response whose readback drifted (command_lifecycle.py:190); and *)
(* none that fails or expires one is without its reason.                    *)
OnlyDriftIsRefused == CommandTypeOK /\ (RecordOK(attempt) \/ Drifted(attempt))

(* Evidence is only ever added: a confirmation once given is never moved    *)
(* or withdrawn, the states advance along the chain one proof at a time,    *)
(* and a terminal record never moves again; nor does one of another epoch,  *)
(* whatever is called or observed.                                         *)
EvidenceOnlyGrows ==
  [][ /\ \A i \in 1..4 : record.proof[i] # Unset =>
           record'.proof[i] = record.proof[i]
      /\ record.state \in {"STABLE", "FAILED", "EXPIRED"} => record' = record
      /\ record.epoch # current => record' = record
      /\ record'.state \in {record.state, "FAILED", "EXPIRED"}
         \/ Rank[record'.state] = Rank[record.state] + 1 ]_commandVars
=============================================================================
