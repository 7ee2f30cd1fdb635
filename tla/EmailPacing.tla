----------------------------- MODULE EmailPacing -----------------------------
(***************************************************************************)
(* When a paced email may leave (email_pacing.py and its two callers,      *)
(* _reserve_email_schedule in store.py and begin_side_effect in            *)
(* action_store.py).  Both run under one advisory lock and read the clock  *)
(* after they got it: each is one step.  ExternalActions has the rest of   *)
(* an email's life; here there is a clock instead.  MailProofs extends     *)
(* this module beside MailSync: the names both need say Pacing here.       *)
(***************************************************************************)
EXTENDS Naturals, FiniteSets, FiniteSetsExt

CONSTANTS
  Emails, RecipientDomain,   \* RecipientDomain[e]: recipient_domain
  Hash,             \* Hash[e]: the digest of the action's identity
  Expires,          \* Expires[e]: expires_at of the packet
  Policies, FirstPolicy,   \* settings that are deployed, see PolicyType
  Hour, Day,        \* the rolling windows
  MaxTime           \* bound of the clock

PolicyType ==
  [gap: Nat \ {0}, domainGap: Nat \ {0}, hourly: Nat \ {0}, daily: Nat \ {0}, jitter: Nat]

ASSUME PacingAssumption ==
  /\ IsFiniteSet(Emails)
  /\ Hash \in [Emails -> Nat]
  /\ Expires \in [Emails -> Nat]
  /\ Policies \subseteq PolicyType /\ FirstPolicy \in Policies
  /\ \A p \in Policies :
       p.gap <= p.domainGap /\ p.domainGap <= Day /\ p.hourly <= p.daily
  /\ Hour \in Nat \ {0} /\ Day \in Nat \ {0} /\ Hour <= Day
  /\ MaxTime \in Nat

VARIABLES
  now,
  policy,      \* the settings of the running services
  (* outbound_email_schedule and side_effect_receipts *)
  state,       \* the column status; "none" before the approval
  slot,        \* scheduled_for, and next_attempt_at of the task
  frozen,      \* the policy columns
  started,     \* started_at of the receipt
  ended,       \* completed_at
  (* history, read by properties only *)
  settled      \* deferred, and nothing a deferral depends on changed since

pacingVars == <<now, policy, state, slot, frozen, started, ended, settled>>

Unsettled == [e \in Emails |-> FALSE]

States == {"none", "scheduled", "sending", "accepted", "ambiguous", "skipped"}
Begun == {e \in Emails : state[e] \in {"sending", "accepted", "ambiguous"}}
Resolved == {e \in Emails : state[e] \in {"accepted", "ambiguous"}}

PacingTypeOK ==
  /\ now \in Nat
  /\ policy \in Policies
  /\ state \in [Emails -> States]
  /\ slot \in [Emails -> Nat]
  /\ frozen \in [Emails -> Policies]
  /\ started \in [Emails -> Nat]
  /\ ended \in [Emails -> Nat]
  /\ settled \in [Emails -> BOOLEAN]

PacingInit ==
  /\ now = 0
  /\ policy = FirstPolicy
  /\ state = [e \in Emails |-> "none"]
  /\ slot = [e \in Emails |-> 0]
  /\ frozen = [e \in Emails |-> FirstPolicy]
  /\ started = [e \in Emails |-> 0]
  /\ ended = [e \in Emails |-> 0]
  /\ settled = Unsettled

-----------------------------------------------------------------------------
(* email_pacing.py                                                         *)

Later(a, b) == IF a > b THEN a ELSE b

\* The moment a schedule row stands for (_email_send_slots): a send without
\* an outcome always counts as of now.
Boundary(f) ==
  IF state[f] = "sending" THEN now ELSE Max({slot[f], started[f], ended[f]})

\* Mutant of Inside: one more than the limit fits.
InsideOpen(S, t, window) == {f \in S : Boundary(f) <= t /\ t + 1 < Boundary(f) + window}

Inside(S, t, window) == {f \in S : Boundary(f) <= t /\ t < Boundary(f) + window}

\* _respect_rolling_limit: wait until the oldest slot leaves the window.
RespectLimit(S, t, window, limit) ==
  LET From[c \in Nat] ==
        IF Cardinality(Inside(S, c, window)) < limit THEN c
        ELSE From[Min({Boundary(f) : f \in Inside(S, c, window)}) + window]
  IN  From[t]

\* next_email_send_at without its jitter.
NextSendAt(e, S, p) ==
  LET base == Max({now} \cup {Boundary(f) + p.gap : f \in S}
                  \cup {Boundary(f) + p.domainGap : f \in {g \in S : RecipientDomain[g] = RecipientDomain[e]}})
      From[c \in Nat] ==
        LET next == RespectLimit(S, RespectLimit(S, c, Hour, p.hourly), Day, p.daily)
        IN  IF next = c THEN c ELSE From[next]
  IN  From[base]

Jitter(e, p) == Hash[e] % (p.jitter + 1)

\* Mutant of Stricter: the settings of the running worker decide.
CurrentOnly(current, kept) == current

Stricter(current, kept) ==
  LET Least(a, b) == IF a < b THEN a ELSE b
  IN  [gap |-> Later(current.gap, kept.gap),
       domainGap |-> Later(current.domainGap, kept.domainGap),
       hourly |-> Least(current.hourly, kept.hourly),
       daily |-> Least(current.daily, kept.daily),
       jitter |-> Later(current.jitter, kept.jitter)]

Recent(f) == state[f] = "sending" \/ Boundary(f) + Day > now

Planned(e) == {f \in Emails \ {e} : f \in Begun \/ state[f] = "scheduled"}
Actual(e) == Begun \ {e}

\* Mutant of NextAttemptAt: the reservation of the approval is enough.
AsReserved(e) == slot[e]

\* Mutant of NextAttemptAt: every check draws its jitter from the clock.
FreshJitter(e) ==
  LET p == Stricter(policy, frozen[e])
      S == {f \in Actual(e) : Recent(f)}
  IN  Later(slot[e], NextSendAt(e, S, p) + Jitter(e, p))

\* next_email_attempt_at and the check for unresolved sends after it.
NextAttemptAt(e) ==
  LET p == Stricter(policy, frozen[e])
      next == NextSendAt(e, {f \in Actual(e) : Recent(f)}, p)
      safe == Later(slot[e], IF next > now THEN next + Jitter(e, p) ELSE next)
  IN  IF \E f \in Actual(e) : state[f] = "sending" THEN Later(safe, now + p.gap) ELSE safe

-----------------------------------------------------------------------------
(* The callers.                                                            *)

\* _reserve_email_schedule, within decide_task; a slot behind the expiry of
\* the packet refuses the approval.
Approve(e) ==
  LET at == NextSendAt(e, {f \in Planned(e) : Recent(f)}, policy) + Jitter(e, policy)
  IN  /\ state[e] = "none"
      /\ now < Expires[e] /\ at < Expires[e]
      /\ state' = [state EXCEPT ![e] = "scheduled"]
      /\ slot' = [slot EXCEPT ![e] = at]
      /\ frozen' = [frozen EXCEPT ![e] = policy]
      /\ UNCHANGED <<now, policy, started, ended, settled>>

\* begin_side_effect is reached: the task is claimed no earlier than its slot.
AtBoundary(e) == state[e] = "scheduled" /\ slot[e] <= now

Send(e) ==
  /\ AtBoundary(e)
  /\ now < Expires[e] /\ NextAttemptAt(e) <= now
  /\ state' = [state EXCEPT ![e] = "sending"]
  /\ started' = [started EXCEPT ![e] = now]
  /\ settled' = Unsettled
  /\ UNCHANGED <<now, policy, slot, frozen, ended>>

\* _defer_email_send
Defer(e) ==
  /\ AtBoundary(e)
  /\ now < NextAttemptAt(e) /\ NextAttemptAt(e) < Expires[e]
  /\ slot' = [slot EXCEPT ![e] = NextAttemptAt(e)]
  /\ settled' = [settled EXCEPT ![e] = TRUE]
  /\ UNCHANGED <<now, policy, state, frozen, started, ended>>

\* The columns of a skipped row are not read again.
GiveUp(e) ==
  /\ state' = [state EXCEPT ![e] = "skipped"]
  /\ slot' = [slot EXCEPT ![e] = 0]
  /\ frozen' = [frozen EXCEPT ![e] = FirstPolicy]
  /\ settled' = [settled EXCEPT ![e] = FALSE]
  /\ UNCHANGED <<now, policy, started, ended>>

\* No safe time is left: fail_external_action gives the slot up.
Refuse(e) ==
  /\ AtBoundary(e)
  /\ Expires[e] <= now \/ (now < NextAttemptAt(e) /\ Expires[e] <= NextAttemptAt(e))
  /\ GiveUp(e)

\* A person cancels, or the run fails before the boundary.
Skip(e) ==
  /\ state[e] = "scheduled"
  /\ GiveUp(e)

\* complete_side_effect and fail_external_action; after a crash, neither.
Resolve(e) ==
  /\ state[e] = "sending"
  /\ \E outcome \in {"accepted", "ambiguous"} : state' = [state EXCEPT ![e] = outcome]
  /\ ended' = [ended EXCEPT ![e] = now]
  /\ settled' = Unsettled
  /\ UNCHANGED <<now, policy, slot, frozen, started>>

\* The services are restarted with other settings.
Deploy(p) ==
  /\ p # policy
  /\ policy' = p
  /\ settled' = Unsettled
  /\ UNCHANGED <<now, state, slot, frozen, started, ended>>

Tick ==
  /\ now < MaxTime
  /\ now' = now + 1
  /\ UNCHANGED <<policy, state, slot, frozen, started, ended, settled>>

PacingNext ==
  \/ \E e \in Emails :
       Approve(e) \/ Send(e) \/ Defer(e) \/ Refuse(e) \/ Skip(e) \/ Resolve(e)
  \/ \E p \in Policies : Deploy(p)
  \/ Tick

PacingSpec == PacingInit /\ [][PacingNext]_pacingVars

-----------------------------------------------------------------------------
(* Properties.                                                             *)

\* The distance between emails is kept between the sends themselves, counted
\* from the end of the earlier one, not between their reservations: workers
\* that were down do not empty the backlog in a burst, and a deploy with
\* looser settings loosens nothing that was approved before
\* (docs/decisions/ADR-0034; begin_side_effect).
SendsSpaced ==
  \A e, f \in Begun : e # f /\ started[f] <= started[e] =>
    /\ f \in Resolved
    /\ ended[f] + frozen[e].gap <= started[e]
    /\ RecipientDomain[f] = RecipientDomain[e] => ended[f] + frozen[e].domainGap <= started[e]

\* In the hour and in the day before any send there are no more sends than
\* its approval allowed, wherever the window begins (_respect_rolling_limit).
CapsKept ==
  \A e \in Begun :
    LET Within(window) ==
          {f \in Begun : started[f] <= started[e] /\ started[e] < started[f] + window}
    IN  /\ Cardinality(Within(Hour)) <= frozen[e].hourly
        /\ Cardinality(Within(Day)) <= frozen[e].daily

\* A deferral holds: an email that comes back at its new time is not put off
\* again unless another email was begun or resolved, or other settings came,
\* in between, or one is on its way (next_email_attempt_at: "without drawing fresh jitter forever").
DeferralHolds ==
  \A e \in Emails :
    AtBoundary(e) /\ settled[e] /\ Begun = Resolved
      => NextAttemptAt(e) <= now
=============================================================================
