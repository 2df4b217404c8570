----------------------------- MODULE Membership -----------------------------
(***************************************************************************)
(* The membership of a group and the leases under which its devices use    *)
(* it.  The authority publishes a list of members at every admission and   *)
(* expulsion.  A device asks for validation every minute; a validation     *)
(* lets it work with the list it carries, offline too, for at most 24      *)
(* hours from when it asked.  Each device judges this by two clocks: the   *)
(* steady one stands still while the machine sleeps, and the wall clock    *)
(* can be set.                                                             *)
(*                                                                         *)
(* A member's identity is drawn anew at every admission, so one that was   *)
(* expelled does not come back; a member stands for its device.            *)
(***************************************************************************)
EXTENDS Integers, Sequences, FiniteSets

CONSTANTS
  Member,
  Device,       \* the members whose devices are followed; devices meet only
                \* at the authority, so one is enough
  Founders,     \* the members at first
  Lifetime,     \* max_offline_seconds, in units of time
  Tolerance,    \* how far the two clocks may drift apart: 2 s
  MaxRevision,  \* bound: publications of the authority
  MaxTime,      \* bound: real time
  MaxShift,     \* bound: how far the wall clock is set off
  MaxTroubles   \* bound: sleeps, clock changes, restarts, suspensions, timeouts

ASSUME MembershipAssumption ==
  /\ Founders \subseteq Member /\ Device \subseteq Member
  /\ Lifetime \in Nat \ {0} /\ Tolerance \in Nat
  /\ MaxRevision \in Nat /\ MaxTime \in Nat /\ MaxShift \in Nat /\ MaxTroubles \in Nat

VARIABLES
  epochs,    \* the authority's publications, by revision
  left,      \* left[m]: when m was expelled, -1 if it was not
  stored,    \* stored[m]: newest revision in the membership store, 0 if none
  lease,     \* lease[m]: membership_lease of m
  request,   \* request[m]: the pending validation's sent_ and sent_wall_
  wire,      \* wire[m]: validation requests and answers under way
  shown,     \* shown[m]: the phase is authorized or offline_valid
  paused,    \* paused[m]: paused_
  asleep,    \* asleep[m]: the machine sleeps
  now,       \* real time
  slept,     \* slept[m]: how long the machine has slept
  shift,     \* shift[m]: how far the wall clock is off
  troubles

device == <<stored, lease, request, shown, paused>>
clocks == <<asleep, now, slept, shift>>
vars == <<epochs, left, device, wire, clocks, troubles>>

Members == epochs[Len(epochs)]

steady(m) == now - slept[m]
wall(m) == now + shift[m]

\* The moments of a request; sent is the real one, which nobody reads.
Stamp(m) == [sent |-> now, steady |-> steady(m), wall |-> wall(m)]

NoStamp == [sent |-> -1, steady |-> 0, wall |-> 0]
NoLease == [active |-> FALSE, start |-> NoStamp, last |-> NoStamp]

Init ==
  /\ epochs = <<Founders>>
  /\ left = [m \in Member |-> -1]
  /\ stored = [m \in Device |-> 0]
  /\ lease = [m \in Device |-> NoLease]
  /\ request = [m \in Device |-> NoStamp]
  /\ wire = [m \in Device |-> {}]
  /\ shown = [m \in Device |-> FALSE]
  /\ paused = [m \in Device |-> FALSE]
  /\ asleep = [m \in Device |-> FALSE]
  /\ now = 0 /\ troubles = 0
  /\ slept = [m \in Device |-> 0]
  /\ shift = [m \in Device |-> 0]

Pending(m) == request[m] # NoStamp

Running(m) == ~asleep[m]

Trouble ==
  /\ troubles < MaxTroubles
  /\ troubles' = troubles + 1

---------------------------------------------------------------------------
(***************************************************************************)
(* The authority: Admit and Expel change the members and publish.          *)
(***************************************************************************)
Admit(m) ==
  /\ Len(epochs) < MaxRevision
  /\ m \notin UNION {epochs[i] : i \in DOMAIN epochs}
  /\ epochs' = Append(epochs, Members \cup {m})
  /\ UNCHANGED <<left, device, wire, clocks, troubles>>

Expel(m) ==
  /\ Len(epochs) < MaxRevision
  /\ m \in Members
  /\ epochs' = Append(epochs, Members \ {m})
  /\ left' = [left EXCEPT ![m] = now]
  /\ UNCHANGED <<device, wire, clocks, troubles>>

\* ValidateMember reads the member and the publication in one snapshot.
Validate(m) ==
  \E q \in wire[m] :
    /\ q.kind = "ask"
    /\ wire' = [wire EXCEPT ![m] = (@ \ {q}) \cup
         {IF m \in Members
          THEN [kind |-> "state", revision |-> Len(epochs), current |-> q.current]
          ELSE [kind |-> "denied", revision |-> 0, current |-> q.current]}]
    /\ UNCHANGED <<epochs, left, device, clocks, troubles>>

---------------------------------------------------------------------------
(***************************************************************************)
(* membership_lease.                                                       *)
(***************************************************************************)
Fresh(l, s, w) ==
  LET elapsed == s - l.start.steady
      wallElapsed == w - l.start.wall
  IN  /\ s >= l.last.steady /\ w >= l.last.wall
      /\ elapsed < Lifetime /\ wallElapsed < Lifetime
      /\ elapsed - wallElapsed \in -Tolerance..Tolerance

\* valid: what it would answer, and the lease it leaves.
Valid(m) == lease[m].active /\ Fresh(lease[m], steady(m), wall(m))

Checked(l, m) ==
  IF l.active /\ Fresh(l, steady(m), wall(m))
  THEN [l EXCEPT !.last = [sent |-> -1, steady |-> steady(m), wall |-> wall(m)]]
  ELSE NoLease

\* Mutant: the lease begins when the answer arrives.
RenewedOnReceipt(m) == [active |-> TRUE, start |-> Stamp(m), last |-> Stamp(m)]

\* renew: the lease begins when the question was sent.
Renewed(m) == [active |-> TRUE, start |-> request[m], last |-> request[m]]

---------------------------------------------------------------------------
(***************************************************************************)
(* authority_client and profile_session.                                   *)
(***************************************************************************)
\* Mutant: the operation is not advanced.
StillCurrent(m) == wire[m]

\* ++operation_: what is under way is no longer waited for.
Stale(m) == {[q EXCEPT !.current = FALSE] : q \in wire[m]}

\* refresh of profile_session and of its authority_client.
Ask(m) ==
  /\ ~Pending(m)
  /\ lease' = [lease EXCEPT ![m] = Checked(@, m)]
  /\ shown' = [shown EXCEPT ![m] = @ /\ Valid(m)]
  /\ request' = [request EXCEPT ![m] = Stamp(m)]
  /\ wire' = [wire EXCEPT ![m] = @ \cup {[kind |-> "ask", revision |-> 0, current |-> TRUE]}]

\* From the minute's timer, a conflict's hint, or the start of the application.
Refresh(m) ==
  /\ Running(m) /\ ~paused[m]
  /\ Ask(m)
  /\ UNCHANGED <<epochs, left, stored, paused, clocks, troubles>>

\* The answer.  One that is not waited for is dropped.  Denial, a rollback
\* and a list without the device revoke the lease.
Receive(m) ==
  \E q \in wire[m] :
    /\ Running(m) /\ q.kind # "ask"
    /\ wire' = [wire EXCEPT ![m] = @ \ {q}]
    /\ IF q.current
       THEN LET accepted == /\ q.kind = "state"
                            /\ m \in epochs[q.revision]
                            /\ q.revision >= stored[m]
                new == IF accepted THEN Checked(Renewed(m), m) ELSE NoLease
            IN  /\ stored' = [stored EXCEPT ![m] = IF accepted THEN q.revision ELSE @]
                /\ lease' = [lease EXCEPT ![m] = new]
                /\ shown' = [shown EXCEPT ![m] = new.active]
                /\ request' = [request EXCEPT ![m] = NoStamp]
       ELSE UNCHANGED <<stored, lease, shown, request>>
    /\ UNCHANGED <<epochs, left, paused, clocks, troubles>>

\* Mutant: the timer cancels the exchange and reports nothing.
TimeoutQuietly(m) ==
  /\ Running(m) /\ Pending(m) /\ Trouble
  /\ wire' = [wire EXCEPT ![m] = Stale(m)]
  /\ UNCHANGED <<epochs, left, device, clocks>>

\* The validation's timer, because the request or its answer is lost or slow.
\* It costs the authority's word, not the lease.
Timeout(m) ==
  /\ Running(m) /\ Pending(m) /\ Trouble
  /\ wire' = [wire EXCEPT ![m] = Stale(m)]
  /\ request' = [request EXCEPT ![m] = NoStamp]
  /\ lease' = [lease EXCEPT ![m] = Checked(@, m)]
  /\ shown' = [shown EXCEPT ![m] = Valid(m)]
  /\ UNCHANGED <<epochs, left, stored, paused, clocks>>

\* tick: a lease that lapsed since it was shown ends the network and the
\* directory, and a validation under way, whose moments are as old.
Tick(m) ==
  /\ Running(m) /\ ~paused[m]
  /\ shown[m] /\ ~Valid(m)
  /\ lease' = [lease EXCEPT ![m] = NoLease]
  /\ shown' = [shown EXCEPT ![m] = FALSE]
  /\ request' = [request EXCEPT ![m] = NoStamp]
  /\ wire' = [wire EXCEPT ![m] = Stale(m)]
  /\ UNCHANGED <<epochs, left, stored, paused, clocks, troubles>>

\* Any use of the lease notes the clocks.
Use(m) ==
  /\ Running(m) /\ ~paused[m] /\ Valid(m)
  /\ lease' = [lease EXCEPT ![m] = Checked(@, m)]
  /\ UNCHANGED <<epochs, left, stored, request, shown, paused, wire, clocks, troubles>>

\* suspend, when the platform announces sleep or the user disables the group.
Suspend(m) ==
  /\ Running(m) /\ ~paused[m] /\ Trouble
  /\ paused' = [paused EXCEPT ![m] = TRUE]
  /\ lease' = [lease EXCEPT ![m] = NoLease]
  /\ shown' = [shown EXCEPT ![m] = FALSE]
  /\ request' = [request EXCEPT ![m] = NoStamp]
  /\ wire' = [wire EXCEPT ![m] = Stale(m)]
  /\ UNCHANGED <<epochs, left, stored, clocks>>

Resume(m) ==
  /\ Running(m) /\ paused[m]
  /\ paused' = [paused EXCEPT ![m] = FALSE]
  /\ Ask(m)
  /\ UNCHANGED <<epochs, left, stored, clocks, troubles>>

\* An error of the directory, the feed, a decision or the replication takes
\* the phase's place, which tick looks at, until it is over (recovered).
Obscure(m) ==
  /\ Running(m) /\ shown[m]
  /\ shown' = [shown EXCEPT ![m] = FALSE]
  /\ UNCHANGED <<epochs, left, stored, lease, request, paused, wire, clocks, troubles>>

Recovered(m) ==
  /\ Running(m) /\ ~paused[m] /\ ~shown[m] /\ Valid(m)
  /\ shown' = [shown EXCEPT ![m] = TRUE]
  /\ lease' = [lease EXCEPT ![m] = Checked(@, m)]
  /\ UNCHANGED <<epochs, left, stored, request, paused, wire, clocks, troubles>>

\* The application ends and only the store remains; its start is a Refresh.
Restart(m) ==
  /\ Running(m) /\ Trouble
  /\ paused' = [paused EXCEPT ![m] = FALSE]
  /\ lease' = [lease EXCEPT ![m] = NoLease]
  /\ shown' = [shown EXCEPT ![m] = FALSE]
  /\ request' = [request EXCEPT ![m] = NoStamp]
  /\ wire' = [wire EXCEPT ![m] = Stale(m)]
  /\ UNCHANGED <<epochs, left, stored, clocks>>

---------------------------------------------------------------------------
(***************************************************************************)
(* The clocks.                                                             *)
(***************************************************************************)
Elapse ==
  /\ now < MaxTime
  /\ now' = now + 1
  /\ slept' = [m \in Device |-> IF asleep[m] THEN slept[m] + 1 ELSE slept[m]]
  /\ UNCHANGED <<epochs, left, device, wire, asleep, shift, troubles>>

FallAsleep(m) ==
  /\ Running(m) /\ Trouble
  /\ asleep' = [asleep EXCEPT ![m] = TRUE]
  /\ UNCHANGED <<epochs, left, device, wire, now, slept, shift>>

Wake(m) ==
  /\ asleep[m]
  /\ asleep' = [asleep EXCEPT ![m] = FALSE]
  /\ UNCHANGED <<epochs, left, device, wire, now, slept, shift, troubles>>

SetClock(m, off) ==
  /\ off # shift[m] /\ Trouble
  /\ shift' = [shift EXCEPT ![m] = off]
  /\ UNCHANGED <<epochs, left, device, wire, asleep, now, slept>>

Next ==
  \/ Elapse
  \/ \E m \in Member : Admit(m) \/ Expel(m)
  \/ \E m \in Device :
       \/ Validate(m)
       \/ Refresh(m) \/ Receive(m) \/ Timeout(m) \/ Tick(m) \/ Use(m)
       \/ Suspend(m) \/ Resume(m) \/ Restart(m) \/ Obscure(m) \/ Recovered(m)
       \/ FallAsleep(m) \/ Wake(m)
       \/ \E off \in -MaxShift..MaxShift : SetClock(m, off)

Spec == Init /\ [][Next]_vars

\* Timers and event loops run on, the authority answers what reaches it, and
\* a machine that sleeps or a session that is suspended comes back.
FairSpec ==
  /\ Spec
  /\ \A m \in Device :
       /\ WF_vars(Validate(m)) /\ WF_vars(Receive(m))
       /\ WF_vars(Refresh(m) \/ Tick(m))
       /\ WF_vars(Wake(m) \/ Resume(m))

---------------------------------------------------------------------------
(***************************************************************************)
(* The variables hold what the classes' members are declared to hold; an   *)
(* answer is waited for only while a validation is pending, and a          *)
(* suspended session has neither a lease nor a validation.                 *)
(***************************************************************************)
TypeOK ==
  /\ epochs \in Seq(SUBSET Member)
  /\ \A m \in Device :
       /\ stored[m] \in 0..Len(epochs)
       /\ lease[m].active => stored[m] > 0
       /\ (\E q \in wire[m] : q.current) => Pending(m)
       /\ paused[m] => ~lease[m].active /\ ~Pending(m)

\* context_allowed: m works with peer p.
Allowed(m, p) ==
  /\ Running(m) /\ ~paused[m] /\ Valid(m)
  /\ {m, p} \subseteq epochs[stored[m]]

\* How much of the lease's real duration both clocks hide.
Hidden(m) ==
  LET start == lease[m].start
      bySleep == (now - start.sent) - (steady(m) - start.steady)
      byClock == (now - start.sent) - (wall(m) - start.wall)
  IN  IF bySleep < byClock THEN bySleep ELSE byClock

(***************************************************************************)
(* Expulsion takes effect everywhere within the lifetime of a lease: after *)
(* that no device works with the expelled one, and it with none, whatever  *)
(* answers came late, and through sleep, restarts and clock changes.  Real *)
(* time may exceed the lifetime only by what a sleep and a clock set back  *)
(* hide from both clocks at once.                                          *)
(***************************************************************************)
ExpulsionTakesEffect ==
  \A m \in Device, p \in Member :
    Allowed(m, p) =>
      \A x \in {m, p} :
        left[x] # -1 => now - left[x] < Lifetime + (IF Hidden(m) > 0 THEN Hidden(m) ELSE 0)

(***************************************************************************)
(* A member that lost its lease, by sleep, a clock change, a restart, a    *)
(* suspension or for want of an answer, gets one again.                    *)
(***************************************************************************)
Reauthorized ==
  \A m \in Device : m \in Members /\ ~Valid(m) ~> Valid(m) \/ m \notin Members
============================================================================
