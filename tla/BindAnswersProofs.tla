--------------------------- MODULE BindAnswersProofs ---------------------------
(***************************************************************************)
(* What TLAPS proves of the answers to binds, for any number of pods,      *)
(* binds, passwords and versions of the person's record.                   *)
(***************************************************************************)
EXTENDS BindVerificationProofs, WellFoundedInduction

-----------------------------------------------------------------------------
(* The invariants.                                                         *)

\* What a row says was delivered; and while the person always had a hosted address, a
\* version newer than the row is still on its way.
AccountInv ==
    /\ clerk # <<>>
    /\ row # NoAccount => row.at \in DOMAIN clerk \ undelivered
    /\ AllHosted => /\ row # NoAccount
                    /\ \A v \in DOMAIN clerk : v > row.at => v \in undelivered

\* Flights have keys of their own, and whoever waits, waits for a flight of its key.
FlightsInv ==
    /\ \A f \in Binds : Running(f) =>
         /\ bind[f].phase \in {"waiting", "unavailable"}
         /\ bind[f].phase = "waiting" => bind[f].leader = f
    /\ \A f, g \in Binds : Running(f) /\ Running(g) /\ SameKey(f, g) => f = g
    /\ \A b \in Binds : bind[b].phase = "waiting" =>
         Running(bind[b].leader) /\ SameKey(bind[b].leader, b)

\* What was read of the row and is not forgotten: by a bind under way, by what a cache
\* holds; and what would be read now.
Kept ==
    {[sub |-> cache[p].sub, read |-> cache[p].read] : p \in {p \in Pods : cache[p] # Nothing}}
      \cup {[sub |-> bind[b].sub, read |-> bind[b].read] : b \in {b \in Binds : Open(b)}}

ReadNow ==
    IF row = NoAccount THEN {}
    ELSE {[sub |-> [at |-> row.at, epoch |-> row.epoch], read |-> raises]}

Reads == Kept \cup ReadNow

\* A version is written once, so while the row is at it the epoch counts the
\* revocations: who read the same of the row read it between the same revocations.
ReadsInv ==
    /\ \A x \in Reads : x.sub.at \in DOMAIN clerk \ undelivered
    /\ \A x, y \in Reads : x.sub.at = y.sub.at =>
         x.read - x.sub.epoch = y.read - y.sub.epoch

\* w was the person's password in version at or later, and at tick or later.
Held(w, at, tick) ==
    \E v \in DOMAIN clerk : v >= at /\ clerk[v].pw = w /\ v \in StoodSince(tick)

\* In some version since, w was not the person's password.
Differs(w, at) ==
    \E v \in DOMAIN clerk : v >= at /\ clerk[v].pw # w

TruthInv ==
    /\ \A b \in Binds : Open(b) => bind[b].since <= now /\ now <= bind[b].since + 1
    /\ \A f \in Binds :
         /\ flight[f] = "verified" => Held(bind[f].pw, bind[f].sub.at, bind[f].since)
         /\ flight[f] = "rejected" => Differs(bind[f].pw, bind[f].sub.at)
    /\ \A p \in Pods : cache[p] # Nothing =>
         /\ cache[p].expires <= now + Ttl
         /\ Held(cache[p].pw, cache[p].sub.at, cache[p].expires - Ttl - 1)
    /\ \A p \in Pods : refused[p] # Nothing =>
         \A r \in refused[p].macs : Differs(r.pw, refused[p].sub.at)

Bounded(macs) == \E n \in Nat : \A r \in macs : r.age <= n

MemoryInv ==
    \A p \in Pods : refused[p] # Nothing =>
      IsFiniteSet(refused[p].macs) /\ Bounded(refused[p].macs)

Inv ==
    /\ TypeOK /\ AccountInv /\ FlightsInv /\ ReadsInv /\ TruthInv /\ MemoryInv
    /\ NoIdenticalForward

-----------------------------------------------------------------------------
(* Steps of a bind and of a verification.                                  *)

\* The bind and its flight stay as they are, but for the stage of the flight.
Same(b) == bind'[b] = bind[b] /\ (Running(b)' <=> Running(b))

\* The bind is over, and so is its flight.
Over(b) == bind'[b].phase \notin Pending /\ ~Running(b)'

LEMMA IdleType ==
    ASSUME TypeOK, clerk # <<>>, NEW phase \in {"new"} \cup Replies
    PROVE  Idle(phase) \in BindStates /\ Idle(phase).phase = phase
<1>1. \E w : w \in Passwords
  BY DEF TypeOK, AccountsTypeOK, Versions
<1>2. (CHOOSE w \in Passwords : TRUE) \in Passwords /\ (CHOOSE p \in Pods : TRUE) \in Pods
  BY <1>1, BindAssumption
<1>3. [at |-> 0, epoch |-> 0] \in Subjects
  BY DEF Subjects
<1>4. QED BY <1>2, <1>3 DEF Idle, BindStates

\* A flight that ends is over, with everyone who waits for it, and nobody else is.
LEMMA EndsAll ==
    ASSUME TypeOK, FlightsInv, clerk # <<>>, NEW f \in Binds, Running(f),
           NEW reply \in Replies, Ends(f, reply)
    PROVE  /\ bind' \in [Binds -> BindStates]
           /\ flight' \in [Binds -> Stages]
           /\ Over(f)
           /\ \A b \in Binds : (Same(b) /\ flight'[b] = flight[b]) \/ Over(b)
           /\ \A b \in Binds : bind'[b].phase = "waiting" =>
                bind'[b] = bind[b] /\ bind[b].leader # f
           /\ \A b \in Binds : \A r : Told(b, r) =>
                r = reply /\ bind[b].phase = "waiting" /\ bind[b].leader = f
<1>1. /\ bind \in [Binds -> BindStates] /\ flight \in [Binds -> Stages]
      /\ flight' = [flight EXCEPT ![f] = "none"]
  BY DEF TypeOK, Ends
<1>2. \A b \in Binds :
        bind'[b] = CASE bind[b].phase = "waiting" /\ bind[b].leader = f -> Idle(reply)
                     [] b = f /\ bind[b].phase # "waiting" -> Idle(bind[b].phase)
                     [] OTHER -> bind[b]
  BY DEF Ends
<1>3. bind[f].phase \in {"waiting", "unavailable"} /\ (bind[f].phase = "waiting" => bind[f].leader = f)
  BY DEF FlightsInv
<1>4. Idle(reply) \in BindStates /\ Idle(reply).phase = reply
      /\ Idle("unavailable") \in BindStates /\ Idle("unavailable").phase = "unavailable"
  BY IdleType DEF Replies
<1>5. \A b \in Binds : \/ bind'[b] = bind[b] /\ b # f
                          /\ ~(bind[b].phase = "waiting" /\ bind[b].leader = f)
                       \/ bind'[b] = Idle(reply) /\ bind[b].phase = "waiting" /\ bind[b].leader = f
                       \/ b = f /\ bind[f].phase = "unavailable" /\ bind'[b] = Idle("unavailable")
  BY <1>2, <1>3
<1>6. bind' \in [Binds -> BindStates] /\ flight' \in [Binds -> Stages]
  <2>1. \A b \in Binds : bind'[b] \in BindStates
    BY <1>1, <1>4, <1>5
  <2>2. QED BY <1>1, <2>1 DEF Ends, Stages
<1>7. \A b \in Binds : b # f => flight'[b] = flight[b] /\ (Running(b)' <=> Running(b))
  BY <1>1 DEF Running
<1>8. ~Running(f)'
  BY <1>1 DEF Running
<1>9. "waiting" \notin Replies /\ "unavailable" \in Replies /\ Pending \cap Replies = {}
  BY DEF Replies, Pending
<1>10. \A b \in Binds : b # f /\ bind[b].phase = "waiting" /\ bind[b].leader = f => ~Running(b)
  BY DEF FlightsInv
<1>11. \A b \in Binds : (Same(b) /\ flight'[b] = flight[b]) \/ Over(b)
  BY <1>4, <1>5, <1>7, <1>8, <1>9, <1>10 DEF Same, Over
<1>12. Over(f)
  BY <1>4, <1>5, <1>8, <1>9 DEF Over
<1>13. \A b \in Binds : bind'[b].phase = "waiting" => bind'[b] = bind[b] /\ bind[b].leader # f
  BY <1>4, <1>5, <1>9
<1>14. \A b \in Binds : \A r : Told(b, r) =>
          r = reply /\ bind[b].phase = "waiting" /\ bind[b].leader = f
  BY <1>4, <1>5, <1>9 DEF Told
<1>15. QED BY <1>6, <1>11, <1>12, <1>13, <1>14

\* Steps after which each bind is as it was or over, and nobody waits for nothing.
LEMMA FlightsStay ==
    ASSUME FlightsInv,
           \A b \in Binds : Same(b) \/ Over(b),
           \A b \in Binds : bind'[b].phase = "waiting" =>
             bind'[b] = bind[b] /\ Running(bind[b].leader)' /\ bind[b].leader \in Binds
    PROVE  FlightsInv'
<1>1. \A f \in Binds : Running(f)' => Running(f) /\ bind'[f] = bind[f]
  BY DEF Same, Over
<1>2. \A f, g \in Binds : Running(f)' /\ Running(g)' => (SameKey(f, g)' <=> SameKey(f, g))
  BY <1>1 DEF SameKey
<1>3. ASSUME NEW b \in Binds, bind'[b].phase = "waiting"
      PROVE  Running(bind[b].leader)' /\ SameKey(bind[b].leader, b)' /\ bind'[b] = bind[b]
  <2>1. bind'[b] = bind[b] /\ Running(bind[b].leader)' /\ bind[b].leader \in Binds
    BY <1>3
  <2>2. bind'[bind[b].leader] = bind[bind[b].leader]
    BY <1>1, <2>1
  <2>3. SameKey(bind[b].leader, b)
    BY <1>3, <2>1 DEF FlightsInv
  <2>4. QED BY <2>1, <2>2, <2>3 DEF SameKey
<1>4. QED BY <1>1, <1>2, <1>3 DEF FlightsInv

\* What the steps of a verification have in common: of the binds they only end some, and
\* those who were waiting for this flight are told what it came to.
Ending(f) ==
    /\ bind' \in [Binds -> BindStates]
    /\ flight' \in [Binds -> Stages]
    /\ \A b \in Binds : Same(b) \/ Over(b)
    /\ \A b \in Binds \ {f} : flight'[b] = flight[b] \/ Over(b)
    /\ \A b \in Binds : bind'[b].phase = "waiting" =>
         bind'[b] = bind[b] /\ Running(bind[b].leader)' /\ bind[b].leader \in Binds
    /\ \A b \in Binds : \A r : Told(b, r) =>
         bind[b].phase = "waiting" /\ bind[b].leader = f

LEMMA EndingByEnds ==
    ASSUME TypeOK, FlightsInv, clerk # <<>>, NEW f \in Binds, Running(f),
           NEW reply \in Replies, Ends(f, reply)
    PROVE  Ending(f)
<1>1. ASSUME NEW b \in Binds, bind'[b].phase = "waiting"
      PROVE  bind'[b] = bind[b] /\ Running(bind[b].leader)' /\ bind[b].leader \in Binds
  <2>1. bind'[b] = bind[b] /\ bind[b].leader # f
    BY <1>1, EndsAll
  <2>2. bind[b].leader \in Binds /\ Running(bind[b].leader)
    BY <1>1, <2>1 DEF TypeOK, FlightsInv
  <2>3. flight'[bind[b].leader] = flight[bind[b].leader]
    BY <2>1, <2>2 DEF Ends, TypeOK
  <2>4. QED BY <2>1, <2>2, <2>3 DEF Running
<1>2. QED BY <1>1, EndsAll DEF Ending

LEMMA EndingByStage ==
    ASSUME TypeOK, FlightsInv, NEW f \in Binds, Running(f), bind' = bind,
           NEW stage \in Stages \ {"none"}, flight' = [flight EXCEPT ![f] = stage]
    PROVE  Ending(f)
<1>1. bind' \in [Binds -> BindStates] /\ flight' \in [Binds -> Stages]
  BY DEF TypeOK
<1>2. \A b \in Binds : Same(b)
  BY DEF Same, Running, TypeOK
<1>3. \A b \in Binds \ {f} : flight'[b] = flight[b]
  BY DEF TypeOK
<1>4. ASSUME NEW b \in Binds, bind'[b].phase = "waiting"
      PROVE  Running(bind[b].leader)' /\ bind[b].leader \in Binds
  <2>1. bind[b].leader \in Binds /\ Running(bind[b].leader)
    BY <1>4 DEF TypeOK, FlightsInv
  <2>2. QED BY <2>1 DEF TypeOK, Running
<1>5. \A b \in Binds : \A r : ~Told(b, r)
  BY DEF Told
<1>6. QED BY <1>1, <1>2, <1>3, <1>4, <1>5 DEF Ending

LEMMA VerificationEnds ==
    ASSUME TypeOK, FlightsInv, clerk # <<>>, NEW f \in Binds, Verification(f)
    PROVE  /\ Ending(f) /\ Running(f)
           /\ UNCHANGED <<accountVars, budgeted, now>>
<1>1. ASSUME Running(f), NEW reply \in Replies, Ends(f, reply) PROVE Ending(f)
  BY <1>1, EndingByEnds
<1>2. ASSUME Running(f), bind' = bind, NEW stage \in Stages \ {"none"},
             flight' = [flight EXCEPT ![f] = stage]
      PROVE  Ending(f)
  BY <1>2, EndingByStage
<1>3. CASE Admit(f)
  <2>1. Running(f) /\ UNCHANGED <<accountVars, budgeted, now>>
    BY <1>3 DEF Admit, Running, budgetVars
  <2>2. \/ Ends(f, "invalid") \/ Ends(f, "busy")
        \/ bind' = bind /\ flight' = [flight EXCEPT ![f] = "reserving"]
        \/ bind' = bind /\ flight' = [flight EXCEPT ![f] = "verifying"]
    BY <1>3 DEF Admit
  <2>3. QED BY <1>1, <1>2, <2>1, <2>2 DEF Replies, Stages
<1>4. CASE TakeSlot(f)
  <2>1. Running(f) /\ UNCHANGED <<accountVars, budgeted, now>>
    BY <1>4 DEF TakeSlot, Running, budgetVars, Reserve, ReserveUnheard
  <2>2. \/ Ends(f, "unavailable") \/ Ends(f, "busy")
        \/ bind' = bind /\ flight' = [flight EXCEPT ![f] = "verifying"]
    BY <1>4 DEF TakeSlot
  <2>3. QED BY <1>1, <1>2, <2>1, <2>2 DEF Replies, Stages
<1>5. CASE Verify(f)
  <2>1. Running(f) /\ UNCHANGED <<accountVars, budgeted, now, bind>>
    BY <1>5 DEF Verify, Running, budgetVars
  <2>2. \E stage \in Stages \ {"none"} : flight' = [flight EXCEPT ![f] = stage]
    BY <1>5 DEF Verify, Stages
  <2>3. QED BY <1>2, <2>1, <2>2
<1>6. CASE Succeed(f)
  BY <1>1, <1>6 DEF Succeed, GiveBack, Release, Lose, Running, budgetVars, Replies
<1>7. CASE Reject(f)
  BY <1>1, <1>7 DEF Reject, Keep, Running, budgetVars, Replies
<1>8. CASE Silent(f)
  BY <1>1, <1>8 DEF Silent, SilenceMeans, GiveBack, Release, Lose, Running, budgetVars, Replies
<1>9. CASE Panic(f)
  BY <1>1, <1>9 DEF Panic, Lose, Replies
<1>10. QED BY <1>3, <1>4, <1>5, <1>6, <1>7, <1>8, <1>9 DEF Verification

\* A pod that is killed takes its binds and their flights with it.
LEMMA RestartEnds ==
    ASSUME TypeOK, FlightsInv, clerk # <<>>, NEW p \in Pods, Restart(p)
    PROVE  /\ bind' \in [Binds -> BindStates] /\ flight' \in [Binds -> Stages]
           /\ \A b \in Binds : (Same(b) /\ flight'[b] = flight[b]) \/ Over(b)
           /\ \A b \in Binds : bind'[b].phase = "waiting" =>
                bind'[b] = bind[b] /\ Running(bind[b].leader)' /\ bind[b].leader \in Binds
           /\ \A b \in Binds : \A r : Told(b, r) => r = "dropped"
<1>1. /\ bind \in [Binds -> BindStates] /\ flight \in [Binds -> Stages]
      /\ \A b \in Binds : bind[b].phase \in {"new"} \cup Pending \cup Replies
  BY DEF TypeOK, BindStates
<1>2. \A b \in Binds :
        IF bind[b].pod = p
        THEN /\ flight'[b] = "none"
             /\ bind'[b] = Idle(IF bind[b].phase \in Pending THEN "dropped" ELSE bind[b].phase)
        ELSE flight'[b] = flight[b] /\ bind'[b] = bind[b]
  BY DEF Restart
<1>3. \A phase \in {"new"} \cup Replies : Idle(phase) \in BindStates /\ Idle(phase).phase = phase
  BY IdleType
<1>4. "dropped" \in Replies /\ "waiting" \in Pending /\ Pending \cap ({"new"} \cup Replies) = {}
  BY DEF Replies, Pending
<1>5. \A b \in Binds : bind[b].pod = p =>
        /\ bind'[b] \in BindStates /\ Over(b)
        /\ bind'[b].phase = IF bind[b].phase \in Pending THEN "dropped" ELSE bind[b].phase
  <2> SUFFICES ASSUME NEW b \in Binds, bind[b].pod = p
               PROVE  /\ bind'[b] \in BindStates /\ Over(b)
                      /\ bind'[b].phase = IF bind[b].phase \in Pending THEN "dropped" ELSE bind[b].phase
    OBVIOUS
  <2> DEFINE phase == IF bind[b].phase \in Pending THEN "dropped" ELSE bind[b].phase
  <2>1. phase \in {"new"} \cup Replies
    BY <1>1, <1>4
  <2>2. bind'[b] = Idle(phase) /\ flight'[b] = "none"
    BY <1>2
  <2> HIDE DEF phase
  <2>3. bind'[b] \in BindStates /\ bind'[b].phase = phase /\ phase \notin Pending
    BY <1>3, <1>4, <2>1, <2>2
  <2>4. QED BY <2>2, <2>3 DEF Over, Running, phase
<1>6. \A b \in Binds : bind[b].pod # p =>
         bind'[b] = bind[b] /\ flight'[b] = flight[b] /\ Same(b)
  BY <1>2 DEF Same, Running
<1>7. bind' \in [Binds -> BindStates] /\ flight' \in [Binds -> Stages]
  <2>1. \A b \in Binds : bind'[b] \in BindStates /\ flight'[b] \in Stages
    BY <1>1, <1>2, <1>5, <1>6 DEF Stages
  <2>2. QED BY <2>1 DEF Restart
<1>8. ASSUME NEW b \in Binds, bind'[b].phase = "waiting"
      PROVE  bind'[b] = bind[b] /\ Running(bind[b].leader)' /\ bind[b].leader \in Binds
  <2>1. bind[b].pod # p /\ bind'[b] = bind[b]
    BY <1>4, <1>5, <1>6, <1>8 DEF Over
  <2>2. bind[b].leader \in Binds /\ Running(bind[b].leader) /\ bind[bind[b].leader].pod # p
    BY <1>8, <2>1 DEF TypeOK, FlightsInv, SameKey
  <2>3. flight'[bind[b].leader] = flight[bind[b].leader]
    BY <1>6, <2>2
  <2>4. QED BY <2>1, <2>2, <2>3 DEF Running
<1>9. \A b \in Binds : \A r : Told(b, r) => r = "dropped"
  BY <1>5, <1>6 DEF Told
<1>10. QED BY <1>5, <1>6, <1>7, <1>8, <1>9

\* A handler moves one bind, and starts at most its own flight.
LEMMA HandlerMoves ==
    ASSUME TypeOK, FlightsInv, clerk # <<>>, NEW b \in Binds, Handler(b)
    PROVE  /\ bind' \in [Binds -> BindStates] /\ flight' \in [Binds -> Stages]
           /\ \A c \in Binds \ {b} : bind'[c] = bind[c] /\ flight'[c] = flight[c]
           /\ bind'[b].phase = "waiting" => bind'[b].leader \in Binds
           /\ FlightsInv'
           /\ UNCHANGED <<accountVars, budgeted, now, refused>>
           /\ faults' \in 0..MaxFaults
<1> USE DEF Running
<1>1. bind \in [Binds -> BindStates] /\ flight \in [Binds -> Stages]
      /\ row \in Accounts \cup {NoAccount} /\ now \in Nat /\ raises \in Nat
      /\ faults \in 0..MaxFaults
  BY DEF TypeOK, AccountsTypeOK, BudgetTypeOK
<1>2. \A phase \in {"new"} \cup Replies : Idle(phase) \in BindStates /\ Idle(phase).phase = phase
  BY IdleType
<1>3. Pending \cap ({"new"} \cup Replies) = {} /\ {"read", "missed", "waiting"} = Pending
      /\ {"success", "invalid", "unavailable"} \subseteq Replies
  BY DEF Pending, Replies
<1>4. bind[b].phase \in {"new", "read", "missed"} => flight[b] = "none"
  BY DEF FlightsInv
\* A step that moves the bind, to no waiting, where no flight of its own is.
<1>5. ASSUME flight' = flight, flight[b] = "none",
             NEW s \in BindStates, bind' = [bind EXCEPT ![b] = s], s.phase # "waiting"
      PROVE  /\ bind' \in [Binds -> BindStates] /\ flight' \in [Binds -> Stages]
             /\ \A c \in Binds \ {b} : bind'[c] = bind[c] /\ flight'[c] = flight[c]
             /\ bind'[b].phase # "waiting"
             /\ FlightsInv'
  <2>1. /\ bind' \in [Binds -> BindStates] /\ bind'[b] = s
        /\ \A c \in Binds \ {b} : bind'[c] = bind[c]
    BY <1>1, <1>5
  <2>2. \A c \in Binds : flight[c] # "none" => bind'[c] = bind[c]
    BY <1>5, <2>1
  <2>3. \A c \in Binds : bind'[c].phase = "waiting" =>
           bind'[c] = bind[c] /\ bind[c].leader \in Binds /\ bind'[bind[c].leader] = bind[bind[c].leader]
    BY <1>5, <2>1, <2>2 DEF FlightsInv, TypeOK
  <2>4. FlightsInv'
    BY <1>5, <2>2, <2>3 DEF FlightsInv, SameKey
  <2>5. QED BY <1>1, <1>5, <2>1, <2>4
<1>6. ASSUME NEW p \in Pods, NEW w \in Passwords, ReadRow(b, p, w)
      PROVE  \E s \in BindStates : bind' = [bind EXCEPT ![b] = s] /\ s.phase # "waiting"
  <2>1. CASE \E phase \in {"invalid", "unavailable"} : bind' = [bind EXCEPT ![b] = Idle(phase)]
    BY <1>2, <1>3, <2>1
  <2>2. CASE Projected /\ bind' = [bind EXCEPT ![b] =
                        [phase |-> "read", pod |-> p, pw |-> w, leader |-> Nothing,
                         sub |-> [at |-> row.at, epoch |-> row.epoch],
                         read |-> raises, since |-> now]]
    <3>1. row \in Accounts
      BY <1>1, <2>2 DEF Projected
    <3>2. [at |-> row.at, epoch |-> row.epoch] \in Subjects
      BY <3>1 DEF Accounts, Subjects
    <3>3. [phase |-> "read", pod |-> p, pw |-> w, leader |-> Nothing,
           sub |-> [at |-> row.at, epoch |-> row.epoch],
           read |-> raises, since |-> now] \in BindStates
      BY <1>1, <3>2 DEF BindStates, Pending
    <3>4. QED BY <2>2, <3>3
  <2>3. QED BY <1>6, <2>1, <2>2 DEF ReadRow
<1>7. CASE \E p \in Pods, w \in Passwords : ReadRow(b, p, w)
  <2>1. PICK p \in Pods, w \in Passwords : ReadRow(b, p, w)
    BY <1>7
  <2>2. flight' = flight /\ flight[b] = "none"
    BY <1>4, <2>1 DEF ReadRow
  <2>3. PICK s \in BindStates : bind' = [bind EXCEPT ![b] = s] /\ s.phase # "waiting"
    BY <1>6, <2>1
  <2>4. UNCHANGED <<accountVars, budgeted, now, refused>> /\ faults' \in 0..MaxFaults
    BY <1>1, <2>1, BindAssumption DEF ReadRow, Fault, budgetVars, podVars
  <2>5. QED BY <1>5, <2>2, <2>3, <2>4
<1>8. CASE Lookup(b)
  <2>1. flight' = flight /\ flight[b] = "none"
    BY <1>4, <1>8 DEF Lookup
  <2>2. bind' = [bind EXCEPT ![b] = Idle("success")] \/ bind' = [bind EXCEPT ![b].phase = "missed"]
    BY <1>8 DEF Lookup
  <2>3. CASE bind' = [bind EXCEPT ![b] = Idle("success")]
    BY <1>2, <1>3, <1>5, <1>8, <2>1, <2>3, <1>1 DEF Lookup, budgetVars
  <2>4. CASE bind' = [bind EXCEPT ![b].phase = "missed"]
    <3> DEFINE s == [bind[b] EXCEPT !.phase = "missed"]
    <3>1. s \in BindStates /\ s.phase = "missed" /\ bind' = [bind EXCEPT ![b] = s]
      BY <1>1, <2>4 DEF BindStates, Pending
    <3> HIDE DEF s
    <3>2. QED BY <1>1, <1>5, <1>8, <2>1, <3>1 DEF Lookup, budgetVars
  <2>5. QED BY <2>2, <2>3, <2>4
<1>9. CASE Join(b)
  <2>1. bind[b].phase = "missed" /\ flight[b] = "none" /\ UNCHANGED <<accountVars, budgeted, now, refused, faults>>
    BY <1>4, <1>9 DEF Join, budgetVars, podVars
  <2>2. PICK f \in Binds :
          /\ bind' = [bind EXCEPT ![b].phase = "waiting", ![b].leader = f]
          /\ \/ Running(f) /\ SameKey(f, b) /\ flight' = flight
             \/ /\ f = b /\ \A g \in Binds : ~(Running(g) /\ SameKey(g, b))
                /\ flight' = [flight EXCEPT ![b] = "begun"]
    BY <1>9 DEF Join
  <2> DEFINE s == [bind[b] EXCEPT !.phase = "waiting", !.leader = f]
  <2>3. s \in BindStates
    BY <1>1 DEF BindStates, Pending
  <2>4. bind' = [bind EXCEPT ![b] = s]
    BY <1>1, <2>2
  <2>5. s.phase = "waiting" /\ s.leader = f
    BY <1>1 DEF BindStates
  <2>6. s.pod = bind[b].pod /\ s.pw = bind[b].pw /\ s.sub = bind[b].sub
    BY <1>1 DEF BindStates
  <2> HIDE DEF s
  <2>7. /\ bind' \in [Binds -> BindStates] /\ flight' \in [Binds -> Stages]
        /\ bind'[b] = s
        /\ \A c \in Binds \ {b} : bind'[c] = bind[c] /\ flight'[c] = flight[c]
    <3>1. bind \in [Binds -> BindStates] /\ flight \in [Binds -> Stages] /\ b \in Binds
      BY <1>1
    <3>2. flight' = flight \/ flight' = [flight EXCEPT ![b] = "begun"]
      BY <2>2
    <3>. HIDE DEF TypeOK
    <3>. QED  BY <2>3, <2>4, <3>1, <3>2 DEF Stages
  <2>8. \A c, d \in Binds : SameKey(c, d)' <=> SameKey(c, d)
    BY <2>6, <2>7 DEF SameKey
  <2>9. /\ \A c \in Binds \ {b} : Running(c)' <=> Running(c)
        /\ Running(f)' /\ SameKey(f, b)
        /\ Running(b)' => f = b /\ \A g \in Binds : ~(Running(g) /\ SameKey(g, b))
    BY <2>1, <2>2, <2>7 DEF SameKey
  <2>10. FlightsInv'
    <3>1. \A c \in Binds : Running(c)' =>
            /\ bind'[c].phase \in {"waiting", "unavailable"}
            /\ bind'[c].phase = "waiting" => bind'[c].leader = c
      BY <2>5, <2>7, <2>9 DEF FlightsInv
    <3>2. \A c, d \in Binds : Running(c)' /\ Running(d)' /\ SameKey(c, d) => c = d
      BY <2>9 DEF FlightsInv, SameKey
    <3>3. \A c \in Binds \ {b} : bind'[c].phase = "waiting" =>
            /\ bind[c].leader \in Binds /\ Running(bind[c].leader) /\ bind[c].leader # b
            /\ SameKey(bind[c].leader, c)
      BY <2>1, <2>7 DEF FlightsInv, TypeOK
    <3>4. ASSUME NEW c \in Binds, bind'[c].phase = "waiting"
          PROVE  (flight[bind[c].leader] # "none" /\ SameKey(bind[c].leader, c))'
      <4>1. CASE c = b
        BY <2>5, <2>7, <2>8, <2>9, <4>1
      <4>2. CASE c # b
        BY <2>7, <2>8, <2>9, <3>3, <3>4, <4>2
      <4>3. QED BY <4>1, <4>2
    <3>5. QED BY <2>8, <3>1, <3>2, <3>4 DEF FlightsInv
  <2>11. QED BY <1>1, <2>1, <2>5, <2>7, <2>10
<1>10. CASE Deadline(b)
  <2>1. bind[b].phase = "waiting" /\ flight' = flight
        /\ UNCHANGED <<accountVars, budgeted, now, refused, faults>>
    BY <1>10 DEF Deadline, budgetVars, podVars
  <2>2. CASE flight[b] = "none"
    BY <1>1, <1>2, <1>3, <1>5, <1>10, <2>1, <2>2 DEF Deadline
  <2>3. CASE flight[b] # "none"
    <3> DEFINE s == [bind[b] EXCEPT !.phase = "unavailable"]
    <3>1. bind' = [bind EXCEPT ![b] = s]
      BY <1>1, <1>10, <2>3 DEF Deadline
    <3>2. s \in BindStates /\ s.phase = "unavailable"
      BY <1>1 DEF BindStates, Replies
    <3>3. s.pod = bind[b].pod /\ s.pw = bind[b].pw /\ s.sub = bind[b].sub
      BY <1>1 DEF BindStates
    <3> HIDE DEF s
    <3>4. /\ bind' \in [Binds -> BindStates] /\ bind'[b] = s
          /\ \A c \in Binds \ {b} : bind'[c] = bind[c]
      BY <1>1, <3>1, <3>2
    <3>5. \A c, d \in Binds : SameKey(c, d)' <=> SameKey(c, d)
      BY <3>3, <3>4 DEF SameKey
    <3>6. \A c \in Binds : bind'[c].phase = "waiting" => bind'[c] = bind[c]
      BY <3>2, <3>4
    <3>7. FlightsInv'
      <4>1. \A c \in Binds : Running(c)' =>
              /\ bind'[c].phase \in {"waiting", "unavailable"}
              /\ bind'[c].phase = "waiting" => bind'[c].leader = c
        BY <2>1, <3>2, <3>4 DEF FlightsInv
      <4>2. \A c, d \in Binds : Running(c)' /\ Running(d)' /\ SameKey(c, d) => c = d
        BY <2>1 DEF FlightsInv
      <4>3. ASSUME NEW c \in Binds, bind'[c].phase = "waiting"
            PROVE  (flight[bind[c].leader] # "none" /\ SameKey(bind[c].leader, c))'
        <5>1. bind'[c] = bind[c] /\ bind[c].leader \in Binds
          BY <3>6, <4>3 DEF TypeOK
        <5>2. flight[bind[c].leader] # "none" /\ SameKey(bind[c].leader, c)
          BY <4>3, <5>1 DEF FlightsInv
        <5>3. QED BY <2>1, <3>5, <5>1, <5>2
      <4>4. QED BY <3>5, <4>1, <4>2, <4>3 DEF FlightsInv
    <3>8. QED BY <1>1, <2>1, <3>2, <3>4, <3>7
  <2>4. QED BY <2>2, <2>3
<1>11. QED BY <1>7, <1>8, <1>9, <1>10 DEF Handler

-----------------------------------------------------------------------------
(* The memory of refusals.                                                 *)

LEMMA LeastOf ==
    ASSUME NEW T, T \subseteq Nat, T # {}
    PROVE  \E x \in T : \A y \in T : x <= y
<1>1. PICK x \in T : \A y \in T : <<y, x>> \notin OpToRel(<, Nat)
  BY NatLessThanWellFounded, WFMin, Zenon
<1>2. \A y \in T : ~(y < x)
  BY <1>1 DEF OpToRel
<1>3. QED BY <1>2

\* Without the oldest there is one less.
LEMMA YoungerIsSmaller ==
    ASSUME NEW macs \in SUBSET Refusals, IsFiniteSet(macs), Bounded(macs), macs # {}
    PROVE  Cardinality(Younger(macs)) <= Cardinality(macs) - 1
<1> DEFINE T == {n \in Nat : \A r \in macs : r.age <= n}
<1>1. PICK n \in T : \A m \in T : n <= m
  BY LeastOf DEF Bounded
<1>2. \A r \in macs : r.age \in Nat
  BY DEF Refusals
<1>3. PICK o \in macs : o.age = n
  <2>1. CASE n = 0
    BY <1>2, <2>1
  <2>2. CASE n # 0
    <3>1. n - 1 \in Nat /\ n - 1 \notin T
      BY <1>1, <2>2
    <3>2. QED BY <1>2, <3>1
  <2>3. QED BY <2>1, <2>2
<1>4. o \notin Younger(macs)
  BY <1>1, <1>2, <1>3 DEF Younger
<1>5. Younger(macs) \subseteq macs \ {o}
  BY <1>4 DEF Younger
<1>6. IsFiniteSet(macs \ {o}) /\ Cardinality(macs \ {o}) = Cardinality(macs) - 1
  BY FS_RemoveElement
<1>7. QED BY <1>5, <1>6, FS_Subset

\* What replaces the refusals one by one is no more than they were.
LEMMA NoMore ==
    ASSUME NEW S, IsFiniteSet(S), NEW T, NEW f \in [S -> T], \A y \in T : \E x \in S : f[x] = y
    PROVE  IsFiniteSet(T) /\ Cardinality(T) <= Cardinality(S)
<1>1. f \in Surjection(S, T)
  BY DEF Surjection
<1>2. QED BY <1>1, FS_Surjection

LEMMA ExtendedFacts ==
    ASSUME NEW macs \in SUBSET Refusals, IsFiniteSet(macs), Bounded(macs),
           NEW w \in Passwords, now \in Nat
    PROVE  /\ Extended(macs, w) \subseteq Refusals
           /\ IsFiniteSet(Extended(macs, w))
           /\ Cardinality(Extended(macs, w)) <= Cardinality(macs)
           /\ Bounded(Extended(macs, w))
           /\ \A r \in Extended(macs, w) :
                r.pw = w \/ \E q \in macs : q.pw = r.pw /\ q.expires = r.expires
<1> DEFINE e(r) == IF r.pw = w THEN [r EXCEPT !.expires = now + Window] ELSE r
           f == [r \in macs |-> e(r)]
<1>1. \A r \in macs : e(r) \in Refusals
  BY BudgetAssumption DEF Refusals
<1>2. \A r \in macs : e(r).pw = r.pw /\ (r.pw # w => e(r).expires = r.expires)
  BY DEF Refusals
<1>3. \A r \in macs : e(r).age = r.age
  BY DEF Refusals
<1>4. Extended(macs, w) = {e(r) : r \in macs}
  BY DEF Extended
<1> HIDE DEF e
<1>5. f \in [macs -> Extended(macs, w)] /\ \A y \in Extended(macs, w) : \E x \in macs : f[x] = y
  BY <1>4
<1>6. IsFiniteSet(Extended(macs, w)) /\ Cardinality(Extended(macs, w)) <= Cardinality(macs)
  BY <1>5, NoMore
<1>7. Bounded(Extended(macs, w))
  BY <1>3, <1>4 DEF Bounded
<1>8. QED BY <1>1, <1>2, <1>4, <1>6, <1>7

LEMMA BehindFacts ==
    ASSUME NEW macs \in SUBSET Refusals, IsFiniteSet(macs), Bounded(macs),
           NEW w \in Passwords, now \in Nat
    PROVE  /\ Behind(macs, w) \subseteq Refusals
           /\ IsFiniteSet(Behind(macs, w))
           /\ Cardinality(Behind(macs, w)) <= Cardinality(macs) + 1
           /\ Bounded(Behind(macs, w))
           /\ \A r \in Behind(macs, w) :
                r.pw = w \/ \E q \in macs : q.pw = r.pw /\ q.expires = r.expires
<1> DEFINE e(r) == [r EXCEPT !.age = @ + 1]
           f == [r \in macs |-> e(r)]
           olds == {e(r) : r \in macs}
           new == [pw |-> w, expires |-> now + Window, age |-> 0]
<1>1. \A r \in macs : e(r) \in Refusals
  BY DEF Refusals
<1>2. \A r \in macs : e(r).pw = r.pw /\ e(r).expires = r.expires
  BY DEF Refusals
<1>3. \A r \in macs : e(r).age = r.age + 1 /\ r.age \in Nat
  BY DEF Refusals
<1>4. Behind(macs, w) = olds \cup {new}
  BY DEF Behind
<1>5. new \in Refusals /\ new.pw = w /\ new.age = 0
  BY BudgetAssumption DEF Refusals
<1> HIDE DEF e, new
<1>6. f \in [macs -> olds] /\ \A y \in olds : \E x \in macs : f[x] = y
  OBVIOUS
<1>7. IsFiniteSet(olds) /\ Cardinality(olds) <= Cardinality(macs)
  BY <1>6, NoMore
<1>8. IsFiniteSet(Behind(macs, w)) /\ Cardinality(Behind(macs, w)) <= Cardinality(macs) + 1
  <2> HIDE DEF olds
  <2>1. IsFiniteSet(olds \cup {new})
        /\ Cardinality(olds \cup {new}) = IF new \in olds THEN Cardinality(olds) ELSE Cardinality(olds) + 1
    BY <1>7, FS_AddElement
  <2>2. Cardinality(olds) \in Nat /\ Cardinality(macs) \in Nat
    BY <1>7, FS_CardinalityType
  <2>3. QED BY <1>4, <1>7, <2>1, <2>2
<1>9. Bounded(Behind(macs, w))
  <2>1. PICK n \in Nat : \A r \in macs : r.age <= n
    BY DEF Bounded
  <2>2. \A r \in Behind(macs, w) : r.age <= n + 1
    BY <1>3, <1>4, <1>5, <2>1
  <2>3. n + 1 \in Nat
    BY <2>1
  <2>4. QED BY <2>2, <2>3 DEF Bounded
<1>10. QED BY <1>1, <1>2, <1>4, <1>5, <1>8, <1>9

\* Remembering a refusal keeps to the limit, and remembers of no other password.
LEMMA NotedFacts ==
    ASSUME NEW macs \in SUBSET Refusals, IsFiniteSet(macs), Bounded(macs),
           Cardinality(macs) <= PerUser, NEW w \in Passwords, now \in Nat
    PROVE  /\ Noted(macs, w) \subseteq Refusals
           /\ IsFiniteSet(Noted(macs, w))
           /\ Cardinality(Noted(macs, w)) <= PerUser
           /\ Bounded(Noted(macs, w))
           /\ \A r \in Noted(macs, w) :
                r.pw = w \/ \E q \in macs : q.pw = r.pw /\ q.expires = r.expires
<1>1. Cardinality(macs) \in Nat
  BY FS_CardinalityType
<1>2. CASE \E r \in macs : r.pw = w
  <2>1. Noted(macs, w) = Extended(macs, w)
    BY <1>2 DEF Noted
  <2>2. IsFiniteSet(Extended(macs, w))
    BY ExtendedFacts
  <2>3. Cardinality(Extended(macs, w)) \in Nat
    BY <2>2, FS_CardinalityType
  <2>4. QED BY <1>1, <2>1, <2>3, ExtendedFacts, BindAssumption
<1>3. CASE ~\E r \in macs : r.pw = w
  <2> DEFINE kept == IF Cardinality(macs) >= PerUser THEN Younger(macs) ELSE macs
  <2>1. Noted(macs, w) = Behind(kept, w)
    BY <1>3 DEF Noted
  <2>2. kept \subseteq macs
    BY DEF Younger
  <2>3. IsFiniteSet(kept) /\ Cardinality(kept) \in Nat
    BY <2>2, FS_Subset, FS_CardinalityType
  <2>4. Bounded(kept)
    BY <2>2 DEF Bounded
  <2>5. Cardinality(kept) <= PerUser - 1
    <3>1. CASE Cardinality(macs) >= PerUser
      <4>1. macs # {}
        BY <3>1, BindAssumption, FS_EmptySet
      <4>2. Cardinality(Younger(macs)) <= Cardinality(macs) - 1
        BY <4>1, YoungerIsSmaller
      <4>3. QED BY <1>1, <2>3, <3>1, <4>2, BindAssumption
    <3>2. CASE ~(Cardinality(macs) >= PerUser)
      BY <1>1, <3>2, BindAssumption
    <3>3. QED BY <3>1, <3>2
  <2> HIDE DEF kept
  <2>6. /\ Behind(kept, w) \subseteq Refusals
        /\ IsFiniteSet(Behind(kept, w))
        /\ Cardinality(Behind(kept, w)) <= Cardinality(kept) + 1
        /\ Bounded(Behind(kept, w))
        /\ \A r \in Behind(kept, w) :
             r.pw = w \/ \E q \in kept : q.pw = r.pw /\ q.expires = r.expires
    BY <2>2, <2>3, <2>4, BehindFacts
  <2>7. Cardinality(Behind(kept, w)) \in Nat
    BY <2>6, FS_CardinalityType
  <2>8. Cardinality(Behind(kept, w)) <= PerUser
    BY <2>3, <2>5, <2>6, <2>7, BindAssumption
  <2>9. QED BY <2>1, <2>2, <2>6, <2>8
<1>4. QED BY <1>2, <1>3

\* What a pod's record becomes.
LEMMA RecordedFacts ==
    ASSUME NEW s \in Subjects, NEW macs \in SUBSET Refusals, IsFiniteSet(macs), Bounded(macs),
           Cardinality(macs) <= PerUser
    PROVE  \/ Recorded(s, macs) = Nothing
           \/ /\ Recorded(s, macs) \in [sub : Subjects, macs : SUBSET Refusals]
              /\ Recorded(s, macs).sub = s /\ Recorded(s, macs).macs = macs
              /\ Cardinality(macs) \in 1..PerUser
<1>1. Cardinality(macs) \in Nat /\ (macs # {} => Cardinality(macs) # 0)
  BY FS_CardinalityType, FS_EmptySet
<1>2. QED BY <1>1, BindAssumption DEF Recorded

LEMMA CurrentFacts ==
    ASSUME TypeOK, MemoryInv, NEW p \in Pods, NEW s
    PROVE  /\ Current(p, s) \in SUBSET Refusals
           /\ IsFiniteSet(Current(p, s)) /\ Bounded(Current(p, s))
           /\ Cardinality(Current(p, s)) <= PerUser
           /\ Current(p, s) # {} => /\ refused[p] # Nothing /\ refused[p].sub = s
                                    /\ Current(p, s) \subseteq refused[p].macs
<1>1. CASE refused[p] = Nothing \/ refused[p].sub # s
  <2>1. Current(p, s) = {}
    BY <1>1 DEF Current
  <2>2. QED BY <2>1, FS_EmptySet, BindAssumption DEF Bounded
<1>2. CASE ~(refused[p] = Nothing \/ refused[p].sub # s)
  <2>1. Current(p, s) \subseteq refused[p].macs
    BY <1>2 DEF Current
  <2>2. /\ refused[p].macs \in SUBSET Refusals /\ IsFiniteSet(refused[p].macs)
        /\ Bounded(refused[p].macs) /\ Cardinality(refused[p].macs) \in 1..PerUser
    BY <1>2 DEF TypeOK, MemoryInv
  <2>3. Cardinality(Current(p, s)) <= Cardinality(refused[p].macs) /\ IsFiniteSet(Current(p, s))
    BY <2>1, <2>2, FS_Subset
  <2>4. Cardinality(Current(p, s)) \in Nat
    BY <2>3, FS_CardinalityType
  <2>5. Cardinality(Current(p, s)) <= PerUser
    BY <2>2, <2>3, <2>4, BindAssumption
  <2>6. QED BY <1>2, <2>1, <2>2, <2>3, <2>5 DEF Bounded
<1>3. QED BY <1>1, <1>2

Remembered == [sub : Subjects, macs : SUBSET Refusals]

\* What a pod remembers after a step it remembered before, of the same reading of the
\* row, or it was refused just now.
MemoryStep ==
    /\ refused' \in [Pods -> Remembered \cup {Nothing}]
    /\ \A p \in Pods : refused'[p] # Nothing =>
         /\ Cardinality(refused'[p].macs) \in 1..PerUser
         /\ IsFiniteSet(refused'[p].macs) /\ Bounded(refused'[p].macs)
         /\ \A r \in refused'[p].macs :
              \/ /\ refused[p] # Nothing /\ refused'[p].sub = refused[p].sub
                 /\ \E q \in refused[p].macs : q.pw = r.pw /\ q.expires = r.expires
              \/ \E f \in Binds : /\ Reject(f)
                                  /\ bind[f].pod = p /\ bind[f].sub = refused'[p].sub
                                  /\ bind[f].pw = r.pw

LEMMA MemoryOfRow ==
    ASSUME TypeOK, MemoryInv, NEW p \in Pods, NEW s \in Subjects, NEW macs \in SUBSET Refusals,
           IsFiniteSet(macs), Bounded(macs), Cardinality(macs) <= PerUser,
           refused' = [refused EXCEPT ![p] = Recorded(s, macs)],
           \A r \in macs : \/ \E q \in Current(p, s) : q.pw = r.pw /\ q.expires = r.expires
                           \/ \E f \in Binds : /\ Reject(f) /\ bind[f].pod = p
                                               /\ bind[f].sub = s /\ bind[f].pw = r.pw
    PROVE  MemoryStep
<1>1. refused \in [Pods -> Remembered \cup {Nothing}]
  BY DEF TypeOK, Remembered
<1>2. refused'[p] = Recorded(s, macs) /\ \A q \in Pods \ {p} : refused'[q] = refused[q]
  BY <1>1
<1>3. \/ refused'[p] = Nothing
      \/ /\ refused'[p] \in Remembered
         /\ refused'[p].sub = s /\ refused'[p].macs = macs
         /\ Cardinality(macs) \in 1..PerUser
  BY <1>2, RecordedFacts DEF Remembered
<1>4. refused' \in [Pods -> Remembered \cup {Nothing}]
  BY <1>1, <1>3
<1>5. Current(p, s) # {} => /\ refused[p] # Nothing /\ refused[p].sub = s
                            /\ Current(p, s) \subseteq refused[p].macs
  BY CurrentFacts
<1>6. \A q \in Pods : q # p /\ refused'[q] # Nothing =>
        /\ Cardinality(refused[q].macs) \in 1..PerUser
        /\ IsFiniteSet(refused[q].macs) /\ Bounded(refused[q].macs)
  BY <1>2 DEF TypeOK, MemoryInv
<1>7. \A r \in macs :
        \/ /\ refused[p] # Nothing /\ refused[p].sub = s
           /\ \E q \in refused[p].macs : q.pw = r.pw /\ q.expires = r.expires
        \/ \E f \in Binds : /\ Reject(f) /\ bind[f].pod = p
                            /\ bind[f].sub = s /\ bind[f].pw = r.pw
  BY <1>5
<1>8. ASSUME NEW q \in Pods, refused'[q] # Nothing
      PROVE  /\ Cardinality(refused'[q].macs) \in 1..PerUser
             /\ IsFiniteSet(refused'[q].macs) /\ Bounded(refused'[q].macs)
             /\ \A r \in refused'[q].macs :
                  \/ /\ refused[q] # Nothing /\ refused'[q].sub = refused[q].sub
                     /\ \E x \in refused[q].macs : x.pw = r.pw /\ x.expires = r.expires
                  \/ \E f \in Binds : /\ Reject(f)
                                      /\ bind[f].pod = q /\ bind[f].sub = refused'[q].sub
                                      /\ bind[f].pw = r.pw
  <2>1. CASE q = p
    BY <1>3, <1>7, <1>8, <2>1
  <2>2. CASE q # p
    BY <1>2, <1>6, <1>8, <2>2
  <2>3. QED BY <2>1, <2>2
<1>9. QED BY <1>4, <1>8 DEF MemoryStep

LEMMA MemoryKept ==
    ASSUME TypeOK, MemoryInv, \A p \in Pods : refused'[p] \in {refused[p], Nothing},
           refused' \in [Pods -> Remembered \cup {Nothing}]
    PROVE  MemoryStep
<1>1. \A p \in Pods : refused'[p] # Nothing =>
        /\ refused'[p] = refused[p]
        /\ Cardinality(refused[p].macs) \in 1..PerUser
        /\ IsFiniteSet(refused[p].macs) /\ Bounded(refused[p].macs)
  BY DEF TypeOK, MemoryInv
<1>2. QED BY <1>1 DEF MemoryStep

LEMMA MemoryNext ==
    ASSUME TypeOK, MemoryInv, FlightsInv, clerk # <<>>, [Next]_vars
    PROVE  MemoryStep
<1>1. refused \in [Pods -> Remembered \cup {Nothing}] /\ now \in Nat
      /\ bind \in [Binds -> BindStates]
  BY DEF TypeOK, Remembered, BudgetTypeOK
<1>2. CASE refused' = refused
  BY <1>1, <1>2, MemoryKept
<1>3. ASSUME NEW b \in Binds, Handler(b) PROVE MemoryStep
  BY <1>2, <1>3, HandlerMoves
<1>4. ASSUME NEW f \in Binds, Admit(f) PROVE MemoryStep
  <2>1. bind[f].pod \in Pods /\ bind[f].sub \in Subjects
    BY <1>1 DEF BindStates
  <2>2. CASE budgeted
    <3> DEFINE macs == Current(bind[f].pod, bind[f].sub)
    <3>1. refused' = [refused EXCEPT ![bind[f].pod] = Recorded(bind[f].sub, macs)]
      BY <1>4, <2>2 DEF Admit
    <3>2. /\ macs \in SUBSET Refusals /\ IsFiniteSet(macs) /\ Bounded(macs)
          /\ Cardinality(macs) <= PerUser
      BY <2>1, CurrentFacts
    <3>3. \A r \in macs : \E q \in Current(bind[f].pod, bind[f].sub) :
            q.pw = r.pw /\ q.expires = r.expires
      OBVIOUS
    <3> HIDE DEF macs
    <3>4. QED BY <2>1, <3>1, <3>2, <3>3, MemoryOfRow
  <2>3. CASE ~budgeted
    BY <1>2, <1>4, <2>3 DEF Admit
  <2>4. QED BY <2>2, <2>3
<1>5. ASSUME NEW f \in Binds, Reject(f) PROVE MemoryStep
  <2>1. bind[f].pod \in Pods /\ bind[f].sub \in Subjects /\ bind[f].pw \in Passwords
    BY <1>1 DEF BindStates
  <2> DEFINE macs == Noted(Current(bind[f].pod, bind[f].sub), bind[f].pw)
  <2>2. CASE refused' = refused
    BY <1>2, <2>2
  <2>3. CASE refused' = [refused EXCEPT ![bind[f].pod] = Recorded(bind[f].sub, macs)]
    <3>1. /\ macs \in SUBSET Refusals /\ IsFiniteSet(macs) /\ Bounded(macs)
          /\ Cardinality(macs) <= PerUser
          /\ \A r \in macs : \/ r.pw = bind[f].pw
                             \/ \E q \in Current(bind[f].pod, bind[f].sub) :
                                  q.pw = r.pw /\ q.expires = r.expires
      BY <1>1, <2>1, CurrentFacts, NotedFacts
    <3> HIDE DEF macs
    <3>2. \A r \in macs : \/ \E q \in Current(bind[f].pod, bind[f].sub) :
                               q.pw = r.pw /\ q.expires = r.expires
                          \/ \E g \in Binds : /\ Reject(g) /\ bind[g].pod = bind[f].pod
                                              /\ bind[g].sub = bind[f].sub /\ bind[g].pw = r.pw
      BY <1>5, <3>1
    <3>3. QED BY <2>1, <2>3, <3>1, <3>2, MemoryOfRow
  <2>4. QED BY <1>5, <2>2, <2>3 DEF Reject
<1>6. ASSUME NEW f \in Binds, TakeSlot(f) \/ Verify(f) \/ Succeed(f) \/ Silent(f) \/ Panic(f)
      PROVE  MemoryStep
  BY <1>2, <1>6 DEF TakeSlot, Verify, Succeed, Silent, Panic, podVars
<1>7. ASSUME NEW p \in Pods, Restart(p) PROVE MemoryStep
  BY <1>1, <1>7, MemoryKept DEF Restart
<1>8. CASE Tick \/ ClerkSide \/ UNCHANGED vars
  BY <1>2, <1>8 DEF Tick, ClerkSide, vars, podVars
<1>9. QED BY <1>3, <1>4, <1>5, <1>6, <1>7, <1>8 DEF Next, Verification

-----------------------------------------------------------------------------
(* Type correctness.                                                       *)

LEMMA AccountsNext ==
    ASSUME TypeOK, clerk # <<>>, [Next]_vars
    PROVE  AccountsTypeOK' /\ clerk' # <<>>
<1>1. CASE UNCHANGED accountVars
  BY <1>1 DEF accountVars, TypeOK, AccountsTypeOK
<1>2. CASE ClerkChanges(now)
  <2>1. PICK p \in Passwords, h \in BOOLEAN :
           clerk' = Append(clerk, [pw |-> p, hosted |-> h, since |-> now])
    BY <1>2 DEF ClerkChanges
  <2>2. [pw |-> p, hosted |-> h, since |-> now] \in Versions /\ clerk \in Seq(Versions)
    BY DEF TypeOK, AccountsTypeOK, BudgetTypeOK, Versions
  <2>3. clerk' \in Seq(Versions) /\ Len(clerk') = Len(clerk) + 1 /\ clerk' # <<>>
    BY <2>1, <2>2
  <2>4. undelivered' \subseteq DOMAIN clerk'
    BY <1>2, <2>2, <2>3 DEF ClerkChanges, TypeOK, AccountsTypeOK
  <2>5. QED BY <1>2, <2>3, <2>4 DEF ClerkChanges, TypeOK, AccountsTypeOK
<1>3. ASSUME NEW v \in undelivered, Deliver(v) PROVE AccountsTypeOK' /\ clerk' # <<>>
  <2>1. v \in Nat /\ clerk' = clerk /\ raises' = raises /\ undelivered' \subseteq undelivered
        /\ clerk \in Seq(Versions)
    BY <1>3 DEF Deliver, TypeOK, AccountsTypeOK
  <2>2. Upserted(v) \in Accounts
    BY <2>1 DEF Upserted, TypeOK, AccountsTypeOK, Accounts
  <2>3. row' \in Accounts \cup {NoAccount}
    BY <1>3, <2>2 DEF Deliver
  <2>4. undelivered' \subseteq DOMAIN clerk'
    BY <2>1 DEF TypeOK, AccountsTypeOK
  <2>5. QED BY <2>1, <2>3, <2>4 DEF TypeOK, AccountsTypeOK
<1>4. CASE Activate
  BY <1>4 DEF Activate, TypeOK, AccountsTypeOK, Accounts
<1>5. CASE RaiseCredentialEpoch
  <2>1. row \in Accounts /\ row' = [row EXCEPT !.epoch = @ + 1] /\ raises' = raises + 1
        /\ clerk' = clerk /\ undelivered' = undelivered
    BY <1>5 DEF RaiseCredentialEpoch, TypeOK, AccountsTypeOK
  <2>2. row' \in Accounts
    BY <2>1 DEF Accounts
  <2>3. QED BY <2>1, <2>2 DEF TypeOK, AccountsTypeOK
<1>6. CASE ClerkSide
  BY <1>2, <1>3, <1>4, <1>5, <1>6 DEF ClerkSide
<1>7. ASSUME NEW f \in Binds, Verification(f) PROVE UNCHANGED accountVars
  BY <1>7 DEF Verification, Admit, TakeSlot, Verify, Succeed, Reject, Silent, Panic
<1>8. CASE \/ \E b \in Binds : Handler(b)
           \/ \E p \in Pods : Restart(p)
           \/ Tick
           \/ UNCHANGED vars
  BY <1>1, <1>8 DEF Handler, ReadRow, Lookup, Join, Deadline, Restart, Tick, vars
<1>9. QED BY <1>1, <1>6, <1>7, <1>8 DEF Next

\* What becomes of a pod's entry: it stays, goes, or is what a verification found.
LEMMA CacheNext ==
    ASSUME TypeOK, FlightsInv, clerk # <<>>, [Next]_vars
    PROVE  /\ cache' \in [Pods -> Entries \cup {Nothing}]
           /\ \A p \in Pods :
                \/ cache'[p] \in {cache[p], Nothing}
                \/ \E f \in Binds :
                     /\ flight[f] = "verified"
                     /\ cache'[p] = [pw |-> bind[f].pw, sub |-> bind[f].sub,
                                     expires |-> now + Ttl, read |-> bind[f].read]
<1>1. /\ cache \in [Pods -> Entries \cup {Nothing}] /\ now \in Nat
      /\ bind \in [Binds -> BindStates]
  BY DEF TypeOK, BudgetTypeOK
<1>2. CASE cache' = cache
  BY <1>1, <1>2
<1>3. ASSUME NEW b \in Binds, Lookup(b) PROVE \A p \in Pods : cache'[p] \in {cache[p], Nothing}
  BY <1>1, <1>3 DEF Lookup
<1>4. ASSUME NEW f \in Binds, Succeed(f)
      PROVE  /\ cache' \in [Pods -> Entries \cup {Nothing}]
             /\ \A p \in Pods :
                \/ cache'[p] = cache[p]
                \/ /\ flight[f] = "verified"
                   /\ cache'[p] = [pw |-> bind[f].pw, sub |-> bind[f].sub,
                                   expires |-> now + Ttl, read |-> bind[f].read]
  <2>1. [pw |-> bind[f].pw, sub |-> bind[f].sub, expires |-> now + Ttl, read |-> bind[f].read]
          \in Entries
    BY <1>1, BindAssumption DEF BindStates, Entries
  <2>2. QED BY <1>1, <1>4, <2>1 DEF Succeed
<1>5. ASSUME NEW q \in Pods, Restart(q) PROVE \A p \in Pods : cache'[p] \in {cache[p], Nothing}
  BY <1>1, <1>5 DEF Restart
<1>6. CASE \/ \E b \in Binds : Lookup(b)
           \/ \E q \in Pods : Restart(q)
  <2>1. \A p \in Pods : cache'[p] \in {cache[p], Nothing}
    BY <1>3, <1>5, <1>6
  <2>2. cache' \in [Pods -> Entries \cup {Nothing}]
    BY <1>1, <1>6 DEF Lookup, Restart
  <2>3. QED BY <2>1, <2>2
<1>7. CASE cache' # cache
  BY <1>4, <1>6, <1>7 DEF Next, Handler, ReadRow, Join, Deadline, Verification, Admit, TakeSlot,
     Verify, Reject, Silent, Panic, Tick, ClerkSide, vars, podVars
<1>8. QED BY <1>2, <1>7

LEMMA TokensNext ==
    ASSUME TypeOK, [Next]_vars
    PROVE  tokens' \in [Pods -> 0..Burst]
<1>1. tokens \in [Pods -> 0..Burst] /\ Burst \in Nat /\ Refill \in Nat
  BY BindAssumption DEF TypeOK
<1>2. ASSUME NEW f \in Binds, Admit(f) PROVE tokens' \in [Pods -> 0..Burst]
  <2>1. bind[f].pod \in Pods
    BY DEF TypeOK, BindStates
  <2>2. QED BY <1>1, <1>2, <2>1 DEF Admit
<1>3. CASE Tick
  BY <1>1, <1>3 DEF Tick
<1>4. ASSUME NEW p \in Pods, Restart(p) PROVE tokens' \in [Pods -> 0..Burst]
  BY <1>1, <1>4 DEF Restart
<1>5. CASE tokens' = tokens
  BY <1>1, <1>5
<1>6. QED
  BY <1>2, <1>3, <1>4, <1>5 DEF Next, Handler, ReadRow, Lookup, Join, Deadline, Verification,
     TakeSlot, Verify, Succeed, Reject, Silent, Panic, ClerkSide, vars, podVars

LEMMA FaultsNext ==
    ASSUME TypeOK, [Next]_vars
    PROVE  faults' \in 0..MaxFaults
<1>1. faults \in 0..MaxFaults /\ MaxFaults \in Nat
  BY BindAssumption DEF TypeOK
<1>2. CASE Fault
  BY <1>1, <1>2 DEF Fault
<1>3. CASE faults' = faults
  BY <1>1, <1>3
<1>4. QED
  BY <1>2, <1>3 DEF Next, Handler, ReadRow, Lookup, Join, Deadline, Verification, Admit,
     TakeSlot, Verify, Succeed, Reject, Silent, Panic, GiveBack, Restart, Tick, ClerkSide, vars

LEMMA BindsNext ==
    ASSUME TypeOK, FlightsInv, clerk # <<>>, [Next]_vars
    PROVE  /\ bind' \in [Binds -> BindStates] /\ flight' \in [Binds -> Stages]
           /\ \A b \in Binds : bind'[b].phase = "waiting" => bind'[b].leader \in Binds
           /\ FlightsInv'
           /\ budgeted' = budgeted
<1>1. ASSUME NEW b \in Binds, Handler(b)
      PROVE  /\ bind' \in [Binds -> BindStates] /\ flight' \in [Binds -> Stages]
             /\ \A c \in Binds : bind'[c].phase = "waiting" => bind'[c].leader \in Binds
             /\ FlightsInv' /\ budgeted' = budgeted
  BY <1>1, HandlerMoves DEF TypeOK
<1>2. ASSUME NEW f \in Binds, Verification(f)
      PROVE  /\ bind' \in [Binds -> BindStates] /\ flight' \in [Binds -> Stages]
             /\ \A c \in Binds : bind'[c].phase = "waiting" => bind'[c].leader \in Binds
             /\ FlightsInv' /\ budgeted' = budgeted
  <2>1. Ending(f) /\ budgeted' = budgeted
    BY <1>2, VerificationEnds
  <2>2. QED BY <2>1, FlightsStay DEF Ending
<1>3. ASSUME NEW p \in Pods, Restart(p)
      PROVE  /\ bind' \in [Binds -> BindStates] /\ flight' \in [Binds -> Stages]
             /\ \A c \in Binds : bind'[c].phase = "waiting" => bind'[c].leader \in Binds
             /\ FlightsInv' /\ budgeted' = budgeted
  <2>1. budgeted' = budgeted
    BY <1>3 DEF Restart
  <2>2. QED BY <1>3, <2>1, RestartEnds, FlightsStay
<1>4. CASE Tick \/ ClerkSide \/ UNCHANGED vars
  <2>1. UNCHANGED <<bind, flight, budgeted>>
    BY <1>4 DEF Tick, ClerkSide, vars
  <2>2. QED BY <2>1 DEF TypeOK, FlightsInv, Running, SameKey
<1>5. QED BY <1>1, <1>2, <1>3, <1>4 DEF Next

LEMMA TypeNext ==
    ASSUME TypeOK, FlightsInv, MemoryInv, clerk # <<>>, [Next]_vars, BudgetTypeOK'
    PROVE  TypeOK' /\ FlightsInv' /\ MemoryInv' /\ clerk' # <<>>
<1>1. MemoryStep
  BY MemoryNext
<1>2. MemoryInv'
  BY <1>1 DEF MemoryInv, MemoryStep
<1>3. budgeted' \in BOOLEAN
  BY BindsNext DEF TypeOK
<1>4. TypeOK'
  BY <1>1, <1>3, AccountsNext, CacheNext, TokensNext, FaultsNext, BindsNext
     DEF TypeOK, MemoryStep, Remembered
<1>5. QED BY <1>2, <1>4, AccountsNext, BindsNext

-----------------------------------------------------------------------------
(* What was read.                                                          *)

\* The bind goes on with what it read.
GoesOn(b) ==
    /\ Open(b)
    /\ bind'[b].pod = bind[b].pod /\ bind'[b].pw = bind[b].pw
    /\ bind'[b].sub = bind[b].sub /\ bind'[b].read = bind[b].read
    /\ bind'[b].since = bind[b].since

\* The bind reads the row.
Begins(b) ==
    /\ row # NoAccount
    /\ bind'[b].sub = [at |-> row.at, epoch |-> row.epoch]
    /\ bind'[b].read = raises /\ bind'[b].since = now
    /\ flight'[b] = "none"

LEMMA HandlerReads ==
    ASSUME TypeOK, FlightsInv, clerk # <<>>, NEW b \in Binds, Handler(b), Open(b)'
    PROVE  GoesOn(b) \/ Begins(b)
<1> USE DEF Running, Open
<1>1. bind \in [Binds -> BindStates] /\ flight \in [Binds -> Stages]
  BY DEF TypeOK
<1>2. \A phase \in Replies : Idle(phase).phase = phase /\ phase \notin Pending
  BY IdleType DEF Replies, Pending
<1>3. bind[b].phase \in {"new", "read", "missed"} => flight[b] = "none"
  BY DEF FlightsInv
<1>4. \A reply \in Replies : ~(bind' = [bind EXCEPT ![b] = Idle(reply)] /\ flight'[b] = "none")
  BY <1>1, <1>2
<1>5. CASE \E p \in Pods, w \in Passwords : ReadRow(b, p, w)
  <2>1. PICK p \in Pods, w \in Passwords : ReadRow(b, p, w)
    BY <1>5
  <2>2. flight'[b] = "none"
    BY <1>3, <2>1 DEF ReadRow
  <2>3. Projected /\ bind' = [bind EXCEPT ![b] =
                        [phase |-> "read", pod |-> p, pw |-> w, leader |-> Nothing,
                         sub |-> [at |-> row.at, epoch |-> row.epoch],
                         read |-> raises, since |-> now]]
    BY <1>4, <2>1, <2>2 DEF ReadRow, Replies
  <2>4. QED BY <1>1, <2>2, <2>3 DEF Projected, Begins
<1>6. ASSUME NEW phase, bind' = [bind EXCEPT ![b].phase = phase], Open(b) PROVE GoesOn(b)
  BY <1>1, <1>6 DEF BindStates, GoesOn
<1>7. CASE Lookup(b)
  <2>1. flight'[b] = "none" /\ Open(b)
    BY <1>3, <1>7 DEF Lookup, Pending
  <2>2. bind' = [bind EXCEPT ![b].phase = "missed"]
    BY <1>4, <1>7, <2>1 DEF Lookup, Replies
  <2>3. QED BY <1>6, <2>1, <2>2
<1>8. CASE Join(b)
  <2>1. PICK f \in Binds : bind' = [bind EXCEPT ![b].phase = "waiting", ![b].leader = f]
    BY <1>8 DEF Join
  <2>2. Open(b)
    BY <1>8 DEF Join, Pending
  <2>3. QED BY <1>1, <2>1, <2>2 DEF BindStates, GoesOn
<1>9. CASE Deadline(b)
  <2>1. Open(b) /\ flight' = flight
    BY <1>9 DEF Deadline, Pending
  <2>2. CASE flight[b] # "none"
    <3>1. bind' = [bind EXCEPT ![b].phase = "unavailable"]
      BY <1>1, <1>9, <2>2 DEF Deadline
    <3>2. QED BY <1>6, <2>1, <3>1
  <2>3. CASE flight[b] = "none"
    <3>1. bind' = [bind EXCEPT ![b] = Idle("unavailable")]
      BY <1>1, <1>9, <2>3 DEF Deadline
    <3>2. QED BY <1>4, <2>1, <2>3, <3>1 DEF Replies
  <2>4. QED BY <2>2, <2>3
<1>10. QED BY <1>5, <1>7, <1>8, <1>9 DEF Handler

\* Every step of the system, for every bind.
LEMMA BindReads ==
    ASSUME TypeOK, FlightsInv, clerk # <<>>, [Next]_vars, NEW b \in Binds, Open(b)'
    PROVE  GoesOn(b) \/ Begins(b)
<1>1. CASE Same(b)
  BY <1>1 DEF Same, Open, GoesOn
<1>2. ASSUME NEW c \in Binds, Handler(c) PROVE GoesOn(b) \/ Begins(b)
  <2>1. CASE b = c
    BY <1>2, <2>1, HandlerReads
  <2>2. CASE b # c
    BY <1>1, <1>2, <2>2, HandlerMoves DEF Same, Running
  <2>3. QED BY <2>1, <2>2
<1>3. ~Over(b)
  BY DEF Over, Open
<1>4. ASSUME NEW f \in Binds, Verification(f) PROVE GoesOn(b) \/ Begins(b)
  <2>1. Same(b) \/ Over(b)
    BY <1>4, VerificationEnds DEF Ending
  <2>2. QED BY <1>1, <1>3, <2>1
<1>5. ASSUME NEW p \in Pods, Restart(p) PROVE GoesOn(b) \/ Begins(b)
  <2>1. Same(b) \/ Over(b)
    BY <1>5, RestartEnds
  <2>2. QED BY <1>1, <1>3, <2>1
<1>6. CASE Tick \/ ClerkSide \/ UNCHANGED vars
  BY <1>1, <1>6 DEF Tick, ClerkSide, vars, Same, Running
<1>7. QED BY <1>2, <1>4, <1>5, <1>6 DEF Next

\* Only the clock moves the clock, and only Clerk's side the record and the row.
LEMMA TimeNext ==
    ASSUME TypeOK, FlightsInv, clerk # <<>>, [Next]_vars
    PROVE  /\ now' = now \/ (Tick /\ now' = now + 1)
           /\ UNCHANGED accountVars \/ ClerkSide
<1>1. ASSUME NEW b \in Binds, Handler(b) PROVE now' = now /\ UNCHANGED accountVars
  BY <1>1, HandlerMoves
<1>2. ASSUME NEW f \in Binds, Verification(f) PROVE now' = now /\ UNCHANGED accountVars
  BY <1>2, VerificationEnds
<1>3. ASSUME NEW p \in Pods, Restart(p) PROVE now' = now /\ UNCHANGED accountVars
  BY <1>3 DEF Restart, Lose
<1>4. CASE Tick
  BY <1>4 DEF Tick, Advance
<1>5. CASE ClerkSide
  BY <1>5 DEF ClerkSide, budgetVars
<1>6. CASE UNCHANGED vars
  BY <1>6 DEF vars, budgetVars, accountVars
<1>7. QED BY <1>1, <1>2, <1>3, <1>4, <1>5, <1>6 DEF Next

\* What a verification caches it had read; no other reading is kept.
LEMMA KeptNext ==
    ASSUME TypeOK, FlightsInv, clerk # <<>>, [Next]_vars
    PROVE  Kept' \subseteq Reads
<1>1. ASSUME NEW p \in Pods, cache'[p] # Nothing
      PROVE  [sub |-> cache'[p].sub, read |-> cache'[p].read] \in Kept
  <2>1. CASE cache'[p] = cache[p]
    BY <1>1, <2>1 DEF Kept
  <2>2. CASE cache'[p] # cache[p]
    <3>1. PICK f \in Binds :
            /\ flight[f] = "verified"
            /\ cache'[p] = [pw |-> bind[f].pw, sub |-> bind[f].sub,
                            expires |-> now + Ttl, read |-> bind[f].read]
      BY <1>1, <2>2, CacheNext
    <3>2. Open(f) /\ cache'[p].sub = bind[f].sub /\ cache'[p].read = bind[f].read
      BY <3>1 DEF Open, Running
    <3>3. QED BY <3>2 DEF Kept
  <2>3. QED BY <2>1, <2>2
<1>2. ASSUME NEW b \in Binds, Open(b)'
      PROVE  [sub |-> bind'[b].sub, read |-> bind'[b].read] \in Reads
  <2>1. CASE GoesOn(b)
    BY <2>1 DEF GoesOn, Reads, Kept
  <2>2. CASE Begins(b)
    BY <2>2 DEF Begins, Reads, ReadNow
  <2>3. QED BY <1>2, <2>1, <2>2, BindReads
<1>3. \A x \in Kept' : \/ \E p \in Pods : cache'[p] # Nothing
                                          /\ x = [sub |-> cache'[p].sub, read |-> cache'[p].read]
                       \/ \E b \in Binds : Open(b)'
                                          /\ x = [sub |-> bind'[b].sub, read |-> bind'[b].read]
  BY DEF Kept
<1>4. QED BY <1>1, <1>2, <1>3 DEF Reads

LEMMA ReadsType ==
    ASSUME TypeOK
    PROVE  \A x \in Reads : x.sub \in Subjects /\ x.read \in Nat
<1>1. \A x \in Kept : x.sub \in Subjects /\ x.read \in Nat
  BY DEF TypeOK, BindStates, Entries, Kept
<1>2. \A x \in ReadNow : x.sub \in Subjects /\ x.read \in Nat
  BY DEF TypeOK, AccountsTypeOK, Accounts, Subjects, ReadNow
<1>3. QED BY <1>1, <1>2 DEF Reads

\* The row and the record after a step of Clerk's side.
LEMMA AccountInvNext ==
    ASSUME TypeOK, AccountInv, FlightsInv, [Next]_vars
    PROVE  AccountInv'
<1>1. CASE UNCHANGED accountVars
  BY <1>1 DEF accountVars, AccountInv, AllHosted
<1>2. CASE ClerkChanges(now)
  <2>1. clerk \in Seq(Versions) /\ undelivered \subseteq 1..Len(clerk) /\ row' = row
    BY <1>2 DEF TypeOK, AccountsTypeOK, ClerkChanges
  <2>2. PICK v \in Versions : clerk' = Append(clerk, v)
    <3>1. PICK p \in Passwords, h \in BOOLEAN :
             clerk' = Append(clerk, [pw |-> p, hosted |-> h, since |-> now])
      BY <1>2 DEF ClerkChanges
    <3>2. [pw |-> p, hosted |-> h, since |-> now] \in Versions
      BY DEF TypeOK, BudgetTypeOK, Versions
    <3>3. QED BY <3>1, <3>2
  <2>3. /\ Len(clerk') = Len(clerk) + 1 /\ DOMAIN clerk' = 1..(Len(clerk) + 1)
        /\ \A i \in 1..Len(clerk) : clerk'[i] = clerk[i]
        /\ undelivered' = undelivered \cup {Len(clerk) + 1} /\ clerk' # <<>>
    BY <1>2, <2>1, <2>2 DEF ClerkChanges
  <2>4. DOMAIN clerk = 1..Len(clerk) /\ Len(clerk) \in Nat
    BY <2>1
  <2>5. AllHosted' => AllHosted
    BY <2>3, <2>4 DEF AllHosted
  <2>6. row' # NoAccount => row'.at \in DOMAIN clerk' \ undelivered'
    BY <2>1, <2>3, <2>4 DEF AccountInv
  <2>7. AllHosted' => row' # NoAccount /\ \A u \in DOMAIN clerk' : u > row'.at => u \in undelivered'
    BY <2>1, <2>3, <2>4, <2>5 DEF AccountInv
  <2>8. QED BY <2>3, <2>6, <2>7 DEF AccountInv
<1>3. ASSUME NEW v \in undelivered, Deliver(v) PROVE AccountInv'
  <2>1. /\ v \in DOMAIN clerk /\ clerk' = clerk /\ undelivered' = undelivered \ {v}
        /\ v \in Nat /\ DOMAIN clerk = 1..Len(clerk)
    BY <1>3 DEF Deliver, TypeOK, AccountsTypeOK
  <2>2. CASE ~clerk[v].hosted
    BY <1>3, <2>1, <2>2 DEF Deliver, AccountInv, AllHosted
  <2>3. CASE clerk[v].hosted
    <3>1. row' = Upserted(v)
      BY <1>3, <2>3 DEF Deliver
    <3>3. CASE row = NoAccount
      <4>1. row' = [at |-> v, epoch |-> 0, active |-> FALSE]
        BY <3>1, <3>3 DEF Upserted
      <4>2. row' \in Accounts /\ row'.at = v
        BY <2>1, <4>1 DEF Accounts
      <4>3. QED BY <2>1, <3>3, <4>2, AccountsAssumption DEF AccountInv, AllHosted
    <3>4. CASE row # NoAccount
      <4>1. row \in Accounts /\ row.at \in Nat
        BY <3>4 DEF TypeOK, AccountsTypeOK, Accounts
      <4>2. row' = IF v >= row.at THEN [row EXCEPT !.at = v] ELSE row
        BY <3>1, <3>4 DEF Upserted
      <4>3. row' \in Accounts /\ row'.at = IF v >= row.at THEN v ELSE row.at
        BY <2>1, <4>1, <4>2 DEF Accounts
      <4>4. row' # NoAccount /\ row'.at \in DOMAIN clerk' \ undelivered'
        BY <2>1, <3>4, <4>3, AccountsAssumption DEF AccountInv
      <4>5. AllHosted' => \A u \in DOMAIN clerk' : u > row'.at => u \in undelivered'
        <5> SUFFICES ASSUME AllHosted, NEW u \in DOMAIN clerk, u > row'.at PROVE u \in undelivered'
          BY <2>1 DEF AllHosted
        <5>1. u > row.at /\ u # v
          BY <2>1, <4>1, <4>3
        <5>2. QED BY <2>1, <5>1 DEF AccountInv
      <4>6. QED BY <2>1, <4>4, <4>5 DEF AccountInv
    <3>5. QED BY <3>3, <3>4
  <2>4. QED BY <2>2, <2>3
<1>4. CASE Activate \/ RaiseCredentialEpoch
  <2>1. row \in Accounts /\ row # NoAccount /\ clerk' = clerk /\ undelivered' = undelivered
    BY <1>4 DEF Activate, RaiseCredentialEpoch, TypeOK, AccountsTypeOK
  <2>2. row' \in Accounts /\ row'.at = row.at
    <3>1. CASE Activate
      <4>1. row' = [row EXCEPT !.active = TRUE]
        BY <3>1 DEF Activate
      <4>2. QED BY <2>1, <4>1 DEF Accounts
    <3>2. CASE RaiseCredentialEpoch
      <4>1. row' = [row EXCEPT !.epoch = @ + 1]
        BY <3>2 DEF RaiseCredentialEpoch
      <4>2. QED BY <2>1, <4>1 DEF Accounts
    <3>3. QED BY <1>4, <3>1, <3>2
  <2>3. QED BY <2>1, <2>2, AccountsAssumption DEF AccountInv, AllHosted
<1>5. QED BY <1>1, <1>2, <1>3, <1>4, TimeNext DEF ClerkSide, AccountInv

LEMMA ReadsInvNext ==
    ASSUME TypeOK, AccountInv, FlightsInv, ReadsInv, [Next]_vars
    PROVE  ReadsInv'
<1>0. \A x \in Reads : x.sub.at \in Nat /\ x.sub.epoch \in Nat /\ x.read \in Nat
  BY ReadsType DEF Subjects
<1>1. ASSUME Reads' \subseteq Reads, UNCHANGED <<clerk, undelivered>> PROVE ReadsInv'
  BY <1>1 DEF ReadsInv
<1>2. CASE UNCHANGED accountVars
  <2>1. ReadNow' = ReadNow
    BY <1>2 DEF accountVars, ReadNow
  <2>2. Reads' \subseteq Reads
    BY <2>1, KeptNext DEF Reads, AccountInv
  <2>3. QED BY <1>1, <1>2, <2>2 DEF accountVars
<1>3. CASE ClerkSide
  <2>1. Kept' = Kept
    BY <1>3 DEF ClerkSide, podVars, Kept, Open, Running
  <2>2. CASE ClerkChanges(now)
    <3>1. clerk \in Seq(Versions) /\ undelivered \subseteq 1..Len(clerk)
          /\ undelivered' = undelivered \cup {Len(clerk')}
          /\ \E v \in Versions : clerk' = Append(clerk, v)
      <4>1. PICK p \in Passwords, h \in BOOLEAN :
               clerk' = Append(clerk, [pw |-> p, hosted |-> h, since |-> now])
        BY <2>2 DEF ClerkChanges
      <4>2. [pw |-> p, hosted |-> h, since |-> now] \in Versions
        BY DEF TypeOK, BudgetTypeOK, Versions
      <4>3. QED BY <2>2, <4>1, <4>2 DEF ClerkChanges, TypeOK, AccountsTypeOK
    <3>2. DOMAIN clerk = 1..Len(clerk) /\ DOMAIN clerk' = 1..(Len(clerk) + 1)
          /\ undelivered' = undelivered \cup {Len(clerk) + 1} /\ Len(clerk) \in Nat
      BY <3>1
    <3>3. Reads' = Reads
      BY <2>1, <2>2 DEF Reads, ReadNow, ClerkChanges
    <3>4. \A x \in Reads' : x.sub.at \in DOMAIN clerk' \ undelivered'
      BY <3>2, <3>3 DEF ReadsInv
    <3>5. QED BY <3>3, <3>4 DEF ReadsInv
  <2>3. ASSUME NEW v \in undelivered, Deliver(v) PROVE ReadsInv'
    <3>1. /\ v \in DOMAIN clerk /\ clerk' = clerk /\ undelivered' = undelivered \ {v}
          /\ raises' = raises /\ row' \in {NoAccount, Upserted(v)}
      BY <2>3 DEF Deliver, TypeOK, AccountsTypeOK
    <3>2. CASE row' \in {NoAccount, row}
      <4>1. Reads' \subseteq Reads
        BY <2>1, <3>1, <3>2 DEF Reads, ReadNow
      <4>2. QED BY <3>1, <4>1 DEF ReadsInv
    <3>3. CASE row' \notin {NoAccount, row}
      <4>0. ASSUME row = NoAccount PROVE row'.at = v
        BY <3>1, <3>3, <4>0 DEF Upserted
      <4>1. ASSUME row # NoAccount PROVE row'.at = v
        <5>1. row' = [row EXCEPT !.at = v]
          BY <3>1, <3>3, <4>1 DEF Upserted
        <5>2. row \in Accounts
          BY <4>1 DEF TypeOK, AccountsTypeOK
        <5>3. QED BY <5>1, <5>2 DEF Accounts
      <4>2. row'.at = v
        BY <4>0, <4>1
      <4>3. \A x \in ReadNow' : x.sub.at = v
        BY <4>2 DEF ReadNow
      <4>4. \A x, y \in ReadNow' : x = y
        BY DEF ReadNow
      <4>5. \A x \in Kept : x.sub.at # v
        BY DEF ReadsInv, Reads
      <4>6. \A x \in Reads' : x.sub.at \in DOMAIN clerk' \ undelivered'
        BY <2>1, <3>1, <4>3 DEF ReadsInv, Reads
      <4>7. \A x, y \in Reads' : x.sub.at = y.sub.at =>
               x = y \/ (x \in Kept /\ y \in Kept)
        BY <2>1, <4>3, <4>4, <4>5 DEF Reads
      <4>8. QED BY <4>6, <4>7 DEF ReadsInv, Reads
    <3>4. QED BY <3>2, <3>3
  <2>4. CASE Activate
    <3>1. row \in Accounts /\ row # NoAccount /\ row' = [row EXCEPT !.active = TRUE]
      BY <2>4 DEF Activate, TypeOK, AccountsTypeOK
    <3>2. row' \in Accounts /\ row'.at = row.at /\ row'.epoch = row.epoch
      BY <3>1 DEF Accounts
    <3>3. ReadNow' = ReadNow
      BY <2>4, <3>1, <3>2, AccountsAssumption DEF ReadNow, Activate
    <3>4. QED BY <1>1, <2>1, <2>4, <3>3 DEF Reads, Activate
  <2>5. CASE RaiseCredentialEpoch
    <3>1. row \in Accounts /\ row # NoAccount /\ row' = [row EXCEPT !.epoch = @ + 1]
          /\ raises' = raises + 1 /\ clerk' = clerk /\ undelivered' = undelivered /\ raises \in Nat
      BY <2>5 DEF RaiseCredentialEpoch, TypeOK, AccountsTypeOK
    <3>2. row' \in Accounts /\ row'.at = row.at /\ row'.epoch = row.epoch + 1 /\ row.epoch \in Nat
      BY <3>1 DEF Accounts
    <3> DEFINE old == [sub |-> [at |-> row.at, epoch |-> row.epoch], read |-> raises]
               new == [sub |-> [at |-> row.at, epoch |-> row.epoch + 1], read |-> raises + 1]
    <3>3. ReadNow = {old} /\ ReadNow' = {new}
      BY <3>1, <3>2, AccountsAssumption DEF ReadNow
    <3>4. new.sub.at = old.sub.at /\ new.read - new.sub.epoch = old.read - old.sub.epoch
      BY <3>1, <3>2
    <3> HIDE DEF old, new
    <3>5. old \in Reads /\ Kept \subseteq Reads /\ Reads' = Kept \cup {new}
      BY <2>1, <3>3 DEF Reads
    <3>6. \A x \in Reads' : x.sub.at \in DOMAIN clerk' \ undelivered'
      BY <3>1, <3>4, <3>5 DEF ReadsInv
    <3>7. \A x \in Reads' : \E z \in Reads :
             z.sub.at = x.sub.at /\ z.read - z.sub.epoch = x.read - x.sub.epoch
      BY <3>4, <3>5
    <3>8. QED BY <3>6, <3>7 DEF ReadsInv
  <2>6. QED BY <1>3, <2>2, <2>3, <2>4, <2>5 DEF ClerkSide
<1>4. QED BY <1>2, <1>3, TimeNext DEF AccountInv

\* Who read the same of the row read it between the same revocations.
LEMMA SameReading ==
    ASSUME TypeOK, ReadsInv, NEW x \in Reads, NEW y \in Reads, x.sub = y.sub
    PROVE  x.read = y.read
<1>1. x.sub.epoch \in Nat /\ x.read \in Nat /\ y.read \in Nat
  BY ReadsType DEF Subjects
<1>2. x.read - x.sub.epoch = y.read - y.sub.epoch
  BY DEF ReadsInv
<1>3. QED BY <1>1, <1>2

-----------------------------------------------------------------------------
(* What is true of the passwords.                                          *)

LEMMA HeldStays ==
    ASSUME TypeOK, UNCHANGED accountVars \/ ClerkSide,
           NEW w, NEW at, NEW tick \in Int, tick <= now, Held(w, at, tick)
    PROVE  Held(w, at, tick)'
<1>1. clerk \in Seq(Versions) /\ now \in Nat
  BY DEF TypeOK, AccountsTypeOK, BudgetTypeOK
<1>2. CASE clerk' = clerk
  BY <1>2 DEF Held, StoodSince
<1>3. CASE clerk' # clerk
  <2>1. PICK p \in Passwords, h \in BOOLEAN :
           clerk' = Append(clerk, [pw |-> p, hosted |-> h, since |-> now])
    BY <1>3 DEF ClerkSide, ClerkChanges, Deliver, Activate, RaiseCredentialEpoch, accountVars
  <2> DEFINE e == [pw |-> p, hosted |-> h, since |-> now]
  <2>2. e \in Versions /\ e.since = now
    BY <1>1 DEF Versions
  <2>3. clerk' = Append(clerk, e)
    BY <2>1
  <2> HIDE DEF e
  <2>4. /\ Len(clerk') = Len(clerk) + 1 /\ Len(clerk) \in Nat
        /\ DOMAIN clerk = 1..Len(clerk) /\ DOMAIN clerk' = 1..(Len(clerk) + 1)
        /\ \A i \in 1..Len(clerk) : clerk'[i] = clerk[i]
        /\ clerk'[Len(clerk) + 1] = e
    BY <1>1, <2>2, <2>3
  <2>5. PICK v \in 1..Len(clerk) : v >= at /\ clerk[v].pw = w /\ v \in StoodSince(tick)
    BY <2>4 DEF Held
  <2>6. clerk'[v + 1].since >= tick
    BY <1>1, <2>2, <2>4, <2>5 DEF StoodSince
  <2>7. v \in DOMAIN clerk' /\ clerk'[v].pw = w
    BY <2>4, <2>5
  <2>8. QED BY <2>5, <2>6, <2>7 DEF Held, StoodSince
<1>4. QED BY <1>2, <1>3

LEMMA DiffersStays ==
    ASSUME TypeOK, UNCHANGED accountVars \/ ClerkSide, NEW w, NEW at, Differs(w, at)
    PROVE  Differs(w, at)'
<1>1. clerk \in Seq(Versions)
  BY DEF TypeOK, AccountsTypeOK
<1>2. CASE clerk' = clerk
  BY <1>2 DEF Differs
<1>3. CASE clerk' # clerk
  <2>1. PICK p \in Passwords, h \in BOOLEAN :
           clerk' = Append(clerk, [pw |-> p, hosted |-> h, since |-> now])
    BY <1>3 DEF ClerkSide, ClerkChanges, Deliver, Activate, RaiseCredentialEpoch, accountVars
  <2>2. [pw |-> p, hosted |-> h, since |-> now] \in Versions
    BY DEF TypeOK, BudgetTypeOK, Versions
  <2>3. /\ DOMAIN clerk \subseteq DOMAIN clerk'
        /\ \A i \in DOMAIN clerk : clerk'[i] = clerk[i]
    BY <1>1, <2>1, <2>2
  <2>4. QED BY <2>3 DEF Differs
<1>4. QED BY <1>2, <1>3

LEMMA HeldEarlier ==
    ASSUME TypeOK, NEW w, NEW at, NEW late \in Int, NEW early \in Int, early <= late,
           Held(w, at, late)
    PROVE  Held(w, at, early)
<1>1. clerk \in Seq(Versions)
  BY DEF TypeOK, AccountsTypeOK
<1>2. ASSUME NEW v \in DOMAIN clerk, v \in StoodSince(late) PROVE v \in StoodSince(early)
  <2>1. CASE v = Len(clerk)
    BY <2>1 DEF StoodSince
  <2>2. CASE v # Len(clerk)
    <3>1. v + 1 \in DOMAIN clerk /\ clerk[v + 1].since >= late
      BY <1>1, <1>2, <2>2 DEF StoodSince
    <3>2. clerk[v + 1].since \in Nat
      <4>1. clerk[v + 1] \in Versions
        BY <1>1, <3>1
      <4>2. QED BY <4>1 DEF Versions
    <3>3. QED BY <3>1, <3>2 DEF StoodSince
  <2>3. QED BY <2>1, <2>2
<1>3. QED BY <1>2 DEF Held

\* How a flight comes to a stage.
LEMMA StageNext ==
    ASSUME TypeOK, FlightsInv, clerk # <<>>, [Next]_vars, NEW f \in Binds
    PROVE  /\ flight'[f] \in {"verified", "rejected"} =>
                \/ flight'[f] = flight[f]
                \/ Verify(f) /\ (flight'[f] = "verified" <=> bind[f].pw = Latest.pw)
           /\ flight'[f] \in {"reserving", "verifying"} =>
                \/ flight[f] \in {"reserving", "verifying"}
                \/ Admit(f) /\ ~(budgeted /\ Remembers(bind[f].pod, bind[f].sub, bind[f].pw))
<1>0. flight \in [Binds -> Stages] /\ bind \in [Binds -> BindStates]
  BY DEF TypeOK
<1>1. CASE flight'[f] \in {flight[f], "none", "begun"}
  BY <1>1
<1>2. ASSUME NEW b \in Binds, Handler(b) PROVE flight'[f] \in {flight[f], "none", "begun"}
  BY <1>0, <1>2 DEF Handler, ReadRow, Lookup, Join, Deadline
<1>3. ASSUME NEW g \in Binds, g # f, Verification(g)
      PROVE  flight'[f] \in {flight[f], "none"}
  <2>1. Ending(g)
    BY <1>3, VerificationEnds
  <2>2. QED BY <1>3, <2>1 DEF Ending, Over, Running
<1>4. ASSUME NEW reply, Ends(f, reply) PROVE flight'[f] = "none"
  BY <1>0, <1>4 DEF Ends
<1>5. CASE Admit(f)
  <2>1. CASE \E reply : Ends(f, reply)
    BY <1>1, <1>4, <2>1
  <2>2. CASE ~\E reply : Ends(f, reply)
    <3>1. /\ ~(budgeted /\ Remembers(bind[f].pod, bind[f].sub, bind[f].pw))
          /\ flight'[f] \in {"reserving", "verifying"}
      BY <1>0, <1>5, <2>2 DEF Admit
    <3>2. QED BY <1>5, <3>1
  <2>3. QED BY <2>1, <2>2
<1>6. CASE TakeSlot(f)
  BY <1>0, <1>1, <1>4, <1>6 DEF TakeSlot
<1>7. CASE Verify(f)
  BY <1>0, <1>1, <1>7 DEF Verify
<1>8. CASE Succeed(f) \/ Reject(f) \/ Silent(f) \/ Panic(f)
  BY <1>1, <1>4, <1>8 DEF Succeed, Reject, Silent, Panic
<1>9. ASSUME NEW p \in Pods, Restart(p) PROVE flight'[f] \in {flight[f], "none"}
  BY <1>9 DEF Restart
<1>10. CASE Tick \/ ClerkSide \/ UNCHANGED vars
  BY <1>1, <1>10 DEF Tick, ClerkSide, vars
<1>11. QED
  BY <1>1, <1>2, <1>3, <1>5, <1>6, <1>7, <1>8, <1>9, <1>10 DEF Next, Verification

\* What an open bind read is a reading of a version that was delivered.
LEMMA OpenReads ==
    ASSUME TypeOK, ReadsInv, NEW b \in Binds, Open(b)
    PROVE  /\ bind[b].sub.at \in DOMAIN clerk
           /\ [sub |-> bind[b].sub, read |-> bind[b].read] \in Reads
<1>1. [sub |-> bind[b].sub, read |-> bind[b].read] \in Reads
  BY DEF Reads, Kept
<1>2. QED BY <1>1 DEF ReadsInv

\* What the provider says is true of the newest version.
LEMMA LatestTells ==
    ASSUME TypeOK, clerk # <<>>, NEW at \in DOMAIN clerk, NEW w, NEW tick
    PROVE  /\ w = Latest.pw => Held(w, at, tick)
           /\ w # Latest.pw => Differs(w, at)
<1>1. clerk \in Seq(Versions)
  BY DEF TypeOK, AccountsTypeOK
<1>2. Len(clerk) \in DOMAIN clerk /\ Len(clerk) >= at
  BY <1>1
<1>3. QED BY <1>2 DEF Latest, Held, Differs, StoodSince

LEMMA SinceNext ==
    ASSUME TypeOK, AccountInv, FlightsInv, TruthInv, [Next]_vars, NEW b \in Binds, Open(b)'
    PROVE  bind'[b].since <= now' /\ now' <= bind'[b].since + 1
<1>1. now \in Nat /\ bind[b].since \in Nat
  BY DEF TypeOK, BudgetTypeOK, BindStates
<1>2. now' = now \/ (Tick /\ now' = now + 1)
  BY TimeNext DEF AccountInv
<1>3. CASE GoesOn(b)
  <2>1. Open(b) /\ bind'[b].since = bind[b].since
    BY <1>3 DEF GoesOn
  <2>2. bind[b].since <= now /\ now <= bind[b].since + 1
    BY <2>1 DEF TruthInv
  <2>3. Tick => bind[b].since = now
    BY <2>1 DEF Tick
  <2>4. QED BY <1>1, <1>2, <2>1, <2>2, <2>3
<1>4. CASE Begins(b)
  BY <1>1, <1>2, <1>4 DEF Begins
<1>5. QED BY <1>3, <1>4, BindReads DEF AccountInv

\* What a verification found stays true while it goes on.
LEMMA FoundNext ==
    ASSUME TypeOK, AccountInv, FlightsInv, ReadsInv, TruthInv, [Next]_vars, NEW f \in Binds
    PROVE  /\ flight'[f] = "verified" =>
                Held(bind[f].pw, bind[f].sub.at, bind[f].since)'
           /\ flight'[f] = "rejected" => Differs(bind[f].pw, bind[f].sub.at)'
<1> SUFFICES ASSUME flight'[f] \in {"verified", "rejected"}
             PROVE  /\ flight'[f] = "verified" =>
                         Held(bind[f].pw, bind[f].sub.at, bind[f].since)'
                    /\ flight'[f] = "rejected" => Differs(bind[f].pw, bind[f].sub.at)'
  OBVIOUS
<1>1. clerk # <<>> /\ (UNCHANGED accountVars \/ ClerkSide)
  BY TimeNext DEF AccountInv
<1>2. \/ flight'[f] = flight[f]
      \/ Verify(f) /\ (flight'[f] = "verified" <=> bind[f].pw = Latest.pw)
  BY <1>1, StageNext
<1>3. Open(f)' /\ Open(f)
  BY <1>2 DEF Open, Running, Verify
<1>4. /\ bind'[f].pw = bind[f].pw /\ bind'[f].sub = bind[f].sub
      /\ bind'[f].since = bind[f].since
  <2>1. ~Begins(f)
    BY DEF Begins
  <2>2. QED BY <1>1, <1>3, <2>1, BindReads DEF GoesOn
<1>5. PICK w, at, tick : w = bind[f].pw /\ at = bind[f].sub.at /\ tick = bind[f].since
  OBVIOUS
<1>6. tick \in Int /\ tick <= now
  <2>1. bind[f].since \in Nat
    BY DEF TypeOK, BindStates
  <2>2. QED BY <1>3, <1>5, <2>1 DEF TruthInv
<1>7. /\ flight'[f] = "verified" => Held(w, at, tick)
      /\ flight'[f] = "rejected" => Differs(w, at)
  <2>1. CASE flight'[f] = flight[f]
    BY <1>5, <2>1 DEF TruthInv
  <2>2. CASE flight'[f] = "verified" <=> bind[f].pw = Latest.pw
    <3>1. at \in DOMAIN clerk
      BY <1>3, <1>5, OpenReads
    <3>2. QED BY <1>1, <1>5, <2>2, <3>1, LatestTells
  <2>3. QED BY <1>2, <2>1, <2>2
<1>8. /\ flight'[f] = "verified" => Held(w, at, tick)'
      /\ flight'[f] = "rejected" => Differs(w, at)'
  BY <1>1, <1>6, <1>7, HeldStays, DiffersStays
<1>9. w = bind'[f].pw /\ at = bind'[f].sub.at /\ tick = bind'[f].since
  BY <1>4, <1>5
<1>10. QED BY <1>8, <1>9

\* What a pod caches was the password no longer ago than an entry lives.
LEMMA CachedNext ==
    ASSUME TypeOK, AccountInv, FlightsInv, ReadsInv, TruthInv, [Next]_vars,
           NEW p \in Pods, cache'[p] # Nothing
    PROVE  /\ cache'[p].expires <= now' + Ttl
           /\ Held(cache[p].pw, cache[p].sub.at, cache[p].expires - Ttl - 1)'
<1>1. clerk # <<>> /\ (UNCHANGED accountVars \/ ClerkSide)
      /\ (now' = now \/ now' = now + 1) /\ now \in Nat /\ Ttl \in Nat
  BY TimeNext, BindAssumption DEF AccountInv, TypeOK, BudgetTypeOK
<1>2. cache'[p] \in Entries
  BY <1>1, CacheNext
<1>3. cache'[p].expires \in Nat
  BY <1>2 DEF Entries
<1>4. PICK w, at, tick : /\ w = cache'[p].pw /\ at = cache'[p].sub.at
                         /\ tick = cache'[p].expires - Ttl - 1
  OBVIOUS
<1>5. cache'[p].expires <= now + Ttl /\ Held(w, at, tick)
  <2>1. CASE cache'[p] = cache[p]
    BY <1>4, <2>1 DEF TruthInv
  <2>2. CASE cache'[p] # cache[p]
    <3>1. PICK f \in Binds :
            /\ flight[f] = "verified"
            /\ cache'[p] = [pw |-> bind[f].pw, sub |-> bind[f].sub,
                            expires |-> now + Ttl, read |-> bind[f].read]
      BY <1>1, <2>2, CacheNext
    <3>2. w = bind[f].pw /\ at = bind[f].sub.at /\ tick = now - 1
          /\ cache'[p].expires = now + Ttl
      BY <1>1, <1>4, <3>1
    <3>3. Held(w, at, bind[f].since) /\ now <= bind[f].since + 1
      BY <3>1, <3>2 DEF TruthInv, Open, Running
    <3>4. bind[f].since \in Nat
      BY DEF TypeOK, BindStates
    <3>5. Held(w, at, now - 1)
      BY <1>1, <3>3, <3>4, HeldEarlier
    <3>6. QED BY <1>1, <3>2, <3>5
  <2>3. QED BY <2>1, <2>2
<1>6. tick \in Int /\ tick <= now
  BY <1>1, <1>3, <1>4, <1>5
<1>7. Held(w, at, tick)'
  BY <1>1, <1>5, <1>6, HeldStays
<1>8. QED BY <1>1, <1>3, <1>4, <1>5, <1>7

\* What a pod remembers as refused was refused by a version since.
LEMMA RememberedNext ==
    ASSUME TypeOK, AccountInv, FlightsInv, TruthInv, MemoryInv, [Next]_vars,
           NEW p \in Pods, refused'[p] # Nothing, NEW r \in refused'[p].macs
    PROVE  Differs(r.pw, refused[p].sub.at)'
<1>1. clerk # <<>> /\ (UNCHANGED accountVars \/ ClerkSide) /\ MemoryStep
  BY TimeNext, MemoryNext DEF AccountInv
<1>2. PICK at : at = refused'[p].sub.at
  OBVIOUS
<1>3. Differs(r.pw, at)
  <2>1. CASE /\ refused[p] # Nothing /\ refused'[p].sub = refused[p].sub
             /\ \E q \in refused[p].macs : q.pw = r.pw /\ q.expires = r.expires
    <3>1. PICK q \in refused[p].macs : q.pw = r.pw
      BY <2>1
    <3>2. Differs(q.pw, refused[p].sub.at)
      BY <2>1 DEF TruthInv
    <3>3. QED BY <1>2, <2>1, <3>1, <3>2
  <2>2. CASE \E f \in Binds : /\ Reject(f)
                              /\ bind[f].pod = p /\ bind[f].sub = refused'[p].sub
                              /\ bind[f].pw = r.pw
    <3>1. PICK f \in Binds : Reject(f) /\ bind[f].sub = refused'[p].sub /\ bind[f].pw = r.pw
      BY <2>2
    <3>2. Differs(bind[f].pw, bind[f].sub.at)
      BY <3>1 DEF Reject, TruthInv
    <3>3. QED BY <1>2, <3>1, <3>2
  <2>3. QED BY <1>1, <2>1, <2>2 DEF MemoryStep
<1>4. Differs(r.pw, at)'
  BY <1>1, <1>3, DiffersStays
<1>5. QED BY <1>2, <1>4

LEMMA TruthInvNext ==
    ASSUME TypeOK, AccountInv, FlightsInv, ReadsInv, TruthInv, MemoryInv, [Next]_vars
    PROVE  TruthInv'
BY SinceNext, FoundNext, CachedNext, RememberedNext DEF TruthInv

\* A password this provider refused a moment ago is not forwarded to it: the refusal was
\* remembered before the flight, or the flight that brought it had the same key.
LEMMA ForwardNext ==
    ASSUME TypeOK, AccountInv, FlightsInv, MemoryInv, NoIdenticalForward, [Next]_vars
    PROVE  NoIdenticalForward'
<1> SUFFICES ASSUME NEW f \in Binds, budgeted', flight'[f] \in {"reserving", "verifying"},
                    Remembers(bind[f].pod, bind[f].sub, bind[f].pw)'
             PROVE  FALSE
  BY DEF NoIdenticalForward
<1>1. clerk # <<>> /\ MemoryStep /\ budgeted
  BY MemoryNext, BindsNext DEF AccountInv
<1>2. \/ flight[f] \in {"reserving", "verifying"}
      \/ Admit(f) /\ ~Remembers(bind[f].pod, bind[f].sub, bind[f].pw)
  BY <1>1, StageNext
<1>3. Running(f) /\ flight[f] # "rejected" /\ Open(f)'
  BY <1>2 DEF Running, Open, Admit
<1>4. ~Remembers(bind[f].pod, bind[f].sub, bind[f].pw)
  BY <1>1, <1>2 DEF NoIdenticalForward
<1>5. bind'[f].pod = bind[f].pod /\ bind'[f].pw = bind[f].pw /\ bind'[f].sub = bind[f].sub
  <2>1. ~Begins(f)
    BY DEF Begins
  <2>2. QED BY <1>1, <1>3, <2>1, BindReads DEF GoesOn
<1>6. PICK p \in Pods : p = bind[f].pod
  BY DEF TypeOK, BindStates
<1>7. PICK r : /\ refused'[p] # Nothing /\ refused'[p].sub = bind[f].sub
               /\ r \in refused'[p].macs /\ r.pw = bind[f].pw /\ now' < r.expires
  BY <1>5, <1>6 DEF Remembers, Current
<1>8. CASE /\ refused[p] # Nothing /\ refused'[p].sub = refused[p].sub
           /\ \E q \in refused[p].macs : q.pw = r.pw /\ q.expires = r.expires
  <2>1. PICK q \in refused[p].macs : q.pw = r.pw /\ q.expires = r.expires
    BY <1>8
  <2>2. now' \in {now, now + 1} /\ now \in Nat
    BY <1>1, TimeNext DEF TypeOK, BudgetTypeOK
  <2>3. q.expires \in Nat
    BY <1>8 DEF TypeOK, Refusals
  <2>4. now < q.expires
    BY <1>7, <2>1, <2>2, <2>3
  <2>5. q \in Current(p, bind[f].sub)
    BY <1>7, <1>8, <2>4 DEF Current
  <2>6. QED BY <1>4, <1>6, <1>7, <2>1, <2>5 DEF Remembers
<1>9. CASE \E g \in Binds : /\ Reject(g)
                            /\ bind[g].pod = p /\ bind[g].sub = refused'[p].sub
                            /\ bind[g].pw = r.pw
  <2>1. PICK g \in Binds : flight[g] = "rejected" /\ SameKey(g, f)
    BY <1>6, <1>7, <1>9 DEF Reject, SameKey
  <2>2. g = f
    BY <1>3, <2>1 DEF FlightsInv, Running
  <2>3. QED BY <1>3, <2>1, <2>2
<1>10. QED BY <1>1, <1>7, <1>8, <1>9 DEF MemoryStep

-----------------------------------------------------------------------------
(* The theorems.                                                           *)

LEMMA InvInit ==
    ASSUME Init
    PROVE  Inv
<1>1. PICK w \in Passwords : clerk = <<[pw |-> w, hosted |-> TRUE, since |-> 0]>>
  BY DEF Init, AccountsInit
<1>2. /\ [pw |-> w, hosted |-> TRUE, since |-> 0] \in Versions
      /\ [at |-> 1, epoch |-> 0, active |-> TRUE] \in Accounts
  BY DEF Versions, Accounts
<1>3. /\ row \in Accounts /\ row # NoAccount /\ row.at = 1 /\ undelivered = {} /\ raises = 0
      /\ clerk \in Seq(Versions) /\ clerk # <<>> /\ DOMAIN clerk = {1} /\ Len(clerk) = 1
  <2>1. row = [at |-> 1, epoch |-> 0, active |-> TRUE] /\ undelivered = {} /\ raises = 0
    BY DEF Init, AccountsInit
  <2>2. row \in Accounts /\ row # NoAccount /\ row.at = 1
    BY <1>2, <2>1, AccountsAssumption
  <2>3. \E v \in Versions : clerk = <<v>>
    BY <1>1, <1>2
  <2>4. clerk \in Seq(Versions) /\ clerk # <<>> /\ DOMAIN clerk = {1} /\ Len(clerk) = 1
    BY <2>3
  <2>5. QED BY <2>1, <2>2, <2>4
<1>4. AccountsTypeOK /\ AccountInv
  BY <1>3 DEF AccountsTypeOK, AccountInv
<1>5. /\ bind = [b \in Binds |-> Idle("new")] /\ flight = [b \in Binds |-> "none"]
      /\ cache = [p \in Pods |-> Nothing] /\ refused = [p \in Pods |-> Nothing]
      /\ tokens = [p \in Pods |-> Burst] /\ faults = 0 /\ budgeted \in BOOLEAN
  BY DEF Init
<1>6. Idle("new") \in BindStates /\ Idle("new").phase = "new"
  <2>1. (CHOOSE v \in Passwords : TRUE) \in Passwords /\ (CHOOSE p \in Pods : TRUE) \in Pods
    BY BindAssumption
  <2>2. [at |-> 0, epoch |-> 0] \in Subjects
    BY DEF Subjects
  <2>3. QED BY <2>1, <2>2 DEF Idle, BindStates
<1>7. \A b \in Binds : bind[b].phase = "new" /\ ~Running(b) /\ ~Open(b)
  BY <1>5, <1>6 DEF Running, Open, Pending
<1>8. BudgetTypeOK
  BY DEF Init, BudgetInit, BudgetTypeOK, SlotStates
<1>9. tokens \in [Pods -> 0..Burst] /\ faults \in 0..MaxFaults
  BY <1>5, BindAssumption
<1>10. TypeOK
  BY <1>4, <1>5, <1>6, <1>7, <1>8, <1>9 DEF TypeOK, Stages
<1>11. FlightsInv /\ TruthInv /\ MemoryInv /\ NoIdenticalForward
  BY <1>5, <1>7 DEF FlightsInv, TruthInv, MemoryInv, NoIdenticalForward, Running
<1>12. ReadsInv
  <2>1. Kept = {}
    BY <1>5, <1>7 DEF Kept
  <2>2. ReadNow = {[sub |-> [at |-> row.at, epoch |-> row.epoch], read |-> raises]}
    BY <1>3 DEF ReadNow
  <2>3. QED BY <1>3, <2>1, <2>2 DEF ReadsInv, Reads
<1>13. QED BY <1>4, <1>10, <1>11, <1>12 DEF Inv

LEMMA InvNext ==
    ASSUME Inv, [Next]_vars, BudgetTypeOK'
    PROVE  Inv'
BY TypeNext, AccountInvNext, ReadsInvNext, TruthInvNext, ForwardNext DEF Inv, AccountInv

\* The invariant holds, the budget's own type being the budget's business.
LEMMA InvAlways == Spec => []Inv
<1>1. BudgetInv => BudgetTypeOK
  BY DEF BudgetInv
<1>2. Spec => []BudgetTypeOK
  BY <1>1, BudgetInductive, BindsImplementBudget, PTL
<1>3. Init => Inv
  BY InvInit
<1>4. Inv /\ [Next]_vars /\ BudgetTypeOK' => Inv'
  BY InvNext
<1>5. QED BY <1>2, <1>3, <1>4, PTL DEF Spec

\* Every variable of authd, of the row and of the budget is always of its type; so a pod
\* never remembers more than PerUser refusals of a person, nor saves up more than Burst.
THEOREM BindTypeCorrect == Spec => []TypeOK
<1>1. Inv => TypeOK
  BY DEF Inv
<1>2. QED BY <1>1, InvAlways, PTL

\* Once every webhook is in, the row is at the newest version of the person's record, in
\* whatever order Svix delivered them, unless some version took the row away.
THEOREM RowCatchesUp == Spec => []RowIsNewest
<1>1. Inv => RowIsNewest
  <2> SUFFICES ASSUME Inv, undelivered = {}, AllHosted
               PROVE  row # NoAccount /\ row.at = Len(clerk)
    BY DEF RowIsNewest
  <2>1. clerk \in Seq(Versions) /\ clerk # <<>>
    BY DEF Inv, TypeOK, AccountsTypeOK, AccountInv
  <2>2. /\ row # NoAccount /\ row.at \in DOMAIN clerk
        /\ \A v \in DOMAIN clerk : ~(v > row.at)
    BY DEF Inv, AccountInv
  <2>3. Len(clerk) \in DOMAIN clerk /\ DOMAIN clerk = 1..Len(clerk)
    BY <2>1
  <2>4. QED BY <2>2, <2>3
<1>2. QED BY <1>1, InvAlways, PTL

\* A password a pod remembers as refused is never on its way to the provider again, so a
\* client that repeats it does not spend the account's failures there.
THEOREM RefusedIsNotForwarded == Spec => []NoIdenticalForward
<1>1. Inv => NoIdenticalForward
  BY DEF Inv
<1>2. QED BY <1>1, InvAlways, PTL

\* Who tells a bind that it succeeded.
LEMMA SuccessTold ==
    ASSUME Inv, [Next]_vars, NEW b \in Binds, Told(b, "success")
    PROVE  \/ /\ bind[b].phase = "read"
              /\ Usable(cache[bind[b].pod], bind[b].sub)
              /\ cache[bind[b].pod].pw = bind[b].pw
           \/ /\ bind[b].phase = "waiting" /\ bind[b].leader \in Binds
              /\ flight[bind[b].leader] = "verified" /\ SameKey(bind[b].leader, b)
<1>1. /\ TypeOK /\ FlightsInv /\ clerk # <<>> /\ bind \in [Binds -> BindStates]
      /\ bind'[b] # bind[b]
  BY DEF Inv, AccountInv, Told, TypeOK
<1>2. \A phase \in Replies : Idle(phase).phase = phase
  BY <1>1, IdleType
<1>3. ASSUME NEW c \in Binds, Handler(c)
      PROVE  /\ bind[b].phase = "read"
             /\ Usable(cache[bind[b].pod], bind[b].sub)
             /\ cache[bind[b].pod].pw = bind[b].pw
  <2>1. c = b
    BY <1>1, <1>3, HandlerMoves
  <2>2. \A phase \in {"read", "missed", "waiting", "unavailable"} :
           bind'[b].phase # phase
    BY DEF Told
  <2>3. ~Join(b)
    BY <1>1, <2>2 DEF Join, BindStates
  <2>4. ~Deadline(b)
    BY <1>1, <1>2, <2>2 DEF Deadline, BindStates, Replies
  <2>5. \A p \in Pods, w \in Passwords : ~ReadRow(b, p, w)
    BY <1>1, <1>2 DEF ReadRow, Told, Replies
  <2>6. Lookup(b)
    BY <1>3, <2>1, <2>3, <2>4, <2>5 DEF Handler
  <2>7. bind' # [bind EXCEPT ![b].phase = "missed"]
    BY <1>1, <2>2 DEF BindStates
  <2>8. QED BY <2>6, <2>7 DEF Lookup
<1>4. ASSUME NEW f \in Binds, Verification(f)
      PROVE  /\ bind[b].phase = "waiting" /\ bind[b].leader = f
             /\ flight[f] = "verified" /\ SameKey(f, b)
  <2>1. bind[b].phase = "waiting" /\ bind[b].leader = f /\ Running(f) /\ SameKey(f, b)
    BY <1>1, <1>4, VerificationEnds DEF Ending, FlightsInv
  <2>2. \A reply \in Replies : Ends(f, reply) => reply = "success"
    BY <1>1, <2>1, EndsAll
  <2>3. bind' # bind
    BY <1>1
  <2>4. Succeed(f)
    BY <1>4, <2>2, <2>3 DEF Verification, Admit, TakeSlot, Verify, Reject, Silent, SilenceMeans,
       Panic, Replies
  <2>5. QED BY <2>1, <2>4 DEF Succeed
<1>5. ASSUME NEW p \in Pods, Restart(p) PROVE FALSE
  BY <1>1, <1>5, RestartEnds
<1>6. ~(Tick \/ ClerkSide \/ UNCHANGED vars)
  BY <1>1 DEF Tick, ClerkSide, vars
<1>7. QED BY <1>3, <1>4, <1>5, <1>6 DEF Next

\* Who tells a bind that its password is wrong.
LEMMA InvalidTold ==
    ASSUME Inv, [Next]_vars, NEW b \in Binds, Told(b, "invalid")
    PROVE  \/ bind[b].phase = "new" /\ ~Projected
           \/ /\ bind[b].phase = "waiting" /\ bind[b].leader \in Binds
              /\ SameKey(bind[b].leader, b)
              /\ \/ flight[bind[b].leader] = "rejected"
                 \/ Remembers(bind[b].pod, bind[b].sub, bind[b].pw)
<1>1. /\ TypeOK /\ FlightsInv /\ clerk # <<>> /\ bind \in [Binds -> BindStates]
      /\ bind'[b] # bind[b]
  BY DEF Inv, AccountInv, Told, TypeOK
<1>2. \A phase \in Replies : Idle(phase).phase = phase
  BY <1>1, IdleType
<1>3. ASSUME NEW c \in Binds, Handler(c) PROVE bind[b].phase = "new" /\ ~Projected
  <2>1. c = b
    BY <1>1, <1>3, HandlerMoves
  <2>2. \A phase \in {"read", "missed", "waiting", "unavailable", "success"} :
           bind'[b].phase # phase
    BY DEF Told
  <2>3. ~Join(b)
    BY <1>1, <2>2 DEF Join, BindStates
  <2>4. ~Deadline(b)
    BY <1>1, <1>2, <2>2 DEF Deadline, BindStates, Replies
  <2>5. ~Lookup(b)
    <3>1. bind' # [bind EXCEPT ![b].phase = "missed"] /\ bind' # [bind EXCEPT ![b] = Idle("success")]
      BY <1>1, <1>2, <2>2 DEF BindStates, Replies
    <3>2. QED BY <3>1 DEF Lookup
  <2>6. PICK p \in Pods, w \in Passwords : ReadRow(b, p, w)
    BY <1>3, <2>1, <2>3, <2>4, <2>5 DEF Handler
  <2>7. QED BY <1>1, <1>2, <2>2, <2>6 DEF ReadRow, Replies
<1>4. ASSUME NEW f \in Binds, Verification(f)
      PROVE  /\ bind[b].phase = "waiting" /\ bind[b].leader = f /\ SameKey(f, b)
             /\ \/ flight[f] = "rejected"
                \/ Remembers(bind[f].pod, bind[f].sub, bind[f].pw)
  <2>1. bind[b].phase = "waiting" /\ bind[b].leader = f /\ Running(f) /\ SameKey(f, b)
    BY <1>1, <1>4, VerificationEnds DEF Ending, FlightsInv
  <2>2. \A reply \in Replies : Ends(f, reply) => reply = "invalid"
    BY <1>1, <2>1, EndsAll
  <2>3. bind' # bind
    BY <1>1
  <2>4. Admit(f) \/ Reject(f)
    BY <1>4, <2>2, <2>3 DEF Verification, TakeSlot, Verify, Succeed, Silent, SilenceMeans,
       Panic, Replies
  <2>5. Reject(f) => flight[f] = "rejected"
    BY DEF Reject
  <2>6. Admit(f) => Remembers(bind[f].pod, bind[f].sub, bind[f].pw)
    BY <2>2, <2>3 DEF Admit, Replies
  <2>7. QED BY <2>1, <2>4, <2>5, <2>6
<1>5. ASSUME NEW p \in Pods, Restart(p) PROVE FALSE
  BY <1>1, <1>5, RestartEnds
<1>6. ~(Tick \/ ClerkSide \/ UNCHANGED vars)
  BY <1>1 DEF Tick, ClerkSide, vars
<1>7. QED BY <1>3, <1>4, <1>5, <1>6 DEF Next, SameKey

\* A bind succeeds only with a password Clerk held in the version the bind read or a later
\* one, and held no longer ago than a cached entry lives: a retired password is retired.
THEOREM RetiredIsRetired == Spec => SuccessIsCurrent
<1>1. ASSUME Inv, [Next]_vars, NEW b \in Binds, Told(b, "success")
      PROVE  Held(bind[b].pw, bind[b].sub.at, now - Ttl - 1)
  <2>1. now \in Nat /\ Ttl \in Nat /\ TypeOK
    BY <1>1, BindAssumption DEF Inv, TypeOK, BudgetTypeOK
  <2>2. CASE /\ Usable(cache[bind[b].pod], bind[b].sub)
             /\ cache[bind[b].pod].pw = bind[b].pw
    <3> DEFINE e == cache[bind[b].pod]
    <3>1. bind[b].pod \in Pods /\ e # Nothing /\ now < e.expires /\ e.sub = bind[b].sub
          /\ e.pw = bind[b].pw
      BY <2>1, <2>2 DEF TypeOK, BindStates, Usable
    <3>2. e.expires \in Nat
      BY <2>1, <3>1 DEF TypeOK, Entries
    <3>3. Held(e.pw, e.sub.at, e.expires - Ttl - 1)
      BY <1>1, <3>1 DEF Inv, TruthInv
    <3> HIDE DEF e
    <3>4. QED BY <2>1, <3>1, <3>2, <3>3, HeldEarlier
  <2>3. CASE /\ bind[b].leader \in Binds /\ flight[bind[b].leader] = "verified"
             /\ SameKey(bind[b].leader, b)
    <3>1. PICK f \in Binds : flight[f] = "verified" /\ SameKey(f, b)
      BY <2>3
    <3>2. Held(bind[f].pw, bind[f].sub.at, bind[f].since) /\ now <= bind[f].since + 1
      BY <1>1, <3>1 DEF Inv, TruthInv, Open, Running
    <3>3. bind[f].since \in Nat
      BY <2>1 DEF TypeOK, BindStates
    <3>4. Held(bind[f].pw, bind[f].sub.at, now - Ttl - 1)
      BY <2>1, <3>2, <3>3, HeldEarlier
    <3>5. QED BY <3>1, <3>4 DEF SameKey
  <2>4. QED BY <1>1, <2>2, <2>3, SuccessTold
<1>2. Inv /\ [Next]_vars => [\A b \in Binds : Told(b, "success") =>
         \E v \in DOMAIN clerk :
            /\ v >= bind[b].sub.at
            /\ clerk[v].pw = bind[b].pw
            /\ v \in StoodSince(now - Ttl - 1)]_vars
  BY <1>1 DEF Held
<1>3. QED BY <1>2, InvAlways, PTL DEF Spec, SuccessIsCurrent

\* "Invalid credentials" is said only where the person has no active row, or where some
\* version since the one the bind read had another password.
THEOREM InvalidNeverLies == Spec => InvalidIsTrue
<1>1. ASSUME Inv, [Next]_vars, NEW b \in Binds, Told(b, "invalid")
      PROVE  \/ bind[b].phase = "new" /\ ~Projected
             \/ Differs(bind[b].pw, bind[b].sub.at)
  <2>1. CASE /\ bind[b].leader \in Binds /\ SameKey(bind[b].leader, b)
             /\ flight[bind[b].leader] = "rejected"
    BY <1>1, <2>1 DEF Inv, TruthInv, SameKey
  <2>2. CASE Remembers(bind[b].pod, bind[b].sub, bind[b].pw)
    <3>1. bind[b].pod \in Pods
      BY <1>1 DEF Inv, TypeOK, BindStates
    <3>2. PICK r \in refused[bind[b].pod].macs :
             r.pw = bind[b].pw /\ refused[bind[b].pod] # Nothing
             /\ refused[bind[b].pod].sub = bind[b].sub
      BY <2>2 DEF Remembers, Current
    <3>3. Differs(r.pw, refused[bind[b].pod].sub.at)
      BY <1>1, <3>1, <3>2 DEF Inv, TruthInv
    <3>4. QED BY <3>2, <3>3
  <2>3. QED BY <1>1, <2>1, <2>2, InvalidTold
<1>2. Inv /\ [Next]_vars => [\A b \in Binds : Told(b, "invalid") =>
         \/ bind[b].phase = "new" /\ ~Projected
         \/ \E v \in DOMAIN clerk : v >= bind[b].sub.at /\ clerk[v].pw # bind[b].pw]_vars
  BY <1>1 DEF Differs
<1>3. QED BY <1>2, InvAlways, PTL DEF Spec, InvalidIsTrue

\* A bind that began after a revocation is never answered from a verification, fresh or
\* cached, whose reading of the row is older than that revocation.
THEOREM RevokedIsRevoked == Spec => RevocationHolds
<1>1. ASSUME Inv, [Next]_vars, NEW b \in Binds, Told(b, "success")
      PROVE  AnsweredFrom(b) >= bind[b].read
  <2>1. TypeOK /\ ReadsInv /\ bind[b].pod \in Pods /\ bind[b].read \in Nat
    BY <1>1 DEF Inv, TypeOK, BindStates
  <2>2. CASE /\ bind[b].phase = "read"
             /\ Usable(cache[bind[b].pod], bind[b].sub)
    <3> DEFINE e == cache[bind[b].pod]
    <3>1. e # Nothing /\ e.sub = bind[b].sub /\ Open(b) /\ AnsweredFrom(b) = e.read
      BY <2>2 DEF Usable, Open, Pending, AnsweredFrom
    <3>2. [sub |-> e.sub, read |-> e.read] \in Reads
      BY <2>1, <3>1 DEF Reads, Kept
    <3>3. [sub |-> bind[b].sub, read |-> bind[b].read] \in Reads
      BY <2>1, <3>1, OpenReads
    <3> HIDE DEF e
    <3>4. e.read = bind[b].read
      <4> DEFINE x == [sub |-> e.sub, read |-> e.read]
                 y == [sub |-> bind[b].sub, read |-> bind[b].read]
      <4>1. x \in Reads /\ y \in Reads /\ x.sub = y.sub /\ x.read = e.read /\ y.read = bind[b].read
        BY <3>1, <3>2, <3>3
      <4> HIDE DEF x, y
      <4>2. QED BY <2>1, <4>1, SameReading
    <3>5. QED BY <2>1, <3>1, <3>4
  <2>3. CASE /\ bind[b].phase = "waiting" /\ bind[b].leader \in Binds
             /\ flight[bind[b].leader] = "verified" /\ SameKey(bind[b].leader, b)
    <3>1. PICK f \in Binds : f = bind[b].leader /\ flight[f] = "verified" /\ SameKey(f, b)
      BY <2>3
    <3>2. Open(b) /\ Open(f) /\ bind[f].sub = bind[b].sub /\ AnsweredFrom(b) = bind[f].read
      BY <2>3, <3>1 DEF Open, Pending, Running, SameKey, AnsweredFrom
    <3> DEFINE x == [sub |-> bind[f].sub, read |-> bind[f].read]
               y == [sub |-> bind[b].sub, read |-> bind[b].read]
    <3>3. x \in Reads /\ y \in Reads
      BY <2>1, <3>2, OpenReads
    <3>4. x.sub = y.sub /\ x.read = bind[f].read /\ y.read = bind[b].read
      BY <3>2
    <3> HIDE DEF x, y
    <3>5. bind[f].read = bind[b].read
      BY <2>1, <3>3, <3>4, SameReading
    <3>6. QED BY <2>1, <3>2, <3>5
  <2>4. QED BY <1>1, <2>2, <2>3, SuccessTold
<1>2. Inv /\ [Next]_vars =>
         [\A b \in Binds : Told(b, "success") => AnsweredFrom(b) >= bind[b].read]_vars
  BY <1>1
<1>3. QED BY <1>2, InvAlways, PTL DEF Spec, RevocationHolds
=============================================================================
