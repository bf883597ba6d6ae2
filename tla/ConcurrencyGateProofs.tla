----------------------- MODULE ConcurrencyGateProofs -----------------------
(***************************************************************************)
(* Proofs about ConcurrencyGate for every finite set of clients, every     *)
(* limit and every size of the queue.                                      *)
(***************************************************************************)
EXTENDS ConcurrencyGate, FiniteSetTheorems, SequenceTheorems, TLAPS

USE GateAssumption

-----------------------------------------------------------------------------
(***************************************************************************)
(* How many clients are in a state.                                        *)
(***************************************************************************)

Members(f, s) == {c \in Clients : f[c] = s}

Count(f, s) == Cardinality(Members(f, s))

\* A number of clients is a natural number.
LEMMA CountNat ==
    ASSUME NEW f, NEW s
    PROVE  IsFiniteSet(Members(f, s)) /\ Count(f, s) \in Nat
<1>1. Members(f, s) \in SUBSET Clients
  BY DEF Members
<1>2. IsFiniteSet(Members(f, s))
  BY <1>1, FS_Subset
<1> QED
  BY <1>2, FS_CardinalityType DEF Count

\* A client that is in a state makes its count positive.
LEMMA CountPositive ==
    ASSUME NEW f, NEW c \in Clients
    PROVE  Count(f, f[c]) > 0
<1>1. c \in Members(f, f[c])
  BY DEF Members
<1>2. Cardinality(Members(f, f[c])) /= 0
  BY <1>1, CountNat, FS_EmptySet
<1> QED
  BY <1>2, CountNat DEF Count

\* From f to g one client moves from s to t.
Moved(f, g, s, t) ==
    /\ Count(g, s) = Count(f, s) - 1
    /\ Count(g, t) = Count(f, t) + 1
    /\ \A u : u /= t /\ u /= s => Count(g, u) = Count(f, u)

\* One client that changes its state changes two counts by one.
LEMMA CountMove ==
    ASSUME NEW f \in [Clients -> States], NEW g \in [Clients -> States],
           NEW c \in Clients, f[c] /= g[c],
           \A d \in Clients \ {c} : g[d] = f[d]
    PROVE  Moved(f, g, f[c], g[c])
<1> DEFINE s == f[c]  t == g[c]
<1>2. Members(g, s) = Members(f, s) \ {c}
  BY DEF Members
<1>3. Members(g, t) = Members(f, t) \cup {c}
  BY DEF Members
<1>4. ASSUME NEW u, u /= t, u /= s
      PROVE  Members(g, u) = Members(f, u)
  BY <1>4 DEF Members
<1>5. c \in Members(f, s) /\ c \notin Members(f, t)
  BY DEF Members
<1>6. Count(g, s) = Count(f, s) - 1
  BY <1>2, <1>5, CountNat, FS_RemoveElement DEF Count
<1>7. Count(g, t) = Count(f, t) + 1
  BY <1>3, <1>5, CountNat, FS_AddElement DEF Count
<1> QED
  BY <1>4, <1>6, <1>7 DEF Moved, Count

-----------------------------------------------------------------------------
(***************************************************************************)
(* The inductive invariant.  The bounds of TypeOK follow from the counts,  *)
(* so only the types are carried along.                                    *)
(***************************************************************************)

Typed ==
    /\ state \in [Clients -> States]
    /\ value \in Nat
    /\ waiters \in Seq(Clients)
    /\ waiting \in Int
    /\ active \in Int
    /\ waiting <= QueueSize

IInv == Typed /\ SlotsConserved /\ CountersAgree

\* The same invariant in terms of the counts.
LEMMA InvCounts ==
    /\ SlotsConserved <=> value + Count(state, "active") + Count(state, "woken") = Limit
    /\ CountersAgree <=>
          /\ active = Count(state, "active")
          /\ waiting = Count(state, "queued") + Count(state, "woken")
                          + Count(state, "expired")
BY DEF SlotsConserved, CountersAgree, Count, Members, In

LEMMA InvCountsPrimed ==
    /\ SlotsConserved' <=>
          value' + Count(state', "active") + Count(state', "woken") = Limit
    /\ CountersAgree' <=>
          /\ active' = Count(state', "active")
          /\ waiting' = Count(state', "queued") + Count(state', "woken")
                           + Count(state', "expired")
BY DEF SlotsConserved, CountersAgree, Count, Members, In

\* Unlist takes one element out of the list.
LEMMA UnlistTyped ==
    ASSUME waiters \in Seq(Clients), NEW c \in Clients, Unlist(c)
    PROVE  waiters' \in Seq(Clients)
<1>1. PICK i \in DOMAIN waiters : waiters' = RemoveAt(waiters, i)
  BY DEF Unlist
<1>2. i \in 1..Len(waiters) /\ Len(waiters) \in Nat
  BY LenProperties
<1>3. \A j \in 1..Len(waiters) : waiters[j] \in Clients
  BY LenProperties, ElementOfSeq
<1>4. SubSeq(waiters, 1, i - 1) \in Seq(Clients)
  BY <1>2, <1>3, SubSeqProperties
<1>5. SubSeq(waiters, i + 1, Len(waiters)) \in Seq(Clients)
  BY <1>2, <1>3, SubSeqProperties
<1> QED
  BY <1>1, <1>4, <1>5, ConcatProperties DEF RemoveAt

\* The state after a wake-up, against the state g without it.
WakeEffect(free, g) ==
    /\ state' \in [Clients -> States]
    /\ value' \in Nat
    /\ value' + Count(state', "woken") = free + Count(g, "woken")
    /\ Count(state', "queued") + Count(state', "woken")
          = Count(g, "queued") + Count(g, "woken")
    /\ Count(state', "active") = Count(g, "active")
    /\ Count(state', "expired") = Count(g, "expired")

\* What a wake-up does to the counts: at most one queued client is woken, and
\* the slot it is handed is one of the free ones.
LEMMA WakeCounts ==
    ASSUME Typed, NEW c \in Clients, NEW free \in Nat,
           state[c] /= "queued",
           NEW after \in {"idle", "active"},
           Wake(free, c, after)
    PROVE  \A g : g = [state EXCEPT ![c] = after] => WakeEffect(free, g)
<1>g. SUFFICES
        ASSUME NEW g, g = [state EXCEPT ![c] = after]
        PROVE  WakeEffect(free, g)
  OBVIOUS
<1>0. after \in States /\ g \in [Clients -> States]
  BY <1>g DEF Typed, States
<1>1. CASE state' = g /\ value' = free
  <2>1. /\ Count(g, "woken") \in Nat
        /\ Count(g, "queued") \in Nat
    BY CountNat
  <2> QED
    BY <1>0, <1>1, <2>1 DEF WakeEffect
<1>2. CASE /\ free > 0
           /\ \E i \in DOMAIN waiters :
                 /\ Pending(i)
                 /\ state' = [state EXCEPT ![c] = after, ![waiters[i]] = "woken"]
           /\ value' = free - 1
  <2>1. PICK i \in DOMAIN waiters :
           /\ Pending(i)
           /\ state' = [state EXCEPT ![c] = after, ![waiters[i]] = "woken"]
    BY <1>2
  <2>2. PICK d \in Clients : d = waiters[i]
    BY LenProperties, ElementOfSeq DEF Typed
  <2>3. d /= c /\ g[d] = "queued"
    BY <1>g, <2>1, <2>2 DEF Typed, Pending
  <2>4. state' = [g EXCEPT ![d] = "woken"]
    BY <1>g, <2>1, <2>2, <2>3 DEF Typed
  <2>5. "woken" \in States /\ "woken" /= g[d]
    BY <2>3 DEF States
  <2>6. /\ state' \in [Clients -> States]
        /\ Count(state', "queued") = Count(g, "queued") - 1
        /\ Count(state', "woken") = Count(g, "woken") + 1
        /\ \A u : u /= "woken" /\ u /= "queued" => Count(state', u) = Count(g, u)
    <3>1. /\ state' \in [Clients -> States]
          /\ state'[d] = "woken"
          /\ \A e \in Clients \ {d} : state'[e] = g[e]
      BY <1>0, <2>4, <2>5
    <3> QED
      <4>1. Moved(g, state', g[d], state'[d])
        BY <1>0, <2>3, <3>1, CountMove
      <4> QED
        BY <2>3, <3>1, <4>1 DEF Moved
  <2>7. /\ Count(state', "active") = Count(g, "active")
        /\ Count(state', "expired") = Count(g, "expired")
    BY <2>6
  <2>8. Count(g, "queued") \in Nat /\ Count(g, "woken") \in Nat
    BY CountNat
  <2> QED
    BY <1>2, <2>6, <2>7, <2>8 DEF WakeEffect
<1> QED
  BY <1>g, <1>1, <1>2 DEF Wake

\* A step that moves one client, with a wake-up on top of it or without.
LEMMA MoveCounts ==
    ASSUME Typed, NEW c \in Clients, NEW t \in States, t /= state[c]
    PROVE  \A g : g = [state EXCEPT ![c] = t] =>
               g \in [Clients -> States] /\ Moved(state, g, state[c], t)
<1>g. SUFFICES
        ASSUME NEW g, g = [state EXCEPT ![c] = t]
        PROVE  g \in [Clients -> States] /\ Moved(state, g, state[c], t)
  OBVIOUS
<1>1. /\ state \in [Clients -> States]
      /\ g \in [Clients -> States]
      /\ g[c] = t
      /\ \A d \in Clients \ {c} : g[d] = state[d]
  BY <1>g DEF Typed
<1> QED
  BY <1>1, CountMove

\* The counts the invariant is about are natural numbers.
CountsAreNat(f) ==
    /\ Count(f, "active") \in Nat /\ Count(f, "woken") \in Nat
    /\ Count(f, "queued") \in Nat /\ Count(f, "expired") \in Nat

LEMMA CountsNat == \A f : CountsAreNat(f)
BY CountNat DEF CountsAreNat

\* The requests that _waiting counts.
Listed(f) == Count(f, "queued") + Count(f, "woken") + Count(f, "expired")

\* A step preserves the invariant when the variables follow the counts.
LEMMA Recount ==
    ASSUME IInv, Typed',
           value' + Count(state', "active") + Count(state', "woken")
             = value + Count(state, "active") + Count(state, "woken"),
           active' = active + (Count(state', "active") - Count(state, "active")),
           waiting' = waiting + (Listed(state') - Listed(state))
    PROVE  IInv'
<1>1. SlotsConserved /\ CountersAgree /\ Typed
  BY DEF IInv
<1>2. /\ value + Count(state, "active") + Count(state, "woken") = Limit
      /\ active = Count(state, "active")
      /\ waiting = Listed(state)
  BY <1>1, InvCounts DEF Listed
<1>3. active \in Int /\ active' \in Int /\ waiting \in Int /\ waiting' \in Int
  BY <1>1 DEF Typed
<1>4. /\ CountsAreNat(state) /\ CountsAreNat(state')
      /\ Listed(state) \in Nat /\ Listed(state') \in Nat
  BY CountsNat DEF CountsAreNat, Listed
<1>5. value' + Count(state', "active") + Count(state', "woken") = Limit
  BY <1>2
<1>6. active' = Count(state', "active")
  BY <1>2, <1>3, <1>4 DEF CountsAreNat
<1>7. waiting' = Listed(state')
  BY <1>2, <1>3, <1>4 DEF CountsAreNat
<1> QED
  BY <1>5, <1>6, <1>7, InvCountsPrimed DEF IInv, Listed

-----------------------------------------------------------------------------
(***************************************************************************)
(* The invariant is established and preserved.                             *)
(***************************************************************************)

LEMMA InitInv == Init => IInv
<1> SUFFICES ASSUME Init PROVE IInv
  OBVIOUS
<1>1. Typed
  BY DEF Init, Typed, States
<1>2. \A s \in {"active", "woken", "queued", "expired"} : Count(state, s) = 0
  <2>1. ASSUME NEW s \in {"active", "woken", "queued", "expired"}
        PROVE  Members(state, s) = {}
    BY <2>1 DEF Members, Init
  <2> QED
    BY <2>1, FS_EmptySet DEF Count
<1>3. SlotsConserved /\ CountersAgree
  BY <1>2, InvCounts DEF Init
<1> QED
  BY <1>1, <1>3 DEF IInv

\* Arrivals and refusals touch none of the states that are counted.
LEMMA OutsideStep ==
    ASSUME IInv, NEW c \in Clients, Arrive(c) \/ Reject(c)
    PROVE  IInv'
<1>0. Typed /\ SlotsConserved /\ CountersAgree
  BY DEF IInv
<1>1. \E s, t \in {"idle", "probing"} :
          s /= t /\ state[c] = s /\ state' = [state EXCEPT ![c] = t]
  BY DEF Arrive, Reject
<1>2. PICK s \in {"idle", "probing"}, t \in {"idle", "probing"} :
          s /= t /\ state[c] = s /\ state' = [state EXCEPT ![c] = t]
  BY <1>1
<1>3. t \in States
  BY DEF States
<1>4. state' \in [Clients -> States] /\ Moved(state, state', s, t)
  BY <1>0, <1>2, <1>3, MoveCounts
<1>5. UNCHANGED <<value, waiters, waiting, active>>
  BY DEF Arrive, Reject
<1>6. Typed'
  BY <1>0, <1>4, <1>5 DEF Typed
<1>7. /\ Count(state', "active") = Count(state, "active")
      /\ Count(state', "woken") = Count(state, "woken")
      /\ Count(state', "queued") = Count(state, "queued")
      /\ Count(state', "expired") = Count(state, "expired")
  BY <1>4 DEF Moved
<1>8. /\ CountsAreNat(state) /\ CountsAreNat(state')
      /\ value \in Int /\ waiting \in Int /\ active \in Int
  BY <1>0, CountsNat DEF Typed
<1> QED
  BY <1>5, <1>6, <1>7, <1>8, Recount DEF CountsAreNat, Listed

\* A slot that is free and not promised to anybody is taken at once.
LEMMA EnterFreeStep ==
    ASSUME IInv, NEW c \in Clients, EnterFree(c)
    PROVE  IInv'
<1>0. Typed /\ SlotsConserved /\ CountersAgree
  BY DEF IInv
<1>1. /\ "active" \in States /\ "active" /= state[c] /\ state[c] = "probing"
      /\ value /= 0 /\ value' = value - 1 /\ active' = active + 1
      /\ UNCHANGED <<waiters, waiting>>
  BY DEF EnterFree, Locked, States
<1>a. state' = [state EXCEPT ![c] = "active"]
  BY DEF EnterFree
<1>2. state' \in [Clients -> States] /\ Moved(state, state', "probing", "active")
  BY <1>0, <1>1, <1>a, MoveCounts
<1>3. Typed'
  BY <1>0, <1>1, <1>2 DEF Typed
<1>4. /\ Count(state', "active") = Count(state, "active") + 1
      /\ Count(state', "woken") = Count(state, "woken")
      /\ Count(state', "queued") = Count(state, "queued")
      /\ Count(state', "expired") = Count(state, "expired")
  BY <1>2 DEF Moved
<1>8. /\ CountsAreNat(state) /\ CountsAreNat(state')
      /\ value \in Int /\ waiting \in Int /\ active \in Int
  BY <1>0, CountsNat DEF Typed
<1> QED
  BY <1>1, <1>3, <1>4, <1>8, Recount DEF CountsAreNat, Listed

LEMMA EnterQueueStep ==
    ASSUME IInv, NEW c \in Clients, EnterQueue(c)
    PROVE  IInv'
<1>0. Typed /\ SlotsConserved /\ CountersAgree
  BY DEF IInv
<1>1. /\ "queued" \in States /\ "queued" /= state[c] /\ state[c] = "probing"
      /\ waiting < QueueSize /\ waiting' = waiting + 1
      /\ waiters' = Append(waiters, c)
      /\ UNCHANGED <<value, active>>
  BY DEF EnterQueue, States
<1>a. state' = [state EXCEPT ![c] = "queued"]
  BY DEF EnterQueue
<1>2. state' \in [Clients -> States] /\ Moved(state, state', "probing", "queued")
  BY <1>0, <1>1, <1>a, MoveCounts
<1>3. Typed'
  BY <1>0, <1>1, <1>2 DEF Typed
<1>4. /\ Count(state', "active") = Count(state, "active")
      /\ Count(state', "woken") = Count(state, "woken")
      /\ Count(state', "queued") = Count(state, "queued") + 1
      /\ Count(state', "expired") = Count(state, "expired")
  BY <1>2 DEF Moved
<1>8. /\ CountsAreNat(state) /\ CountsAreNat(state')
      /\ value \in Int /\ waiting \in Int /\ active \in Int
  BY <1>0, CountsNat DEF Typed
<1> QED
  BY <1>1, <1>3, <1>4, <1>8, Recount DEF CountsAreNat, Listed

\* A queued request whose timer fires is still counted as waiting.
LEMMA QueueTimeoutStep ==
    ASSUME IInv, NEW c \in Clients, QueueTimeout(c)
    PROVE  IInv'
<1>0. Typed /\ SlotsConserved /\ CountersAgree
  BY DEF IInv
<1>1. /\ "expired" \in States /\ "expired" /= state[c] /\ state[c] = "queued"
      /\ UNCHANGED <<value, waiters, waiting, active>>
  BY DEF QueueTimeout, States
<1>a. state' = [state EXCEPT ![c] = "expired"]
  BY DEF QueueTimeout
<1>2. state' \in [Clients -> States] /\ Moved(state, state', "queued", "expired")
  BY <1>0, <1>1, <1>a, MoveCounts
<1>3. Typed'
  BY <1>0, <1>1, <1>2 DEF Typed
<1>4. /\ Count(state', "active") = Count(state, "active")
      /\ Count(state', "woken") = Count(state, "woken")
      /\ Count(state', "queued") = Count(state, "queued") - 1
      /\ Count(state', "expired") = Count(state, "expired") + 1
  BY <1>2 DEF Moved
<1>8. /\ CountsAreNat(state) /\ CountsAreNat(state')
      /\ value \in Int /\ waiting \in Int /\ active \in Int
  BY <1>0, CountsNat DEF Typed
<1> QED
  BY <1>1, <1>3, <1>4, <1>8, Recount DEF CountsAreNat, Listed

\* It leaves the queue without a slot to give back.
LEMMA LeaveStep ==
    ASSUME IInv, NEW c \in Clients, Leave(c)
    PROVE  IInv'
<1>0. Typed /\ SlotsConserved /\ CountersAgree
  BY DEF IInv
<1>1. /\ "idle" \in States /\ "idle" /= state[c] /\ state[c] = "expired"
      /\ waiting' = waiting - 1
      /\ Unlist(c)
      /\ UNCHANGED <<value, active>>
  BY DEF Leave, States
<1>a. state' = [state EXCEPT ![c] = "idle"]
  BY DEF Leave
<1>2. state' \in [Clients -> States] /\ Moved(state, state', "expired", "idle")
  BY <1>0, <1>1, <1>a, MoveCounts
<1>3. waiters' \in Seq(Clients)
  BY <1>0, <1>1, UnlistTyped DEF Typed
<1>4. Typed'
  BY <1>0, <1>1, <1>2, <1>3 DEF Typed
<1>5. /\ Count(state', "active") = Count(state, "active")
      /\ Count(state', "woken") = Count(state, "woken")
      /\ Count(state', "queued") = Count(state, "queued")
      /\ Count(state', "expired") = Count(state, "expired") - 1
  BY <1>2 DEF Moved
<1>8. /\ CountsAreNat(state) /\ CountsAreNat(state')
      /\ value \in Int /\ waiting \in Int /\ active \in Int
  BY <1>0, CountsNat DEF Typed
<1> QED
  BY <1>1, <1>4, <1>5, <1>8, Recount DEF CountsAreNat, Listed

\* A woken request turns the slot it was handed into its own, and passes a spare
\* one on.
LEMMA ResumeStep ==
    ASSUME IInv, NEW c \in Clients, Resume(c)
    PROVE  IInv'
<1>0. Typed /\ value \in Nat
  BY DEF IInv, Typed
<1>1. /\ state[c] = "woken" /\ "active" \in States
      /\ Wake(value, c, "active")
      /\ waiting' = waiting - 1 /\ active' = active + 1
      /\ Unlist(c)
  BY DEF Resume, States
<1>2. PICK g : g = [state EXCEPT ![c] = "active"]
  OBVIOUS
<1>3. Moved(state, g, "woken", "active")
  BY <1>0, <1>1, <1>2, MoveCounts
<1>4. WakeEffect(value, g)
  BY <1>0, <1>1, <1>2, WakeCounts
<1>5. waiters' \in Seq(Clients)
  BY <1>0, <1>1, UnlistTyped DEF Typed
<1>6. Typed'
  BY <1>0, <1>1, <1>4, <1>5 DEF Typed, WakeEffect
<1>7. /\ Count(g, "active") = Count(state, "active") + 1
      /\ Count(g, "woken") = Count(state, "woken") - 1
      /\ Count(g, "queued") = Count(state, "queued")
      /\ Count(g, "expired") = Count(state, "expired")
  BY <1>3 DEF Moved
<1>8. /\ CountsAreNat(state) /\ CountsAreNat(state') /\ CountsAreNat(g)
      /\ value \in Int /\ value' \in Int /\ waiting \in Int /\ active \in Int
  BY <1>0, <1>4, CountsNat DEF Typed, WakeEffect
<1>9. value' + Count(state', "active") + Count(state', "woken")
        = value + Count(state, "active") + Count(state, "woken")
  BY <1>4, <1>7, <1>8 DEF WakeEffect, CountsAreNat
<1>10. active' = active + (Count(state', "active") - Count(state, "active"))
  BY <1>1, <1>4, <1>7, <1>8 DEF WakeEffect, CountsAreNat
<1>11. waiting' = waiting + (Listed(state') - Listed(state))
  BY <1>1, <1>4, <1>7, <1>8 DEF WakeEffect, CountsAreNat, Listed
<1> QED
  BY <1>6, <1>9, <1>10, <1>11, Recount

\* A request that times out after it was woken gives its slot back.
LEMMA LeaveWokenStep ==
    ASSUME IInv, NEW c \in Clients, LeaveWoken(c)
    PROVE  IInv'
<1>0. Typed /\ value \in Nat /\ value + 1 \in Nat
  BY DEF IInv, Typed
<1>1. /\ state[c] = "woken" /\ "idle" \in States
      /\ Wake(value + 1, c, "idle")
      /\ waiting' = waiting - 1 /\ active' = active
      /\ Unlist(c)
  BY DEF LeaveWoken, States
<1>2. PICK g : g = [state EXCEPT ![c] = "idle"]
  OBVIOUS
<1>3. Moved(state, g, "woken", "idle")
  BY <1>0, <1>1, <1>2, MoveCounts
<1>4. WakeEffect(value + 1, g)
  <2>1. PICK free \in Nat : free = value + 1
    BY <1>0
  <2>2. WakeEffect(free, g)
    BY <1>0, <1>1, <1>2, <2>1, WakeCounts
  <2> QED
    BY <2>1, <2>2
<1>5. waiters' \in Seq(Clients)
  BY <1>0, <1>1, UnlistTyped DEF Typed
<1>6. Typed'
  BY <1>0, <1>1, <1>4, <1>5 DEF Typed, WakeEffect
<1>7. /\ Count(g, "active") = Count(state, "active")
      /\ Count(g, "woken") = Count(state, "woken") - 1
      /\ Count(g, "queued") = Count(state, "queued")
      /\ Count(g, "expired") = Count(state, "expired")
  BY <1>3 DEF Moved
<1>8. /\ CountsAreNat(state) /\ CountsAreNat(state') /\ CountsAreNat(g)
      /\ value \in Int /\ value' \in Int /\ waiting \in Int /\ active \in Int
  BY <1>0, <1>4, CountsNat DEF Typed, WakeEffect
<1>9. value' + Count(state', "active") + Count(state', "woken")
        = value + Count(state, "active") + Count(state, "woken")
  BY <1>4, <1>7, <1>8 DEF WakeEffect, CountsAreNat
<1>10. active' = active + (Count(state', "active") - Count(state, "active"))
  BY <1>1, <1>4, <1>7, <1>8 DEF WakeEffect, CountsAreNat
<1>11. waiting' = waiting + (Listed(state') - Listed(state))
  BY <1>1, <1>4, <1>7, <1>8 DEF WakeEffect, CountsAreNat, Listed
<1> QED
  BY <1>6, <1>9, <1>10, <1>11, Recount

\* A request that ends gives its slot back or hands it on.
LEMMA FinishStep ==
    ASSUME IInv, NEW c \in Clients, Finish(c)
    PROVE  IInv'
<1>0. Typed /\ value \in Nat /\ value + 1 \in Nat
  BY DEF IInv, Typed
<1>1. /\ state[c] = "active" /\ "idle" \in States
      /\ Wake(value + 1, c, "idle")
      /\ waiting' = waiting /\ active' = active - 1
      /\ waiters' = waiters
  BY DEF Finish, States
<1>2. PICK g : g = [state EXCEPT ![c] = "idle"]
  OBVIOUS
<1>3. Moved(state, g, "active", "idle")
  BY <1>0, <1>1, <1>2, MoveCounts
<1>4. WakeEffect(value + 1, g)
  <2>1. PICK free \in Nat : free = value + 1
    BY <1>0
  <2>2. WakeEffect(free, g)
    BY <1>0, <1>1, <1>2, <2>1, WakeCounts
  <2> QED
    BY <2>1, <2>2
<1>5. waiters' \in Seq(Clients)
  BY <1>0, <1>1 DEF Typed
<1>6. Typed'
  BY <1>0, <1>1, <1>4, <1>5 DEF Typed, WakeEffect
<1>7. /\ Count(g, "active") = Count(state, "active") - 1
      /\ Count(g, "woken") = Count(state, "woken")
      /\ Count(g, "queued") = Count(state, "queued")
      /\ Count(g, "expired") = Count(state, "expired")
  BY <1>3 DEF Moved
<1>8. /\ CountsAreNat(state) /\ CountsAreNat(state') /\ CountsAreNat(g)
      /\ value \in Int /\ value' \in Int /\ waiting \in Int /\ active \in Int
  BY <1>0, <1>4, CountsNat DEF Typed, WakeEffect
<1>9. value' + Count(state', "active") + Count(state', "woken")
        = value + Count(state, "active") + Count(state, "woken")
  BY <1>4, <1>7, <1>8 DEF WakeEffect, CountsAreNat
<1>10. active' = active + (Count(state', "active") - Count(state, "active"))
  BY <1>1, <1>4, <1>7, <1>8 DEF WakeEffect, CountsAreNat
<1>11. waiting' = waiting + (Listed(state') - Listed(state))
  BY <1>1, <1>4, <1>7, <1>8 DEF WakeEffect, CountsAreNat, Listed
<1> QED
  BY <1>6, <1>9, <1>10, <1>11, Recount

LEMMA InvStep == IInv /\ [Next]_vars => IInv'
<1> SUFFICES ASSUME IInv, [Next]_vars PROVE IInv'
  OBVIOUS
<1>1. CASE UNCHANGED vars
  BY <1>1 DEF vars, IInv, Typed, SlotsConserved, CountersAgree, In
<1>2. ASSUME NEW c \in Clients,
             \/ Arrive(c) \/ Reject(c) \/ EnterFree(c) \/ EnterQueue(c) \/ Resume(c)
             \/ QueueTimeout(c) \/ Leave(c) \/ LeaveWoken(c) \/ Finish(c)
      PROVE  IInv'
  BY <1>2, OutsideStep, EnterFreeStep, EnterQueueStep, ResumeStep, QueueTimeoutStep,
     LeaveStep, LeaveWokenStep, FinishStep
<1> QED
  BY <1>1, <1>2 DEF Next

-----------------------------------------------------------------------------

\* The bounds of the type invariant follow from the counts.
LEMMA InvTypeOK == IInv => TypeOK
<1> SUFFICES ASSUME IInv PROVE TypeOK
  OBVIOUS
<1>1. /\ Typed
      /\ value + Count(state, "active") + Count(state, "woken") = Limit
      /\ active = Count(state, "active")
      /\ waiting = Listed(state)
  BY InvCounts DEF IInv, Listed
<1>2. CountsAreNat(state)
  BY CountsNat
<1>3. value \in 0..Limit /\ active \in 0..Limit
  BY <1>1, <1>2 DEF Typed, CountsAreNat
<1>4. waiting \in 0..QueueSize
  BY <1>1, <1>2 DEF Typed, CountsAreNat, Listed
<1> QED
  BY <1>1, <1>3, <1>4 DEF Typed, TypeOK

THEOREM InvAlways == Spec => []IInv
BY InitInv, InvStep, PTL DEF Spec

\* Every reachable state of the gate is of its type: the free slots and the
\* running requests stay within the limit, the waiting ones within the queue.
THEOREM TypeCorrect == Spec => []TypeOK
BY InvAlways, InvTypeOK, PTL

\* No order of arrivals, wake-ups, queue timeouts and releases loses or forges a
\* slot.
THEOREM SlotsAlwaysConserved == Spec => []SlotsConserved
<1>1. IInv => SlotsConserved
  BY DEF IInv
<1> QED
  BY <1>1, InvAlways, PTL

\* _active_count and _waiting say how many requests run and wait.
THEOREM CountersAlwaysAgree == Spec => []CountersAgree
<1>1. IInv => CountersAgree
  BY DEF IInv
<1> QED
  BY <1>1, InvAlways, PTL

-----------------------------------------------------------------------------
(***************************************************************************)
(* The gate implements the abstract one.                                   *)
(***************************************************************************)

\* A step that changes the stage of one client.
LEMMA StageMove ==
    ASSUME NEW c \in Clients, NEW next,
           Stage(state'[c]) = next,
           \A d \in Clients \ {c} : Stage(state'[d]) = Stage(state[d])
    PROVE  /\ Abstract!Become(c, next)
           /\ Stage(state[c]) = next => UNCHANGED Status
BY DEF Abstract!Become, Status

\* A wake-up changes the stage of the client that runs and of no other.
LEMMA WakeStages ==
    ASSUME Typed, NEW c \in Clients, NEW free, state[c] /= "queued",
           NEW after \in {"idle", "active"},
           Wake(free, c, after)
    PROVE  /\ state'[c] = after
           /\ \A d \in Clients \ {c} : Stage(state'[d]) = Stage(state[d])
<1>1. CASE state' = [state EXCEPT ![c] = after]
  BY <1>1 DEF Typed
<1>2. CASE \E i \in DOMAIN waiters :
              /\ Pending(i)
              /\ state' = [state EXCEPT ![c] = after, ![waiters[i]] = "woken"]
  <2>1. PICK i \in DOMAIN waiters :
           /\ Pending(i)
           /\ state' = [state EXCEPT ![c] = after, ![waiters[i]] = "woken"]
    BY <1>2
  <2>2. waiters[i] \in Clients /\ state[waiters[i]] = "queued"
    BY <2>1, LenProperties, ElementOfSeq DEF Typed, Pending
  <2>3. Stage("woken") = Stage("queued")
    BY DEF Stage
  <2>4. state'[c] = after
    BY <2>1, <2>2 DEF Typed
  <2>5. ASSUME NEW d \in Clients \ {c}
        PROVE  Stage(state'[d]) = Stage(state[d])
    BY <2>1, <2>2, <2>3 DEF Typed
  <2> QED
    BY <2>4, <2>5
<1> QED
  BY <1>1, <1>2 DEF Wake

\* The abstract module counts with its own copy of Cardinality.
LEMMA SameCardinality == \A S : Abstract!Cardinality(S) = Cardinality(S)
BY DEF Abstract!Cardinality, Cardinality

\* A slot that is free or promised is one that is not taken.
LEMMA RoomToServe ==
    ASSUME IInv, NEW c \in Clients, value > 0 \/ state[c] = "woken"
    PROVE  Abstract!Cardinality(Abstract!Served) < Limit
<1>1. Abstract!Served = Members(state, "active")
  BY DEF Abstract!Served, Members, Status, Stage
<1>2. /\ value \in Nat
      /\ value + Count(state, "active") + Count(state, "woken") = Limit
  BY InvCounts DEF IInv, Typed
<1>3. CountsAreNat(state)
  BY CountsNat
<1>4. value > 0 \/ Count(state, "woken") > 0
  BY CountPositive
<1>5. Count(state, "active") < Limit
  BY <1>2, <1>3, <1>4 DEF CountsAreNat
<1> QED
  BY <1>1, <1>5, SameCardinality DEF Count

\* Every step of the gate is a step of the abstract one or changes no status.
LEMMA StepRefines == IInv /\ [Next]_vars => [Abstract!Next]_Status
<1> SUFFICES ASSUME IInv, [Next]_vars PROVE Abstract!Next \/ UNCHANGED Status
  OBVIOUS
<1>0. Typed
  BY DEF IInv
<1>1. CASE UNCHANGED vars
  BY <1>1 DEF vars, Status
<1>2. ASSUME NEW c \in Clients, Arrive(c) PROVE Abstract!Next
  <2>1. state[c] = "idle" /\ state' = [state EXCEPT ![c] = "probing"]
    BY <1>2 DEF Arrive
  <2>2. Abstract!Become(c, "waiting")
    BY <1>0, <2>1, StageMove DEF Typed, Stage
  <2> QED
    BY <2>1, <2>2 DEF Abstract!Next, Abstract!Ask, Status, Stage
<1>3. ASSUME NEW c \in Clients, Reject(c) \/ Leave(c) PROVE Abstract!Next
  <2>1. /\ state[c] \in {"probing", "expired"}
        /\ state' = [state EXCEPT ![c] = "idle"]
    BY <1>3 DEF Reject, Leave
  <2>2. Abstract!Become(c, "away")
    BY <1>0, <2>1, StageMove DEF Typed, Stage
  <2> QED
    BY <2>1, <2>2 DEF Abstract!Next, Abstract!TurnAway, Status, Stage
<1>4. ASSUME NEW c \in Clients, EnterFree(c) PROVE Abstract!Next
  <2>1. /\ state[c] = "probing" /\ value > 0
        /\ state' = [state EXCEPT ![c] = "active"]
    BY <1>0, <1>4 DEF EnterFree, Locked, Typed
  <2>2. Abstract!Become(c, "served")
    BY <1>0, <2>1, StageMove DEF Typed, Stage
  <2>3. Abstract!Cardinality(Abstract!Served) < Limit
    BY <2>1, RoomToServe
  <2> QED
    BY <2>1, <2>2, <2>3 DEF Abstract!Next, Abstract!Serve, Status, Stage
<1>5. ASSUME NEW c \in Clients, EnterQueue(c) \/ QueueTimeout(c)
      PROVE  UNCHANGED Status
  <2>1. \E s \in {"queued", "expired"} :
           state[c] \in {"probing", "queued"} /\ state' = [state EXCEPT ![c] = s]
    BY <1>5 DEF EnterQueue, QueueTimeout
  <2> QED
    BY <1>0, <2>1, StageMove DEF Typed, Stage
<1>6. ASSUME NEW c \in Clients, Resume(c) PROVE Abstract!Next
  <2>1. state[c] = "woken" /\ Wake(value, c, "active")
    BY <1>6 DEF Resume
  <2>2. Abstract!Become(c, "served")
    BY <1>0, <2>1, WakeStages, StageMove DEF Stage
  <2>3. Abstract!Cardinality(Abstract!Served) < Limit
    BY <2>1, RoomToServe
  <2> QED
    BY <2>1, <2>2, <2>3 DEF Abstract!Next, Abstract!Serve, Status, Stage
<1>7. ASSUME NEW c \in Clients, LeaveWoken(c) PROVE Abstract!Next
  <2>1. state[c] = "woken" /\ Wake(value + 1, c, "idle")
    BY <1>7 DEF LeaveWoken
  <2>2. Abstract!Become(c, "away")
    BY <1>0, <2>1, WakeStages, StageMove DEF Stage
  <2> QED
    BY <2>1, <2>2 DEF Abstract!Next, Abstract!TurnAway, Status, Stage
<1>8. ASSUME NEW c \in Clients, Finish(c) PROVE Abstract!Next
  <2>1. state[c] = "active" /\ Wake(value + 1, c, "idle")
    BY <1>8 DEF Finish
  <2>2. Abstract!Become(c, "away")
    BY <1>0, <2>1, WakeStages, StageMove DEF Stage
  <2> QED
    BY <2>1, <2>2 DEF Abstract!Next, Abstract!Depart, Status, Stage
<1> QED
  BY <1>1, <1>2, <1>3, <1>4, <1>5, <1>6, <1>7, <1>8 DEF Next

LEMMA InitRefines == Init => Abstract!Init
BY DEF Init, Abstract!Init, Status, Stage

\* The middleware over the semaphore keeps every promise of safety of the
\* abstract gate: it serves a client that asked, at most Limit at a time, and
\* nobody is turned away while served.
THEOREM GateRefinesAdmission == Spec => Abstract!SafeSpec
BY InitRefines, StepRefines, InvAlways, PTL DEF Spec, Abstract!SafeSpec

-----------------------------------------------------------------------------
(***************************************************************************)
(* No wake-up is lost.  A wake-up scans the list of waiters, so the        *)
(* invariant says what that list holds.                                    *)
(***************************************************************************)

InQueue == {"queued", "woken", "expired"}

Lists(s, c) == \E i \in 1..Len(s) : s[i] = c

Distinct(s) == \A i, j \in 1..Len(s) : s[i] = s[j] => i = j

\* The list holds the clients that queue, once each.
ListInv ==
    /\ Distinct(waiters)
    /\ \A c \in Clients : Lists(waiters, c) <=> state[c] \in InQueue

WInv == IInv /\ ListInv /\ NoIdleSlot

-----------------------------------------------------------------------------

\* Unlist takes one entry out of the list: those behind it move up by one.
LEMMA UnlistMovesUp ==
    ASSUME waiters \in Seq(Clients), NEW c \in Clients, Unlist(c)
    PROVE  /\ Len(waiters) \in Nat
           /\ \E i \in 1..Len(waiters) :
                 /\ waiters[i] = c
                 /\ Len(waiters') = Len(waiters) - 1
                 /\ \A j \in 1..(Len(waiters) - 1) :
                       waiters'[j] = IF j < i THEN waiters[j] ELSE waiters[j + 1]
<1> DEFINE n == Len(waiters)
<1>1. PICK i \in DOMAIN waiters :
         waiters[i] = c /\ waiters' = RemoveAt(waiters, i)
  BY DEF Unlist
<1>2. i \in 1..n /\ n \in Nat
  BY LenProperties
<1> DEFINE s == SubSeq(waiters, 1, i - 1)
           t == SubSeq(waiters, i + 1, n)
<1>3. \A j \in 1..n : waiters[j] \in Clients
  BY LenProperties, ElementOfSeq
<1>4. /\ s \in Seq(Clients) /\ Len(s) = i - 1
      /\ \A j \in 1..(i - 1) : s[j] = waiters[j]
  BY <1>2, <1>3, SubSeqProperties
<1>5. /\ t \in Seq(Clients) /\ Len(t) = n - i
      /\ \A j \in 1..(n - i) : t[j] = waiters[i + j]
  BY <1>2, <1>3, SubSeqProperties
<1>6. waiters' = s \o t
  BY <1>1 DEF RemoveAt
<1> HIDE DEF s, t
<1>7. /\ Len(waiters') = n - 1
      /\ \A j \in 1..(n - 1) : waiters'[j] = IF j < i THEN waiters[j] ELSE waiters[j + 1]
  <2>1. /\ Len(s \o t) = Len(s) + Len(t)
        /\ \A j \in 1..(Len(s) + Len(t)) :
              (s \o t)[j] = IF j <= Len(s) THEN s[j] ELSE t[j - Len(s)]
    BY <1>4, <1>5, ConcatProperties
  <2>2. Len(s) + Len(t) = n - 1
    BY <1>2, <1>4, <1>5
  <2>3. ASSUME NEW j \in 1..(n - 1)
        PROVE  waiters'[j] = IF j < i THEN waiters[j] ELSE waiters[j + 1]
    <3>1. CASE j < i
      <4>1. j \in 1..(i - 1)
        BY <1>2, <2>3, <3>1
      <4>2. waiters'[j] = s[j]
        BY <1>2, <1>4, <1>6, <2>1, <2>2, <2>3, <3>1
      <4> QED BY <1>4, <3>1, <4>1, <4>2
    <3>2. CASE ~(j < i)
      <4>1. j - (i - 1) \in 1..(n - i) /\ i + (j - (i - 1)) = j + 1
        BY <1>2, <2>3, <3>2
      <4>2. waiters'[j] = t[j - (i - 1)]
        BY <1>2, <1>4, <1>6, <2>1, <2>2, <2>3, <3>2
      <4>3. t[j - (i - 1)] = waiters[j + 1]
        BY <1>5, <4>1
      <4> QED BY <3>2, <4>2, <4>3
    <3> QED BY <3>1, <3>2
  <2> QED BY <1>6, <2>1, <2>2, <2>3
<1> QED BY <1>1, <1>2, <1>7

\* Unlist takes the client out of the list and nobody else.
LEMMA UnlistEffect ==
    ASSUME waiters \in Seq(Clients), Distinct(waiters), NEW c \in Clients, Unlist(c)
    PROVE  /\ Distinct(waiters')
           /\ \A d \in Clients : Lists(waiters', d) <=> Lists(waiters, d) /\ d /= c
<1> DEFINE n == Len(waiters)
<1>2. n \in Nat
  BY UnlistMovesUp
<1>1. PICK i \in 1..n :
         /\ waiters[i] = c
         /\ Len(waiters') = n - 1
         /\ \A j \in 1..(n - 1) : waiters'[j] = IF j < i THEN waiters[j] ELSE waiters[j + 1]
  BY UnlistMovesUp
<1>7. /\ Len(waiters') = n - 1
      /\ \A j \in 1..(n - 1) : waiters'[j] = IF j < i THEN waiters[j] ELSE waiters[j + 1]
  BY <1>1
<1>8. Distinct(waiters')
  <2> SUFFICES ASSUME NEW j \in 1..(n - 1), NEW k \in 1..(n - 1),
                      waiters'[j] = waiters'[k]
               PROVE  j = k
    BY <1>7 DEF Distinct
  <2>1. \A a, b \in 1..n : waiters[a] = waiters[b] => a = b
    BY DEF Distinct
  <2>2. j \in 1..n /\ j + 1 \in 1..n /\ k \in 1..n /\ k + 1 \in 1..n
    BY <1>2
  <2>3. CASE j < i /\ k < i
    BY <1>7, <2>1, <2>2, <2>3
  <2>4. CASE j < i /\ ~(k < i)
    BY <1>2, <1>7, <2>1, <2>2, <2>4
  <2>5. CASE ~(j < i) /\ k < i
    BY <1>2, <1>7, <2>1, <2>2, <2>5
  <2>6. CASE ~(j < i) /\ ~(k < i)
    <3>1. j + 1 = k + 1
      BY <1>7, <2>1, <2>2, <2>6
    <3> QED BY <3>1
  <2> QED BY <2>3, <2>4, <2>5, <2>6
<1>9. ASSUME NEW d \in Clients, Lists(waiters', d)
      PROVE  Lists(waiters, d) /\ d /= c
  <2>1. PICK j \in 1..(n - 1) : waiters'[j] = d
    BY <1>7, <1>9 DEF Lists
  <2>2. \A a, b \in 1..n : waiters[a] = waiters[b] => a = b
    BY DEF Distinct
  <2>3. PICK k \in 1..n : waiters[k] = d /\ k /= i
    <3>1. CASE j < i
      BY <1>2, <1>7, <2>1, <3>1
    <3>2. CASE ~(j < i)
      <4>1. j + 1 \in 1..n /\ j + 1 /= i
        BY <1>2, <3>2
      <4> QED BY <1>7, <2>1, <3>2, <4>1
    <3> QED BY <3>1, <3>2
  <2> QED BY <1>1, <1>2, <2>2, <2>3 DEF Lists
<1>10. ASSUME NEW d \in Clients, Lists(waiters, d), d /= c
       PROVE  Lists(waiters', d)
  <2>1. PICK k \in 1..n : waiters[k] = d
    BY <1>10 DEF Lists
  <2>2. k /= i
    BY <1>1, <1>10, <2>1
  <2>3. CASE k < i
    <3>1. k \in 1..(n - 1)
      BY <1>2, <2>3
    <3> QED BY <1>7, <2>1, <2>3, <3>1 DEF Lists
  <2>4. CASE ~(k < i)
    <3>1. k - 1 \in 1..(n - 1) /\ ~(k - 1 < i) /\ (k - 1) + 1 = k
      BY <1>2, <2>2, <2>4
    <3> QED BY <1>7, <2>1, <3>1 DEF Lists
  <2> QED BY <2>3, <2>4
<1> QED BY <1>8, <1>9, <1>10

\* One client moves, and one that was queued may be woken with it.
Shifts(c, t) ==
    /\ state'[c] = t
    /\ \A d \in Clients \ {c} :
          state'[d] = state[d] \/ (state[d] = "queued" /\ state'[d] = "woken")

WokenIfIdle ==
    value' > 0 /\ (\E d \in Clients : state'[d] = "queued")
        => \E d \in Clients : state'[d] = "woken"

\* A wake-up leaves no slot idle: it hands one on, has none, or found nobody.
LEMMA WakeShifts ==
    ASSUME Typed, ListInv, NEW c \in Clients, NEW free \in Nat,
           state[c] /= "queued", NEW after \in {"idle", "active"},
           Wake(free, c, after)
    PROVE  Shifts(c, after) /\ WokenIfIdle
<1>0. \A d \in Clients : state[d] = "queued" => Lists(waiters, d)
  BY DEF ListInv, InQueue
<1>1. CASE /\ free > 0
           /\ \E i \in DOMAIN waiters :
                 /\ Pending(i)
                 /\ state' = [state EXCEPT ![c] = after, ![waiters[i]] = "woken"]
  <2>1. PICK i \in DOMAIN waiters :
           /\ Pending(i)
           /\ state' = [state EXCEPT ![c] = after, ![waiters[i]] = "woken"]
    BY <1>1
  <2>2. PICK d \in Clients : d = waiters[i]
    BY LenProperties, ElementOfSeq DEF Typed
  <2>3. d /= c /\ state[d] = "queued"
    BY <2>1, <2>2 DEF Pending
  <2>4. state'[c] = after /\ state'[d] = "woken"
    BY <2>1, <2>2, <2>3 DEF Typed
  <2>5. \A e \in Clients \ {c} : e /= d => state'[e] = state[e]
    BY <2>1, <2>2 DEF Typed
  <2> QED BY <2>3, <2>4, <2>5 DEF Shifts, WokenIfIdle
<1>2. CASE /\ free = 0 \/ \A i \in DOMAIN waiters : ~Pending(i)
           /\ state' = [state EXCEPT ![c] = after]
           /\ value' = free
  <2>1. Shifts(c, after)
    BY <1>2 DEF Shifts, Typed
  <2>2. ASSUME value' > 0, NEW d \in Clients, state'[d] = "queued"
        PROVE  FALSE
    <3>1. \A i \in DOMAIN waiters : ~Pending(i)
      BY <1>2, <2>2
    <3>2. state[d] = "queued"
      BY <1>2, <2>2 DEF Typed
    <3>3. PICK i \in 1..Len(waiters) : waiters[i] = d
      BY <1>0, <3>2 DEF Lists
    <3>4. i \in DOMAIN waiters
      BY LenProperties DEF Typed
    <3> QED BY <3>1, <3>2, <3>3, <3>4 DEF Pending
  <2> QED BY <2>1, <2>2 DEF WokenIfIdle
<1> QED BY <1>1, <1>2 DEF Wake

\* The list follows the states when one client moves within the queue or
\* outside it.
LEMMA ListStays ==
    ASSUME ListInv, NEW c \in Clients, NEW t, Shifts(c, t), waiters' = waiters,
           state[c] \in InQueue <=> t \in InQueue
    PROVE  ListInv'
<1>1. \A d \in Clients : state'[d] \in InQueue <=> state[d] \in InQueue
  BY DEF Shifts, InQueue
<1> QED BY <1>1 DEF ListInv

\* It follows when one client leaves the queue.
LEMMA ListShrinks ==
    ASSUME ListInv, waiters \in Seq(Clients), NEW c \in Clients, NEW t, Shifts(c, t),
           Unlist(c), t \notin InQueue
    PROVE  ListInv'
<1>1. /\ Distinct(waiters')
      /\ \A d \in Clients : Lists(waiters', d) <=> Lists(waiters, d) /\ d /= c
  BY UnlistEffect DEF ListInv
<1>2. \A d \in Clients : d /= c => (state'[d] \in InQueue <=> state[d] \in InQueue)
  BY DEF Shifts, InQueue
<1>3. state'[c] \notin InQueue
  BY DEF Shifts
<1> QED BY <1>1, <1>2, <1>3 DEF ListInv

\* NoIdleSlot in terms of the clients.
LEMMA IdleMeaning ==
    /\ NoIdleSlot <=> (value > 0 /\ (\E d \in Clients : state[d] = "queued")
                          => \E d \in Clients : state[d] = "woken")
    /\ NoIdleSlot' <=> WokenIfIdle
BY DEF NoIdleSlot, WokenIfIdle, In

-----------------------------------------------------------------------------

LEMMA ListInit == Init => ListInv /\ NoIdleSlot
<1> SUFFICES ASSUME Init PROVE ListInv /\ NoIdleSlot
  OBVIOUS
<1>1. Len(waiters) = 0 /\ \A c \in Clients : state[c] = "idle"
  BY DEF Init
<1>2. ListInv
  BY <1>1 DEF ListInv, Distinct, Lists, InQueue
<1> QED BY <1>1, <1>2, IdleMeaning

\* A step that wakes nobody.
LEMMA QuietStep ==
    ASSUME WInv, NEW c \in Clients,
           Arrive(c) \/ Reject(c) \/ EnterFree(c) \/ QueueTimeout(c) \/ Leave(c)
    PROVE  ListInv' /\ NoIdleSlot'
<1>0. Typed /\ ListInv /\ NoIdleSlot
  BY DEF WInv, IInv
<1>1. CASE Arrive(c) \/ Reject(c)
  <2>1. PICK t \in {"idle", "probing"} :
           state' = [state EXCEPT ![c] = t] /\ state[c] \in {"idle", "probing"}
    BY <1>1 DEF Arrive, Reject
  <2>2. Shifts(c, t) /\ waiters' = waiters /\ value' = value
    BY <1>0, <1>1, <2>1 DEF Shifts, Typed, Arrive, Reject
  <2>3. ListInv'
    BY <1>0, <2>1, <2>2, ListStays DEF InQueue
  <2>4. \A d \in Clients : /\ state'[d] = "queued" <=> state[d] = "queued"
                           /\ state'[d] = "woken" <=> state[d] = "woken"
    BY <1>0, <2>1 DEF Typed
  <2> QED BY <1>0, <2>2, <2>3, <2>4, IdleMeaning DEF WokenIfIdle
<1>2. CASE EnterFree(c)
  <2>1. /\ state' = [state EXCEPT ![c] = "active"] /\ state[c] = "probing"
        /\ waiters' = waiters
    BY <1>2 DEF EnterFree
  <2>2. Shifts(c, "active")
    BY <1>0, <2>1 DEF Shifts, Typed
  <2>3. ListInv'
    BY <1>0, <2>1, <2>2, ListStays DEF InQueue
  <2>4. ASSUME NEW d \in Clients, state'[d] = "queued" PROVE FALSE
    <3>1. state[d] = "queued"
      BY <1>0, <2>1, <2>4 DEF Typed
    <3>2. PICK i \in 1..Len(waiters) : waiters[i] = d
      BY <1>0, <3>1 DEF ListInv, Lists, InQueue
    <3>3. d \in ToSet(waiters)
      BY <1>0, <3>2, LenProperties DEF ToSet, Typed
    <3> QED BY <1>2, <3>1, <3>3 DEF EnterFree, Locked
  <2> QED BY <2>3, <2>4, IdleMeaning DEF WokenIfIdle
<1>3. CASE QueueTimeout(c)
  <2>1. /\ state' = [state EXCEPT ![c] = "expired"] /\ state[c] = "queued"
        /\ waiters' = waiters /\ value' = value
    BY <1>3 DEF QueueTimeout
  <2>2. Shifts(c, "expired")
    BY <1>0, <2>1 DEF Shifts, Typed
  <2>3. ListInv'
    BY <1>0, <2>1, <2>2, ListStays DEF InQueue
  <2>4. \A d \in Clients : /\ state'[d] = "queued" => state[d] = "queued"
                           /\ state[d] = "woken" => state'[d] = "woken"
    BY <1>0, <2>1 DEF Typed
  <2> QED BY <1>0, <2>1, <2>3, <2>4, IdleMeaning DEF WokenIfIdle
<1>4. CASE Leave(c)
  <2>1. /\ state' = [state EXCEPT ![c] = "idle"] /\ state[c] = "expired"
        /\ value' = value /\ Unlist(c)
    BY <1>4 DEF Leave
  <2>2. Shifts(c, "idle")
    BY <1>0, <2>1 DEF Shifts, Typed
  <2>3. ListInv'
    BY <1>0, <2>1, <2>2, ListShrinks DEF InQueue, Typed
  <2>4. \A d \in Clients : /\ state'[d] = "queued" => state[d] = "queued"
                           /\ state[d] = "woken" => state'[d] = "woken"
    BY <1>0, <2>1 DEF Typed
  <2> QED BY <1>0, <2>1, <2>3, <2>4, IdleMeaning DEF WokenIfIdle
<1> QED BY <1>1, <1>2, <1>3, <1>4

\* A newcomer queues behind a slot that is taken or promised.
LEMMA QueueStep ==
    ASSUME WInv, NEW c \in Clients, EnterQueue(c)
    PROVE  ListInv' /\ NoIdleSlot'
<1>0. Typed /\ ListInv /\ NoIdleSlot
  BY DEF WInv, IInv
<1> DEFINE n == Len(waiters)
<1>1. /\ state' = [state EXCEPT ![c] = "queued"] /\ state[c] = "probing"
      /\ waiters' = Append(waiters, c) /\ value' = value
  BY DEF EnterQueue
<1>2. n \in Nat /\ \A j \in 1..n : waiters[j] \in Clients
  BY <1>0, LenProperties, ElementOfSeq DEF Typed
<1>3. /\ Len(waiters') = n + 1 /\ waiters'[n + 1] = c
      /\ \A j \in 1..n : waiters'[j] = waiters[j]
  BY <1>0, <1>1, AppendProperties DEF Typed
<1>4. ~Lists(waiters, c)
  BY <1>0, <1>1 DEF ListInv, InQueue
<1>5. Distinct(waiters')
  <2> SUFFICES ASSUME NEW j \in 1..(n + 1), NEW k \in 1..(n + 1),
                      waiters'[j] = waiters'[k]
               PROVE  j = k
    BY <1>3 DEF Distinct
  <2>1. \A a \in 1..n : waiters[a] /= c
    BY <1>4 DEF Lists
  <2>2. \A a, b \in 1..n : waiters[a] = waiters[b] => a = b
    BY <1>0 DEF ListInv, Distinct
  <2>3. (j \in 1..n \/ j = n + 1) /\ (k \in 1..n \/ k = n + 1)
    BY <1>2
  <2> QED BY <1>3, <2>1, <2>2, <2>3
<1>6. ASSUME NEW d \in Clients
      PROVE  Lists(waiters', d) <=> state'[d] \in InQueue
  <2>1. CASE d = c
    <3>1. n + 1 \in 1..(n + 1)
      BY <1>2
    <3> QED BY <1>0, <1>1, <1>3, <2>1, <3>1 DEF Lists, InQueue, Typed
  <2>2. CASE d /= c
    <3>1. state'[d] = state[d]
      BY <1>0, <1>1, <2>2 DEF Typed
    <3>2. Lists(waiters', d) <=> Lists(waiters, d)
      <4>1. \A j \in 1..(n + 1) : j \in 1..n \/ j = n + 1
        BY <1>2
      <4>2. \A j \in 1..n : j \in 1..(n + 1)
        BY <1>2
      <4> QED BY <1>3, <2>2, <4>1, <4>2 DEF Lists
    <3> QED BY <1>0, <3>1, <3>2 DEF ListInv
  <2> QED BY <2>1, <2>2
<1>7. ASSUME value > 0 PROVE \E d \in Clients : state[d] = "woken"
  <2>1. PICK e \in ToSet(waiters) : state[e] /= "expired"
    BY <1>0, <1>7 DEF EnterQueue, Locked, Typed
  <2>2. PICK i \in 1..n : waiters[i] = e
    BY <1>0, LenProperties DEF ToSet, Typed
  <2>3. e \in Clients /\ state[e] \in InQueue
    BY <1>0, <1>2, <2>2 DEF ListInv, Lists
  <2>4. state[e] \in {"queued", "woken"}
    BY <2>1, <2>3 DEF InQueue
  <2> QED BY <1>0, <1>7, <2>3, <2>4, IdleMeaning
<1>8. WokenIfIdle
  <2>1. \A d \in Clients : state[d] = "woken" => state'[d] = "woken"
    BY <1>0, <1>1 DEF Typed
  <2> QED BY <1>1, <1>7, <2>1 DEF WokenIfIdle
<1> QED BY <1>5, <1>6, <1>8, IdleMeaning DEF ListInv

\* A step that passes a slot on.
LEMMA WakingStep ==
    ASSUME WInv, NEW c \in Clients, Resume(c) \/ LeaveWoken(c) \/ Finish(c)
    PROVE  ListInv' /\ NoIdleSlot'
<1>0. Typed /\ ListInv /\ value \in Nat /\ value + 1 \in Nat
  BY DEF WInv, IInv, Typed
<1>1. CASE Resume(c)
  <2>1. Unlist(c) /\ Wake(value, c, "active") /\ state[c] = "woken"
    BY <1>1 DEF Resume
  <2>2. Shifts(c, "active") /\ WokenIfIdle
    BY <1>0, <2>1, WakeShifts
  <2> QED BY <1>0, <2>1, <2>2, ListShrinks, IdleMeaning DEF InQueue, Typed
<1>2. CASE LeaveWoken(c)
  <2>1. Unlist(c) /\ Wake(value + 1, c, "idle") /\ state[c] = "woken"
    BY <1>2 DEF LeaveWoken
  <2>2. Shifts(c, "idle") /\ WokenIfIdle
    BY <1>0, <2>1, WakeShifts
  <2> QED BY <1>0, <2>1, <2>2, ListShrinks, IdleMeaning DEF InQueue, Typed
<1>3. CASE Finish(c)
  <2>1. waiters' = waiters /\ Wake(value + 1, c, "idle") /\ state[c] = "active"
    BY <1>3 DEF Finish
  <2>2. Shifts(c, "idle") /\ WokenIfIdle
    BY <1>0, <2>1, WakeShifts
  <2> QED BY <1>0, <2>1, <2>2, ListStays, IdleMeaning DEF InQueue
<1> QED BY <1>1, <1>2, <1>3

LEMMA WakeInvStep == WInv /\ [Next]_vars => WInv'
<1> SUFFICES ASSUME WInv, [Next]_vars PROVE WInv'
  OBVIOUS
<1>1. IInv'
  BY InvStep DEF WInv
<1>2. CASE UNCHANGED vars
  <2>1. ListInv' /\ NoIdleSlot'
    BY <1>2 DEF WInv, ListInv, Distinct, Lists, NoIdleSlot, In, vars
  <2> QED BY <1>1, <2>1 DEF WInv
<1>3. ASSUME NEW c \in Clients,
             \/ Arrive(c) \/ Reject(c) \/ EnterFree(c) \/ EnterQueue(c) \/ Resume(c)
             \/ QueueTimeout(c) \/ Leave(c) \/ LeaveWoken(c) \/ Finish(c)
      PROVE  WInv'
  BY <1>1, <1>3, QuietStep, QueueStep, WakingStep DEF WInv
<1> QED BY <1>2, <1>3 DEF Next

\* While a request waits in the queue, every free slot has a woken coroutine
\* behind it: no release and no timeout, in any order, loses a wake-up.
THEOREM NoWakeupLost == Spec => []NoIdleSlot
<1>1. Init => WInv
  BY InitInv, ListInit DEF WInv
<1>2. WInv => NoIdleSlot
  BY DEF WInv
<1> QED BY <1>1, <1>2, WakeInvStep, PTL DEF Spec

-----------------------------------------------------------------------------
(***************************************************************************)
(* Nobody is overtaken.  A wake-up takes the first pending waiter, so the  *)
(* pending waiters stay behind the woken ones.                             *)
(***************************************************************************)

\* No waiter that was woken stands behind one that is pending.
Ordered(s, f) ==
    \A i, j \in 1..Len(s) : i < j => ~(f[s[i]] = "queued" /\ f[s[j]] = "woken")

OInv == WInv /\ Ordered(waiters, state)

\* The first place of a client that is listed once is its place.
LEMMA PlaceOf ==
    ASSUME Distinct(waiters), NEW i \in 1..Len(waiters)
    PROVE  SelectInSeq(waiters, LAMBDA e : e = waiters[i]) = i
<1> DEFINE I == {k \in 1..Len(waiters) : waiters[k] = waiters[i]}
<1>1. I = {i}
  BY DEF Distinct
<1>2. (CHOOSE x \in {i} : \A y \in {i} : x =< y) = i
  OBVIOUS
<1>3. SelectInSeq(waiters, LAMBDA e : e = waiters[i]) = IF I # {} THEN Min(I) ELSE 0
  BY DEF SelectInSeq
<1> HIDE DEF I
<1> QED BY <1>1, <1>2, <1>3 DEF Min

\* Taking an entry out keeps the order of the others.
LEMMA UnlistKeepsOrder ==
    ASSUME waiters \in Seq(Clients), NEW c \in Clients, Unlist(c), NEW f,
           Ordered(waiters, f)
    PROVE  Ordered(waiters', f)
<1> DEFINE n == Len(waiters)
<1>1. n \in Nat
  BY UnlistMovesUp
<1>2. PICK i \in 1..n :
         /\ Len(waiters') = n - 1
         /\ \A j \in 1..(n - 1) : waiters'[j] = IF j < i THEN waiters[j] ELSE waiters[j + 1]
  BY UnlistMovesUp
<1>3. ASSUME NEW j \in 1..(n - 1), NEW k \in 1..(n - 1), j < k
      PROVE  ~(f[waiters'[j]] = "queued" /\ f[waiters'[k]] = "woken")
  <2>1. \A x \in 1..(n - 1) :
           LET m == IF x < i THEN x ELSE x + 1
           IN  m \in 1..n /\ waiters'[x] = waiters[m]
    BY <1>1, <1>2
  <2>2. PICK a \in 1..n, b \in 1..n : waiters'[j] = waiters[a] /\ waiters'[k] = waiters[b] /\ a < b
    <3>1. (IF j < i THEN j ELSE j + 1) < (IF k < i THEN k ELSE k + 1)
      BY <1>1, <1>3
    <3> QED BY <2>1, <3>1
  <2> QED BY <2>2 DEF Ordered
<1> QED BY <1>2, <1>3 DEF Ordered

\* A wake-up passes over no pending waiter.
LEMMA WakeKeepsOrder ==
    ASSUME Typed, ListInv, Ordered(waiters, state), NEW c \in Clients, NEW free \in Nat,
           state[c] /= "queued", NEW after \in {"idle", "active"},
           Wake(free, c, after)
    PROVE  Ordered(waiters, state')
<1>0. /\ Len(waiters) \in Nat /\ DOMAIN waiters = 1..Len(waiters)
      /\ \A i \in 1..Len(waiters) : waiters[i] \in Clients
  BY LenProperties, ElementOfSeq DEF Typed
<1>1. ASSUME NEW i \in 1..Len(waiters), Pending(i), \A j \in 1..(i - 1) : ~Pending(j),
             state' = [state EXCEPT ![c] = after, ![waiters[i]] = "woken"]
      PROVE  Ordered(waiters, state')
  <2>1. \A d \in Clients :
           /\ state'[d] = "queued" => state[d] = "queued"
           /\ state'[d] = "woken" => state[d] = "woken" \/ d = waiters[i]
    BY <1>0, <1>1 DEF Typed
  <2>2. ASSUME NEW k \in 1..Len(waiters), NEW l \in 1..Len(waiters), k < l,
               state'[waiters[k]] = "queued", state'[waiters[l]] = "woken"
        PROVE  FALSE
    <3>1. state[waiters[k]] = "queued"
      BY <1>0, <2>1, <2>2
    <3>2. state[waiters[l]] /= "woken"
      BY <2>2, <3>1 DEF Ordered
    <3>3. waiters[l] = waiters[i]
      BY <1>0, <2>1, <2>2, <3>2
    <3>4. l = i
      BY <3>3 DEF ListInv, Distinct
    <3>5. k \in 1..(i - 1)
      BY <2>2, <3>4
    <3> QED BY <1>1, <3>1, <3>5 DEF Pending
  <2> QED BY <2>2 DEF Ordered
<1>2. ASSUME state' = [state EXCEPT ![c] = after]
      PROVE  Ordered(waiters, state')
  <2>1. \A d \in Clients : /\ state'[d] = "queued" => state[d] = "queued"
                           /\ state'[d] = "woken" => state[d] = "woken"
    BY <1>2 DEF Typed
  <2> QED BY <1>0, <2>1 DEF Ordered
<1> QED BY <1>0, <1>1, <1>2 DEF Wake

LEMMA OrderInit == Init => Ordered(waiters, state)
BY DEF Init, Ordered

\* Every step keeps the order.
LEMMA OrderStep ==
    ASSUME OInv, [Next]_vars
    PROVE  Ordered(waiters', state')
<1>0. /\ Typed /\ ListInv /\ Ordered(waiters, state)
      /\ value \in Nat /\ value + 1 \in Nat /\ waiters \in Seq(Clients)
  BY DEF OInv, WInv, IInv, Typed
<1>1. Len(waiters) \in Nat /\ \A i \in 1..Len(waiters) : waiters[i] \in Clients
  BY <1>0, LenProperties, ElementOfSeq
<1>2. CASE UNCHANGED vars
  BY <1>0, <1>2 DEF vars
<1>3. ASSUME NEW c \in Clients,
             Arrive(c) \/ Reject(c) \/ EnterFree(c) \/ QueueTimeout(c) \/ Leave(c)
      PROVE  Ordered(waiters', state')
  <2>1. \A d \in Clients : /\ state'[d] = "queued" => state[d] = "queued"
                           /\ state'[d] = "woken" => state[d] = "woken"
    BY <1>0, <1>3 DEF Arrive, Reject, EnterFree, QueueTimeout, Leave, Typed
  <2>2. Ordered(waiters, state')
    BY <1>0, <1>1, <2>1 DEF Ordered
  <2>3. waiters' = waiters \/ Unlist(c)
    BY <1>3 DEF Arrive, Reject, EnterFree, QueueTimeout, Leave
  <2> QED BY <1>0, <2>2, <2>3, UnlistKeepsOrder
<1>4. ASSUME NEW c \in Clients, EnterQueue(c)
      PROVE  Ordered(waiters', state')
  <2>1. /\ Len(waiters') = Len(waiters) + 1
        /\ \A j \in 1..Len(waiters) : waiters'[j] = waiters[j]
        /\ waiters'[Len(waiters) + 1] = c
    BY <1>0, <1>4, AppendProperties DEF EnterQueue
  <2>2. /\ state'[c] = "queued"
        /\ \A d \in Clients : d /= c => state'[d] = state[d]
    BY <1>0, <1>4 DEF EnterQueue, Typed
  <2>3. \A i \in 1..Len(waiters) : waiters[i] /= c
    BY <1>0, <1>4 DEF EnterQueue, ListInv, Lists, InQueue
  <2>4. \A i \in 1..Len(waiters') : i \in 1..Len(waiters) \/ i = Len(waiters) + 1
    BY <1>1, <2>1
  <2>5. ASSUME NEW k \in 1..Len(waiters'), NEW l \in 1..Len(waiters'), k < l
        PROVE  ~(state'[waiters'[k]] = "queued" /\ state'[waiters'[l]] = "woken")
    <3>1. CASE l = Len(waiters) + 1
      BY <2>1, <2>2, <3>1
    <3>2. CASE l \in 1..Len(waiters)
      <4>1. k \in 1..Len(waiters)
        BY <1>1, <2>1, <2>5, <3>2
      <4> QED BY <1>0, <1>1, <2>1, <2>2, <2>3, <2>5, <3>2, <4>1 DEF Ordered
    <3> QED BY <2>4, <3>1, <3>2
  <2> QED BY <2>5 DEF Ordered
<1>5. ASSUME NEW c \in Clients, Resume(c) \/ LeaveWoken(c) \/ Finish(c)
      PROVE  Ordered(waiters', state')
  <2>1. PICK free \in Nat, after \in {"idle", "active"} :
           Wake(free, c, after) /\ state[c] /= "queued"
    BY <1>0, <1>5 DEF Resume, LeaveWoken, Finish
  <2>2. Ordered(waiters, state')
    BY <1>0, <2>1, WakeKeepsOrder
  <2>3. waiters' = waiters \/ Unlist(c)
    BY <1>5 DEF Resume, LeaveWoken, Finish
  <2> QED BY <1>0, <2>2, <2>3, UnlistKeepsOrder
<1> QED BY <1>2, <1>3, <1>4, <1>5 DEF Next

LEMMA OInvStep == OInv /\ [Next]_vars => OInv'
BY OrderStep, WakeInvStep DEF OInv

\* Only a newcomer that finds the gate free and a woken request start to run.
LEMMA WhoStarts ==
    ASSUME OInv, Next, NEW c \in Clients, state[c] /= "active", state'[c] = "active"
    PROVE  EnterFree(c) \/ (Resume(c) /\ Shifts(c, "active"))
<1>0. Typed /\ ListInv /\ value \in Nat /\ value + 1 \in Nat
  BY DEF OInv, WInv, IInv, Typed
<1>1. ASSUME NEW e \in Clients,
             \/ Arrive(e) \/ Reject(e) \/ EnterQueue(e) \/ QueueTimeout(e) \/ Leave(e)
      PROVE  FALSE
  BY <1>0, <1>1 DEF Arrive, Reject, EnterQueue, QueueTimeout, Leave, Typed
<1>2. ASSUME NEW e \in Clients, LeaveWoken(e) \/ Finish(e)
      PROVE  FALSE
  <2>1. Shifts(e, "idle")
    BY <1>0, <1>2, WakeShifts DEF LeaveWoken, Finish
  <2> QED BY <2>1 DEF Shifts
<1>3. ASSUME NEW e \in Clients, EnterFree(e)
      PROVE  EnterFree(c)
  <2>1. e = c
    BY <1>0, <1>3 DEF EnterFree, Typed
  <2> QED BY <1>3, <2>1
<1>4. ASSUME NEW e \in Clients, Resume(e)
      PROVE  Resume(c) /\ Shifts(c, "active")
  <2>1. Shifts(e, "active")
    BY <1>0, <1>4, WakeShifts DEF Resume
  <2>2. e = c
    BY <2>1 DEF Shifts
  <2> QED BY <1>4, <2>1, <2>2
<1> QED BY <1>1, <1>2, <1>3, <1>4 DEF Next

\* A request that starts passes nobody that waited before it.
LEMMA StartsInTurn ==
    ASSUME OInv, Next, NEW c \in Clients, state[c] /= "active", state'[c] = "active",
           NEW d \in (In("queued") \union In("woken")) \ {c}
    PROVE  /\ state[c] = "woken"
           /\ state'[d] = "queued" =>
                 SelectInSeq(waiters, LAMBDA e : e = c)
                    < SelectInSeq(waiters, LAMBDA e : e = d)
<1>0. Typed /\ ListInv /\ Ordered(waiters, state) /\ Distinct(waiters)
  BY DEF OInv, WInv, IInv, ListInv
<1>1. d \in Clients /\ d /= c /\ state[d] \in {"queued", "woken"}
  BY DEF In
<1>2. PICK j \in 1..Len(waiters) : waiters[j] = d
  BY <1>0, <1>1 DEF ListInv, Lists, InQueue
<1>3. ~EnterFree(c)
  <2>1. d \in ToSet(waiters)
    BY <1>0, <1>2, LenProperties DEF ToSet, Typed
  <2> QED BY <1>1, <2>1 DEF EnterFree, Locked
<1>4. Resume(c) /\ Shifts(c, "active") /\ state[c] = "woken"
  BY <1>3, WhoStarts DEF Resume
<1>5. ASSUME state'[d] = "queued"
      PROVE  SelectInSeq(waiters, LAMBDA e : e = c)
                < SelectInSeq(waiters, LAMBDA e : e = d)
  <2>1. state[d] = "queued"
    BY <1>1, <1>4, <1>5 DEF Shifts
  <2>2. PICK i \in 1..Len(waiters) : waiters[i] = c
    BY <1>0, <1>4 DEF ListInv, Lists, InQueue
  <2>3. ~(j < i) /\ i /= j
    BY <1>0, <1>1, <1>2, <1>4, <2>1, <2>2 DEF Ordered
  <2>4. i < j
    BY <1>2, <2>2, <2>3, LenProperties
  <2>5. /\ SelectInSeq(waiters, LAMBDA e : e = waiters[i]) = i
        /\ SelectInSeq(waiters, LAMBDA e : e = waiters[j]) = j
    BY <1>0, PlaceOf
  <2> QED BY <1>2, <2>2, <2>4, <2>5
<1> QED BY <1>4, <1>5

\* A newcomer starts only when nobody waits, and a woken request passes no
\* request that queued before it: a wake-up takes the first pending waiter.
THEOREM NobodyOvertaken == Spec => NoOvertaking
<1>1. Init => OInv
  BY InitInv, ListInit, OrderInit DEF OInv, WInv
<1>2. ASSUME OInv, [Next]_vars
      PROVE  [\A c \in Clients : state[c] /= "active" /\ state'[c] = "active" =>
                 \A d \in (In("queued") \union In("woken")) \ {c} :
                    /\ state[c] = "woken"
                    /\ state'[d] = "queued" =>
                          SelectInSeq(waiters, LAMBDA e : e = c)
                             < SelectInSeq(waiters, LAMBDA e : e = d)]_vars
  BY <1>2, StartsInTurn
<1> QED BY <1>1, <1>2, OInvStep, PTL DEF Spec, NoOvertaking

=============================================================================
