---------------------------- MODULE SessionProofs ----------------------------
(***************************************************************************)
(* A session tells its caller the truth, however many requests it takes.   *)
(***************************************************************************)
EXTENDS Session, TLAPS

Words   == {"ok", "tooLarge", "error", "lost"}
Endings == [how : {"done", "failed"}, tx : TxStates]

\* TellsTheTruth is kept because an open session has lost nothing and has an
\* ending for everything it told of, and only an open one has a request under way.
SessionInv ==
  /\ asked \in Nat /\ open \in BOOLEAN /\ did \in Seq(Endings) /\ told \in Seq(Words)
  /\ Len(did) <= asked /\ Len(told) <= asked /\ asked <= Len(told) + 1
  /\ ~Idle => open
  /\ open => Len(told) <= Len(did) /\ \A n \in 1..Len(told) : told[n] # "lost"
  /\ TellsTheTruth

\* Nothing is said of a request but what was said before, and the last word
\* has one of its three grounds.
LEMMA OneMoreWord ==
  ASSUME SessionInv, NEW w \in Words, told' = Append(told, w), UNCHANGED did,
         asked' \in Nat, Len(told') = asked',
         open,
         w \in {"ok", "tooLarge"} => Len(did) = asked' /\ did[asked'].how = "done",
         w = "error" => Len(did) = asked' /\ did[asked'].how = "failed",
         open' /\ asked' > 0 => status' = did[asked'].tx
  PROVE  TellsTheTruth'
<1>1. Len(told') = Len(told) + 1 /\ told'[Len(told) + 1] = w
  BY DEF SessionInv
<1>2. \A n \in 1..Len(told) : told'[n] = told[n]
  BY DEF SessionInv
<1>3. \A n \in 1..Len(told) : told[n] # "lost" /\ n <= Len(did)
  BY DEF SessionInv
<1>4. ASSUME NEW n \in 1..Len(told')
      PROVE  /\ told'[n] \in {"ok", "tooLarge"} => n <= Len(did') /\ did'[n].how = "done"
             /\ told'[n] = "error" => n <= Len(did') /\ did'[n].how = "failed"
             /\ told'[n] = "lost" => n = asked'
  <2>1. CASE n = Len(told) + 1
    BY <1>1, <2>1
  <2>2. CASE n \in 1..Len(told)
    BY <1>2, <1>3, <2>2 DEF SessionInv, TellsTheTruth
  <2> QED
    BY <1>1, <2>1, <2>2 DEF SessionInv
<1> QED
  BY <1>4 DEF TellsTheTruth

LEMMA SessionInit == Init => SessionInv
  BY DEF Init, SessionInv, TellsTheTruth, Idle

LEMMA SessionNext == SessionInv /\ [Next]_session => SessionInv'
<1> SUFFICES ASSUME SessionInv, [Next]_session PROVE SessionInv'
  OBVIOUS
<1>1. CASE Ask
  BY <1>1 DEF Ask, SessionInv, TellsTheTruth, Idle
<1>2. CASE Execute
  <2>1. PICK d \in Endings : did' = Append(did, d)
    BY <1>2 DEF Execute, Endings
  <2>2. /\ did' \in Seq(Endings) /\ Len(did') = Len(did) + 1
        /\ \A n \in 1..Len(did) : did'[n] = did[n]
    BY <2>1 DEF SessionInv
  <2>3. ~Idle \/ ~open
    BY <1>2 DEF Execute, SessionInv, Idle
  <2>4. Len(did) < asked /\ UNCHANGED <<open, asked, told, status>>
    BY <1>2 DEF Execute
  <2>5. TellsTheTruth'
    <3>1. ASSUME NEW n \in 1..Len(told)
          PROVE  /\ told[n] \in {"ok", "tooLarge"} => n <= Len(did') /\ did'[n].how = "done"
                 /\ told[n] = "error" => n <= Len(did') /\ did'[n].how = "failed"
                 /\ told[n] = "lost" => n = asked
      <4>1. told[n] \in {"ok", "tooLarge", "error"} => n \in 1..Len(did)
        BY DEF SessionInv, TellsTheTruth
      <4> QED
        BY <2>2, <4>1 DEF SessionInv, TellsTheTruth
    <3> QED
      BY <2>3, <2>4, <3>1 DEF TellsTheTruth, Idle
  <2> QED
    BY <2>2, <2>4, <2>5 DEF SessionInv, Idle
<1>3. CASE Tell
  <2>1. PICK w \in Says(did[asked].how) : told' = Append(told, w)
    BY <1>3 DEF Tell
  <2>2. /\ asked > 0 /\ asked \in 1..Len(did) /\ open
        /\ Len(told) + 1 = asked /\ Len(did) = asked
    BY <1>3 DEF Tell, SessionInv, Idle
  <2>3. did[asked] \in Endings
    BY <2>2 DEF SessionInv
  <2>4. /\ w \in Words /\ w # "lost"
        /\ w \in {"ok", "tooLarge"} => did[asked].how = "done"
        /\ w = "error" => did[asked].how = "failed"
    BY <2>1, <2>3 DEF Says, Words, Endings
  <2>5. /\ told' \in Seq(Words) /\ Len(told') = asked
        /\ \A n \in 1..Len(told') : told'[n] # "lost"
    BY <2>1, <2>2, <2>4 DEF SessionInv
  <2>6. UNCHANGED <<open, asked, did>> /\ status' = did[asked].tx
    BY <1>3 DEF Tell
  <2>7. TellsTheTruth'
    BY <2>1, <2>2, <2>4, <2>5, <2>6, OneMoreWord DEF SessionInv
  <2> QED
    BY <2>2, <2>5, <2>6, <2>7 DEF SessionInv, Idle
<1>4. CASE Lose
  <2>1. /\ told' = Append(told, "lost") /\ open /\ open' = FALSE /\ UNCHANGED <<did, status>>
        /\ asked' = Len(told) + 1
    BY <1>4 DEF Lose
  <2>2. /\ told' \in Seq(Words) /\ Len(told') = asked' /\ asked' \in Nat /\ asked <= asked'
    BY <2>1 DEF SessionInv, Words
  <2>3. TellsTheTruth'
    BY <2>1, <2>2, OneMoreWord DEF Words
  <2>4. Len(did') <= asked' /\ did' \in Seq(Endings)
    BY <2>1, <2>2 DEF SessionInv
  <2>5. Len(told') <= asked' /\ asked' <= Len(told') + 1
    <3>1. \A n \in Nat : n <= n /\ n <= n + 1
      OBVIOUS
    <3> QED
      BY <2>2, <3>1, Zenon
  <2>6. Idle'
    BY <2>2 DEF Idle
  <2> QED
    BY <2>1, <2>2, <2>3, <2>4, <2>5, <2>6 DEF SessionInv
<1>5. CASE Close
  BY <1>5 DEF Close, SessionInv, TellsTheTruth, Idle
<1>6. CASE UNCHANGED session
  BY <1>6 DEF session, SessionInv, TellsTheTruth, Idle
<1> QED
  BY <1>1, <1>2, <1>3, <1>4, <1>5, <1>6 DEF Next

\* For every number of requests: what a caller is told of a request is what
\* the server did with that request (simpleQuery), and only a session's last
\* request can be lost.
THEOREM Truth == Spec => []TellsTheTruth
<1>1. SessionInv => TellsTheTruth
  BY DEF SessionInv
<1> QED
  BY <1>1, SessionInit, SessionNext, PTL DEF Spec
=============================================================================
