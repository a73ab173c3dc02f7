--------------------------- MODULE VoterJobProofs ---------------------------
(* The write loop of voternoui.js, for any number of votes and any limit. *)
EXTENDS VoterJob, TLAPS

\* What is left of the chain after each link.
Left3 == <<"often", "results", "end">>
Left2 == <<"results", "end">>
Left1 == <<"end">>

LEMMA Links ==
  /\ Tail(GetSteps) = Left3 /\ Tail(Left3) = Left2 /\ Tail(Left2) = Left1 /\ Tail(Left1) = <<>>
  /\ Head(GetSteps) = "results" /\ Head(Left3) = "often"
  /\ Head(Left2) = "results" /\ Head(Left1) = "end"
  /\ Len(GetSteps) = 4 /\ Len(Left3) = 3 /\ Len(Left2) = 2 /\ Len(Left1) = 1 /\ Len(<<>>) = 0
<1> USE DEF Left3, Left2, Left1, GetSteps
<1>1. Tail(GetSteps) = Left3 /\ Head(GetSteps) = "results" /\ Len(GetSteps) = 4
  OBVIOUS
<1>2. Tail(Left3) = Left2 /\ Head(Left3) = "often" /\ Len(Left3) = 3
  OBVIOUS
<1>3. Tail(Left2) = Left1 /\ Head(Left2) = "results" /\ Len(Left2) = 2
  OBVIOUS
<1>4. Tail(Left1) = <<>> /\ Head(Left1) = "end" /\ Len(Left1) = 1
  OBVIOUS
<1>5. Len(<<>>) = 0
  OBVIOUS
<1>6. QED BY <1>1, <1>2, <1>3, <1>4, <1>5

LEMMA ConstantTypes ==
  /\ VoteCount \in Nat /\ VoteCount >= 1
  /\ MaxConsecutiveWrites \in Nat /\ MaxConsecutiveWrites >= 1
  /\ MaxStartups \in Nat /\ MaxVotes \in Nat /\ MaxVotes >= VoteCount
BY VoterConstants

\* VoterTypeOK in parts, which the provers take better apart.
NumbersOK ==
  /\ socket \in {"connecting", "connected", "loggedIn", "lost"}
  /\ sendCounter \in Int
  /\ pool \in {"valid", "invalid", "evicted"} /\ asking \in {0, 1}
  /\ startups \in 0 .. MaxStartups /\ inits \in 0 .. startups
  /\ index \in 0 .. VoteCount /\ reads = VoteCount - ended
  /\ sent \in 0 .. MaxVotes /\ ended \in 0 .. sent /\ expired \in 0 .. ended
  /\ shown \in 0 .. 2
  /\ process \in {"running", "exited", "crashed"}
StepsOK == steps \in {GetSteps, Left3, Left2, Left1, <<>>}

CounterOK == sendCounter + Uncounted >= 0

LEMMA TypeParts == VoterTypeOK <=> NumbersOK /\ CounterOK /\ blocked \in BOOLEAN /\ StepsOK
BY Zenon DEF VoterTypeOK, NumbersOK, CounterOK, StepsOK, Left3, Left2, Left1

LEMMA TypePartsNext ==
  VoterTypeOK' <=> NumbersOK' /\ CounterOK' /\ blocked' \in BOOLEAN /\ StepsOK'
BY Zenon DEF VoterTypeOK, NumbersOK, CounterOK, StepsOK, Left3, Left2, Left1

\* What has been registered and not counted.
LEMMA UncountedType ==
  /\ Uncounted \in {0, 1, 2} /\ Uncounted' \in {0, 1, 2}
  /\ pool' = pool => Uncounted' = Uncounted
BY DEF Uncounted

\* A call is counted, or its exception is; over a good socket it is counted.
LEMMA CallCounts ==
  ASSUME NEW s, NEW w \in Outcomes(s) \cup {"none"}, Pooled(w),
         pool \in {"valid", "invalid", "evicted"}
  PROVE  /\ pool' \in {"valid", "invalid", "evicted"}
         /\ Adds(w) \in {0, 1} /\ Registers(w) \in {0, 1}
         /\ Uncounted' + Adds(w) >= Uncounted + Registers(w)
         /\ pool = "valid" /\ s # "lost" => pool' = "valid" /\ w \in {"counted", "none"}
         /\ w = "none" => Adds(w) = 0 /\ Registers(w) = 0
         /\ w = "counted" => Adds(w) = 1 /\ Registers(w) = 1
<1>1. w \in {"none", "counted", "throws", "vanishes"}
      /\ (w = "vanishes" => pool = "evicted") /\ (w = "throws" => s = "lost")
      /\ (w \in {"counted", "throws"} => pool # "evicted")
  BY DEF Outcomes
<1>2. /\ Adds(w) \in {0, 1} /\ Registers(w) \in {0, 1}
      /\ w = "none" => Adds(w) = 0 /\ Registers(w) = 0
      /\ w = "counted" => Adds(w) = 1 /\ Registers(w) = 1
      /\ w = "throws" => Adds(w) = 0 /\ Registers(w) = 1
      /\ w = "vanishes" => Adds(w) = 0 /\ Registers(w) = 0
  BY DEF Adds, Registers
<1>3. CASE pool = "valid"
  <2>1. Uncounted = 0 /\ pool' = (IF w = "throws" THEN "invalid" ELSE "valid")
    BY <1>3 DEF Uncounted, Pooled
  <2>2. w = "throws" => Uncounted' = 1
    BY <2>1 DEF Uncounted
  <2>3. QED BY <1>1, <1>2, <1>3, <2>1, <2>2, UncountedType
<1>4. CASE pool = "invalid"
  <2>1. Uncounted = 1 /\ pool' = (IF w = "none" THEN "invalid" ELSE "evicted")
    BY <1>4 DEF Uncounted, Pooled
  <2>2. w # "none" => Uncounted' = 2
    BY <2>1 DEF Uncounted
  <2>3. w = "none" => Uncounted' = 1
    BY <2>1 DEF Uncounted
  <2>4. QED BY <1>1, <1>2, <1>4, <2>1, <2>2, <2>3
<1>5. CASE pool = "evicted"
  <2>1. Uncounted = 2 /\ pool' = "evicted"
    BY <1>5 DEF Uncounted, Pooled
  <2>2. Uncounted' = 2
    BY <2>1 DEF Uncounted
  <2>3. QED BY <1>1, <1>2, <1>5, <2>1, <2>2
<1>6. QED BY <1>3, <1>4, <1>5

\* Where the chain stands, in numbers.
LEMMA ChainCases ==
  ASSUME StepsOK
  PROVE  /\ Len(steps) \in {0, 1, 2, 3, 4}
         /\ steps = GetSteps <=> Len(steps) = 4
         /\ steps = <<>> <=> Len(steps) = 0
BY Links DEF StepsOK

LEMMA ChainCasesNext ==
  ASSUME StepsOK'
  PROVE  /\ Len(steps') \in {0, 1, 2, 3, 4}
         /\ steps' = GetSteps <=> Len(steps') = 4
         /\ steps' = <<>> <=> Len(steps') = 0
<1>1. steps' \in {GetSteps, Left3, Left2, Left1, <<>>}
  BY DEF StepsOK
<1>2. QED BY <1>1, Links

\* A link is taken off, and the last one ends the process.
LEMMA LinkRun ==
  ASSUME StepsOK, steps # <<>>, RunNextLink
  PROVE  /\ StepsOK'
         /\ Len(steps') = Len(steps) - 1
         /\ Len(steps) = 1 => process' = "exited"
         /\ Len(steps) # 1 => process' = process
         /\ Len(steps) = 4 \/ Len(steps) = 2 => LinkCalls = Outcomes(socket)
         /\ Len(steps) = 3 \/ Len(steps) = 1 => LinkCalls = {"none"}
<1>0. steps \in {GetSteps, Left3, Left2, Left1}
  BY DEF StepsOK
<1>1. CASE steps = GetSteps
  BY <1>1, Links DEF RunNextLink, LinkCalls, StepsOK
<1>2. CASE steps = Left3
  BY <1>2, Links DEF RunNextLink, LinkCalls, StepsOK
<1>3. CASE steps = Left2
  BY <1>3, Links DEF RunNextLink, LinkCalls, StepsOK
<1>4. CASE steps = Left1
  BY <1>4, Links DEF RunNextLink, LinkCalls, StepsOK
<1>5. QED BY <1>0, <1>1, <1>2, <1>3, <1>4

LEMMA JobInit == VoterInit => JobInv
<1> SUFFICES ASSUME VoterInit PROVE JobInv
  OBVIOUS
<1>0. Uncounted = 0
  BY DEF VoterInit, Uncounted
<1>1. VoterTypeOK
  <2>1. NumbersOK /\ CounterOK
    BY <1>0, ConstantTypes DEF VoterInit, NumbersOK, CounterOK
  <2>2. blocked \in BOOLEAN /\ StepsOK
    BY Zenon DEF VoterInit, StepsOK
  <2>3. QED BY <2>1, <2>2, TypeParts
<1>2. Len(steps) = 4 /\ steps # <<>>
  BY Links DEF VoterInit
<1>3. QED
  BY <1>0, <1>1, <1>2, ConstantTypes
  DEF VoterInit, JobInv, StartedOnce, CounterCovers, ChainInStep, NeverStopsShort,
      OneUncounted, Started, Asking

\* The parts of the invariant after a step, from those before it.
LEMMA JobParts ==
  ASSUME NumbersOK', StepsOK', blocked' \in BOOLEAN,
         StartedOnce', CounterCovers', ChainInStep', NeverStopsShort', OneUncounted'
  PROVE  JobInv'
<1> DEFINE n == sendCounter' + Uncounted'
<1>1. n >= 0
  <2>1. n \in Int /\ {inits', asking', sent', ended'} \subseteq Nat /\ ended' <= sent'
    BY UncountedType, ConstantTypes DEF NumbersOK
  <2>2. n >= (IF socket' \in {"connected", "loggedIn"} THEN 1 ELSE 0)
               + inits' + asking' + sent' - ended'
    BY DEF CounterCovers
  <2> HIDE DEF n
  <2>3. QED BY <2>1, <2>2
<1>2. QED BY <1>1, TypePartsNext DEF JobInv, CounterOK

LEMMA JobTypes ==
  ASSUME JobInv
  PROVE  NumbersOK /\ StepsOK /\ blocked \in BOOLEAN
BY TypeParts DEF JobInv

\* Nothing of the job moves.
LEMMA JobStays ==
  ASSUME JobInv, UNCHANGED <<loop, chain>>
  PROVE  /\ StepsOK' /\ ChainInStep' /\ NeverStopsShort'
         /\ Started' = Started /\ Asking' = Asking
         /\ index' = index /\ sent' = sent /\ expired' = expired /\ ended' = ended
         /\ reads' = reads /\ shown' = shown /\ process' = process /\ asking' = asking
BY JobTypes DEF JobInv, loop, chain, StepsOK, ChainInStep, NeverStopsShort, Started, Asking

LEMMA ConnectStep == JobInv /\ Connect => JobInv'
<1> SUFFICES ASSUME JobInv, Connect PROVE JobInv'
  OBVIOUS
<1>1. /\ startups' = startups /\ inits' = inits /\ socket = "connecting"
      /\ socket' = "connected" /\ sendCounter' = sendCounter + 1 /\ pool = "valid"
      /\ pool' = "valid"
      /\ UNCHANGED <<loop, chain>>
  <2>1. socket = "connecting" /\ pool = "valid"
    BY DEF Connect, JobInv, StartedOnce
  <2>2. QED BY <2>1 DEF Connect, Call, Pooled, Adds, start
<1>2. blocked' \in BOOLEAN
  BY DEF Connect, Call
<1>3. NumbersOK'
  BY <1>1, JobStays, JobTypes DEF JobInv, NumbersOK
<1>4. StartedOnce' /\ OneUncounted'
  BY <1>1, JobStays DEF JobInv, StartedOnce, OneUncounted
<1>5. CounterCovers'
  BY <1>1, JobStays, JobTypes, UncountedType DEF JobInv, NumbersOK, CounterCovers
<1>6. QED BY <1>1, <1>2, <1>3, <1>4, <1>5, JobStays, JobParts

LEMMA StartupStep == JobInv /\ (LogIn \/ SocketError) => JobInv'
<1> SUFFICES ASSUME JobInv, NEW s \in {"loggedIn", "lost"}, Startup(s),
                    s = "loggedIn" => socket = "connected"
             PROVE  JobInv'
  BY DEF LogIn, SocketError
<1>0. PICK w \in Outcomes(s) : Call(w) /\ inits' = inits + Registers(w)
  BY DEF Startup
<1>1. /\ startups < MaxStartups /\ startups' = startups + 1 /\ inits' = inits + Registers(w)
      /\ socket' = s
      /\ sendCounter' = sendCounter + Adds(w)
      /\ UNCHANGED <<loop, chain>>
  BY <1>0 DEF Startup, Call
<1>2. blocked' \in BOOLEAN
  BY <1>0 DEF Call
<1>3. /\ pool' \in {"valid", "invalid", "evicted"}
      /\ Adds(w) \in {0, 1} /\ Registers(w) \in {0, 1}
      /\ Uncounted' + Adds(w) >= Uncounted + Registers(w)
      /\ pool = "valid" /\ s # "lost" => pool' = "valid"
  BY <1>0, JobTypes, CallCounts DEF Call, NumbersOK
<1>4. NumbersOK'
  BY <1>1, <1>3, JobStays, JobTypes, ConstantTypes DEF JobInv, NumbersOK
<1>5. socket = "connected" => sent = 0
  <2>1. ~Started => Len(steps) = 4
    BY JobTypes, ChainCases DEF Started
  <2>2. QED BY <2>1 DEF JobInv, StartedOnce, ChainInStep
<1>6. StartedOnce'
  BY <1>1, <1>3, JobStays, JobTypes DEF JobInv, NumbersOK, StartedOnce
<1>7. CounterCovers'
  <2> DEFINE u == Uncounted
             v == Uncounted'
             a == Adds(w)
             r == Registers(w)
  <2>1. u \in Nat /\ v \in Nat /\ a \in Nat /\ r \in Nat /\ v + a >= u + r
    BY <1>3, UncountedType
  <2>2. sendCounter' = sendCounter + a /\ inits' = inits + r
    BY <1>1
  <2>3. sendCounter + u >= (IF socket \in {"connected", "loggedIn"} THEN 1 ELSE 0)
                             + inits + asking + sent - ended
    BY DEF JobInv, CounterCovers
  <2> HIDE DEF u, v, a, r
  <2>4. sendCounter' + v >= (IF socket' \in {"connected", "loggedIn"} THEN 1 ELSE 0)
                              + inits' + asking' + sent' - ended'
    BY <1>1, <2>1, <2>2, <2>3, JobStays, JobTypes DEF NumbersOK
  <2>5. QED BY <2>4 DEF CounterCovers, v
<1>8. OneUncounted'
  BY <1>1, <1>5, JobStays DEF OneUncounted
<1>9. QED BY <1>1, <1>2, <1>4, <1>6, <1>7, <1>8, JobStays, JobParts

LEMMA HangUpStep == JobInv /\ HangUp => JobInv'
<1> SUFFICES ASSUME JobInv, HangUp PROVE JobInv'
  OBVIOUS
<1>1. /\ socket' = "lost" /\ UNCHANGED <<sendCounter, blocked, pool, start, loop, chain>>
  BY DEF HangUp
<1>2. NumbersOK' /\ blocked' \in BOOLEAN
  BY <1>1, JobStays, JobTypes DEF JobInv, NumbersOK, start
<1>3. StartedOnce' /\ OneUncounted'
  BY <1>1, JobStays DEF JobInv, StartedOnce, OneUncounted
<1>4. CounterCovers'
  <2>1. Uncounted' = Uncounted /\ inits' = inits /\ sendCounter' = sendCounter
    BY <1>1, UncountedType DEF start
  <2>2. QED BY <1>1, <2>1, JobStays, JobTypes, UncountedType DEF JobInv, NumbersOK, CounterCovers
<1>5. QED BY <1>1, <1>2, <1>3, <1>4, JobStays, JobParts

LEMMA InitExpiredStep == JobInv /\ InitExpired => JobInv'
<1> SUFFICES ASSUME JobInv, InitExpired PROVE JobInv'
  OBVIOUS
<1>1. /\ startups' = startups /\ inits > 0 /\ inits' = inits - 1 /\ socket' = socket
      /\ sendCounter' = sendCounter - 1 /\ pool' = pool
      /\ UNCHANGED <<loop, chain>>
  BY JobTypes DEF InitExpired, Expire, Pooled, Adds, JobInv, NumbersOK
<1>2. blocked' \in BOOLEAN /\ (blocked' => blocked)
  <2>1. "none" # "counted"
    OBVIOUS
  <2>2. QED BY <2>1, Zenon DEF InitExpired, Expire
<1>3. NumbersOK'
  BY <1>1, JobStays, JobTypes DEF JobInv, NumbersOK
<1>4. StartedOnce'
  BY <1>1, JobStays, JobTypes DEF JobInv, NumbersOK, StartedOnce
<1>5. CounterCovers'
  BY <1>1, JobStays, JobTypes, UncountedType DEF JobInv, NumbersOK, CounterCovers
<1>6. OneUncounted'
  BY <1>1, <1>2, JobStays DEF JobInv, OneUncounted
<1>7. QED BY <1>1, <1>2, <1>3, <1>4, <1>5, <1>6, JobStays, JobParts

LEMMA InitAnsweredStep == JobInv /\ InitAnswered => JobInv'
<1> SUFFICES ASSUME JobInv, InitAnswered PROVE JobInv'
  OBVIOUS
<1>0. PICK w \in LinkCalls : Answer(w) /\ asking' = asking + Registers(w)
  BY DEF InitAnswered
<1>1. /\ process = "running" /\ socket = "loggedIn" /\ inits > 0 /\ inits' = inits - 1
      /\ RunNextLink /\ sendCounter' = sendCounter - 1 + Adds(w)
      /\ socket' = socket /\ startups' = startups /\ shown' = shown
      /\ index' = index /\ reads' = reads /\ sent' = sent /\ ended' = ended
      /\ expired' = expired
  BY <1>0 DEF InitAnswered, Answer, loop
<1>2. blocked' \in BOOLEAN
  BY <1>0 DEF Answer
<1>3. /\ ~Started /\ Len(steps) = 4 /\ inits <= 1 /\ sent = 0 /\ shown = 0 /\ asking = 0
      /\ pool = "valid"
  <2>1. ~Started /\ inits <= 1 /\ pool = "valid"
    BY <1>1, JobTypes DEF JobInv, NumbersOK, StartedOnce
  <2>2. Len(steps) = 4
    BY <2>1, JobTypes, ChainCases DEF Started
  <2>3. sent = 0 /\ shown = 0 /\ ~(asking > 0)
    BY <2>2 DEF JobInv, ChainInStep, Asking
  <2>4. QED BY <2>1, <2>2, <2>3, JobTypes DEF NumbersOK
<1>4. /\ StepsOK' /\ Len(steps') = 3 /\ LinkCalls = Outcomes(socket) /\ process' = "running"
  BY <1>1, <1>3, JobTypes, LinkRun, ChainCases
<1>5. /\ pool' = "valid" /\ w = "counted" /\ asking' = 1 /\ sendCounter' = sendCounter
  <2>1. w \in Outcomes(socket) /\ Pooled(w) /\ w = "counted"
    BY <1>0, <1>1, <1>3, <1>4 DEF Answer, Outcomes
  <2>2. pool' = "valid" /\ Adds(w) = 1 /\ Registers(w) = 1
    BY <1>3, <2>1 DEF Pooled, Adds, Registers
  <2>3. QED BY <1>0, <1>1, <1>3, <2>1, <2>2, JobTypes DEF NumbersOK
<1>6. Started' /\ steps' # <<>> /\ Asking'
  BY <1>4, <1>5, ChainCasesNext DEF Started, Asking
<1>7. NumbersOK'
  BY <1>1, <1>4, <1>5, JobTypes DEF JobInv, NumbersOK
<1>8. StartedOnce' /\ ChainInStep' /\ NeverStopsShort' /\ OneUncounted'
  BY <1>1, <1>3, <1>4, <1>5, <1>6, JobTypes
  DEF JobInv, NumbersOK, StartedOnce, ChainInStep, NeverStopsShort, OneUncounted
<1>9. CounterCovers'
  BY <1>1, <1>3, <1>5, JobTypes, UncountedType DEF JobInv, NumbersOK, CounterCovers
<1>10. QED BY <1>2, <1>4, <1>7, <1>8, <1>9, JobParts

LEMMA ResultsStep == JobInv /\ ResultsAnswered => JobInv'
<1> SUFFICES ASSUME JobInv, ResultsAnswered PROVE JobInv'
  OBVIOUS
<1>0. PICK w \in LinkCalls : Answer(w) /\ asking' = asking - 1 + Registers(w)
  BY DEF ResultsAnswered
<1>1. /\ process = "running" /\ socket = "loggedIn" /\ Asking
      /\ RunNextLink /\ sendCounter' = sendCounter - 1 + Adds(w)
      /\ socket' = socket /\ startups' = startups /\ inits' = inits
      /\ shown' = shown + 1 /\ index' = index /\ reads' = reads
      /\ sent' = sent /\ ended' = ended /\ expired' = expired
  BY <1>0 DEF ResultsAnswered, Answer, start, loop
<1>2. (Len(steps) = 3 \/ Len(steps) = 1) /\ steps # <<>> /\ Started
  <2>1. Len(steps) = 3 \/ Len(steps) = 1
    BY <1>1 DEF JobInv, ChainInStep
  <2>2. StepsOK
    BY JobTypes
  <2>3. steps # <<>> /\ steps # GetSteps
    BY <2>1, <2>2, ChainCases
  <2>4. QED BY <2>1, <2>3 DEF Started
<1>3. /\ StepsOK' /\ Len(steps') = Len(steps) - 1 /\ LinkCalls = {"none"}
      /\ Len(steps) = 1 => process' = "exited"
      /\ Len(steps) = 3 => process' = "running"
  BY <1>1, <1>2, JobTypes, LinkRun
<1>4. w = "none" /\ pool' = pool /\ asking = 1 /\ asking' = 0 /\ sendCounter' = sendCounter - 1
  <2>1. w = "none" /\ Adds(w) = 0 /\ Registers(w) = 0
    BY <1>0, <1>3 DEF Adds, Registers
  <2>2. asking = 1
    BY <1>1, JobTypes DEF Asking, NumbersOK
  <2>3. pool' = pool
    BY <1>0, <2>1 DEF Answer, Pooled
  <2>4. QED BY <1>0, <1>1, <2>1, <2>2, <2>3, JobTypes DEF NumbersOK
<1>5. Started' /\ ~Asking' /\ (steps' = <<>> <=> Len(steps) = 1)
  <2>0. ~Asking'
    BY <1>4 DEF Asking
  <2>1. CASE Len(steps) = 3
    <3>1. Len(steps') = 2
      BY <1>3, <2>1
    <3>2. QED BY <1>3, <2>0, <2>1, <3>1, ChainCasesNext DEF Started
  <2>2. CASE Len(steps) = 1
    <3>1. Len(steps') = 0
      BY <1>3, <2>2
    <3>2. QED BY <1>3, <2>0, <2>2, <3>1, ChainCasesNext DEF Started
  <2>3. QED BY <1>2, <2>1, <2>2
<1>6. blocked' \in BOOLEAN /\ (blocked' => blocked)
  <2>1. w # "counted"
    BY <1>4
  <2>2. QED BY <1>0, <2>1, Zenon DEF Answer
<1>7. NumbersOK'
  <2>1. shown \in 0 .. 1
    BY <1>2 DEF JobInv, ChainInStep
  <2>2. process' \in {"running", "exited"}
    BY <1>2, <1>3
  <2>3. QED BY <1>1, <1>3, <1>4, <2>1, <2>2, JobTypes DEF JobInv, NumbersOK
<1>8. ChainInStep'
  <2>1. CASE Len(steps) = 3
    BY <1>1, <1>3, <1>5, <2>1, JobTypes, ConstantTypes DEF JobInv, NumbersOK, ChainInStep
  <2>2. CASE Len(steps) = 1
    BY <1>1, <1>3, <1>5, <2>2, JobTypes DEF JobInv, NumbersOK, ChainInStep
  <2>3. QED BY <1>2, <2>1, <2>2
<1>9. StartedOnce' /\ NeverStopsShort' /\ OneUncounted'
  BY <1>1, <1>2, <1>4, <1>5, <1>6 DEF JobInv, StartedOnce, NeverStopsShort, OneUncounted
<1>10. CounterCovers'
  BY <1>1, <1>4, JobTypes, UncountedType DEF JobInv, NumbersOK, CounterCovers
<1>11. QED BY <1>3, <1>6, <1>7, <1>8, <1>9, <1>10, JobParts

LEMMA NoTableStep == JobInv /\ NoTable => JobInv'
<1> SUFFICES ASSUME JobInv, NoTable PROVE JobInv'
  OBVIOUS
<1>1. /\ Asking \/ (socket = "loggedIn" /\ inits > 0)
      /\ process' = "crashed"
      /\ UNCHANGED <<connection, start, loop, steps, asking, shown>>
  BY DEF NoTable
<1>2. steps # <<>>
  <2>1. CASE Asking
    BY <2>1, JobTypes, ChainCases DEF JobInv, ChainInStep
  <2>2. CASE socket = "loggedIn" /\ inits > 0
    BY <2>2, JobTypes, ChainCases DEF JobInv, NumbersOK, StartedOnce, Started
  <2>3. QED BY <1>1, <2>1, <2>2
<1>3. Started' = Started /\ Asking' = Asking /\ StepsOK' /\ blocked' \in BOOLEAN
  BY <1>1, JobTypes DEF JobInv, connection, Started, Asking, StepsOK
<1>4. NumbersOK'
  BY <1>1, JobTypes DEF JobInv, NumbersOK, connection, start, loop
<1>5. ChainInStep'
  BY <1>1, <1>2, <1>3 DEF JobInv, ChainInStep, loop
<1>6. StartedOnce' /\ NeverStopsShort' /\ OneUncounted'
  BY <1>1, <1>3
  DEF JobInv, StartedOnce, NeverStopsShort, OneUncounted, connection, start, loop
<1>7. CounterCovers'
  BY <1>1, UncountedType DEF JobInv, CounterCovers, connection, start, loop
<1>8. QED BY <1>3, <1>4, <1>5, <1>6, <1>7, JobParts

LEMMA FlusherStep == JobInv /\ FlusherThrows => JobInv'
<1> SUFFICES ASSUME JobInv, FlusherThrows PROVE JobInv'
  OBVIOUS
<1>1. /\ process = "running" /\ process' = "crashed"
      /\ UNCHANGED <<connection, start, loop, steps, asking, shown>>
  BY DEF FlusherThrows
<1>2. Started' = Started /\ Asking' = Asking /\ StepsOK' /\ blocked' \in BOOLEAN
  BY <1>1, JobTypes DEF JobInv, connection, Started, Asking, StepsOK
<1>3. NumbersOK'
  BY <1>1, JobTypes DEF JobInv, NumbersOK, connection, start, loop
<1>4. ChainInStep'
  BY <1>1, <1>2, JobTypes, ChainCases DEF JobInv, ChainInStep, loop, Asking
<1>5. StartedOnce' /\ NeverStopsShort' /\ OneUncounted'
  BY <1>1, <1>2
  DEF JobInv, StartedOnce, NeverStopsShort, OneUncounted, connection, start, loop
<1>6. CounterCovers'
  BY <1>1, UncountedType DEF JobInv, CounterCovers, connection, start, loop
<1>7. QED BY <1>2, <1>3, <1>4, <1>5, <1>6, JobParts

LEMMA InnerLoopStep == JobInv /\ InnerLoop => JobInv'
<1> SUFFICES ASSUME JobInv, InnerLoop PROVE JobInv'
  OBVIOUS
<1>0. PICK w \in Outcomes(socket) :
        /\ Call(w) /\ sent' = sent + Registers(w)
        /\ WriteCallback(w = "counted" /\ ~blocked')
  BY DEF InnerLoop
<1>1. /\ Len(steps) <= 2 /\ index < VoteCount /\ sent < MaxVotes /\ sent' = sent + Registers(w)
      /\ sendCounter' = sendCounter + Adds(w) /\ Pooled(w)
      /\ index' = index \/ (index' = index + 1 /\ w = "counted" /\ ~blocked')
      /\ UNCHANGED <<socket, start, reads, ended, expired, chain>>
  BY <1>0 DEF InnerLoop, Looping, Call, WriteCallback, Counted
<1>2. blocked' \in BOOLEAN
  BY <1>0, Zenon DEF Call
<1>3. /\ pool' \in {"valid", "invalid", "evicted"}
      /\ Adds(w) \in {0, 1} /\ Registers(w) \in {0, 1}
      /\ Uncounted' + Adds(w) >= Uncounted + Registers(w)
      /\ pool = "valid" /\ socket # "lost" => pool' = "valid" /\ w \in {"counted", "none"}
      /\ w = "counted" => Registers(w) = 1
      /\ w # "none"
  <2>1. w # "none"
    BY <1>0 DEF Outcomes
  <2>2. QED BY <1>0, <2>1, JobTypes, CallCounts DEF Call, NumbersOK
<1>4. StepsOK' /\ Started' = Started /\ Asking' = Asking
  BY <1>1, JobTypes DEF StepsOK, Started, Asking, chain
<1>5. NumbersOK'
  BY <1>1, <1>3, JobTypes, ConstantTypes DEF NumbersOK, start, chain
<1>6. Len(steps) = 0 \/ Len(steps) = 1 \/ Len(steps) = 2
  <2> DEFINE n == Len(steps)
  <2>1. n \in {0, 1, 2, 3, 4} /\ n <= 2
    BY <1>1, JobTypes, ChainCases
  <2> HIDE DEF n
  <2>2. n = 0 \/ n = 1 \/ n = 2
    BY <2>1
  <2>3. QED BY <2>2 DEF n
<1>7. ChainInStep'
  BY <1>1, <1>4, <1>6 DEF JobInv, ChainInStep, chain
<1>8. StartedOnce'
  BY <1>1, <1>3, <1>4 DEF JobInv, StartedOnce, start
<1>9. CounterCovers'
  <2>1. inits' = inits /\ socket' = socket /\ ended' = ended /\ asking' = asking
    BY <1>1 DEF start, chain
  <2>2. {sendCounter, inits, asking, sent, ended} \subseteq Int
    BY JobTypes, ConstantTypes DEF NumbersOK
  <2> DEFINE u == Uncounted
             v == Uncounted'
             a == Adds(w)
             r == Registers(w)
  <2>3. u \in Nat /\ v \in Nat /\ a \in Nat /\ r \in Nat /\ v + a >= u + r
    BY <1>3, UncountedType
  <2>4. sendCounter' = sendCounter + a /\ sent' = sent + r
    BY <1>1
  <2>5. sendCounter + u >= (IF socket \in {"connected", "loggedIn"} THEN 1 ELSE 0)
                             + inits + asking + sent - ended
    BY DEF JobInv, CounterCovers
  <2> HIDE DEF u, v, a, r
  <2>6. sendCounter' + v >= (IF socket' \in {"connected", "loggedIn"} THEN 1 ELSE 0)
                              + inits' + asking' + sent' - ended'
    BY <2>1, <2>2, <2>3, <2>4, <2>5
  <2>7. QED BY <2>6 DEF CounterCovers, v
<1>10. NeverStopsShort'
  BY <1>1, <1>3, JobTypes DEF JobInv, NumbersOK, NeverStopsShort
<1>11. OneUncounted'
  <2>1. SUFFICES ASSUME socket = "loggedIn", blocked' PROVE index' < sent' + expired'
    BY <1>1 DEF OneUncounted
  <2>2. w = "counted" /\ index' = index
    BY <1>1, <1>3, <2>1 DEF JobInv, StartedOnce
  <2>3. QED BY <1>1, <1>3, <2>2, JobTypes DEF JobInv, NumbersOK, NeverStopsShort
<1>12. QED BY <1>2, <1>4, <1>5, <1>7, <1>8, <1>9, <1>10, <1>11, JobParts

\* The end of a vote, with the call that its readCallback makes.
EndsWith(w) ==
  w \in VoteCalls /\ Pooled(w) /\ sendCounter' = sendCounter - 1 + Adds(w)
  /\ asking' = asking + Registers(w)

\* What the end of a vote does, whichever it is: to the chain, to the counter, and,
\* if the connection is blocked afterwards though it was not before, to the votes.
LEMMA VoteEnded ==
  ASSUME JobInv, ReadCallback, NEW w, EndsWith(w)
  PROVE  /\ StepsOK' /\ StartedOnce' /\ CounterCovers' /\ ChainInStep'
         /\ sendCounter' \in Int /\ process' \in {"running", "exited", "crashed"}
         /\ pool' \in {"valid", "invalid", "evicted"} /\ asking' \in {0, 1}
         /\ w = "counted" => sent >= VoteCount
<1>1. /\ process = "running" /\ ended < sent /\ reads' = reads - 1 /\ ended' = ended + 1
      /\ socket' = socket /\ startups' = startups /\ inits' = inits /\ shown' = shown
      /\ sent' = sent
  BY DEF ReadCallback, start
<1>2. /\ reads = VoteCount - ended /\ ended \in Nat /\ sent \in Nat /\ inits \in Nat
      /\ sendCounter \in Int /\ asking \in {0, 1}
  BY JobTypes, ConstantTypes DEF NumbersOK
<1>3. StepsOK /\ steps # <<>>
  BY <1>1, JobTypes DEF JobInv, ChainInStep
<1>4. Len(steps) = 2 \/ Len(steps) = 1
  <2> DEFINE n == Len(steps)
  <2>1. n \in {0, 1, 2, 3, 4} /\ n # 0
    BY <1>3, ChainCases
  <2>2. ~(n >= 3)
    BY <1>1, <1>2 DEF JobInv, ChainInStep
  <2> HIDE DEF n
  <2>3. n = 2 \/ n = 1
    BY <2>1, <2>2
  <2>4. QED BY <2>3 DEF n
<1>5. Started /\ (Len(steps) = 2 => asking = 0)
  <2>1. steps # GetSteps
    <3>1. Len(steps) # 4
      BY <1>4
    <3>2. QED BY <1>3, <3>1, ChainCases
  <2>2. Len(steps) = 2 => ~(asking > 0)
    BY DEF JobInv, ChainInStep, Asking
  <2>3. QED BY <1>2, <2>1, <2>2 DEF Started
<1>e. /\ w \in VoteCalls /\ Pooled(w)
      /\ sendCounter' = sendCounter - 1 + Adds(w) /\ asking' = asking + Registers(w)
  BY DEF EndsWith
<1>6. w \in Outcomes(socket) \cup {"none"} /\ (~LastVote => w = "none")
      /\ (LastVote => RunNextLink)
  <2>1. CASE LastVote
    <3>1. ended < VoteCount
      BY <1>1, <1>2, <2>1, ConstantTypes DEF LastVote
    <3>2. Len(steps) = 2
      BY <1>2, <1>4, <3>1, ConstantTypes DEF JobInv, ChainInStep
    <3>3. RunNextLink
      BY <2>1 DEF ReadCallback
    <3>4. LinkCalls = Outcomes(socket)
      BY <1>3, <3>2, <3>3, LinkRun
    <3>5. QED BY <1>e, <2>1, <3>3, <3>4 DEF VoteCalls
  <2>2. CASE ~LastVote
    BY <1>e, <2>2 DEF VoteCalls
  <2>3. QED BY <2>1, <2>2
<1>7. /\ pool' \in {"valid", "invalid", "evicted"}
      /\ Adds(w) \in {0, 1} /\ Registers(w) \in {0, 1}
      /\ Uncounted' + Adds(w) >= Uncounted + Registers(w)
      /\ pool = "valid" /\ socket # "lost" => pool' = "valid"
      /\ w = "none" => Adds(w) = 0 /\ Registers(w) = 0
  BY <1>e, <1>6, JobTypes, CallCounts DEF NumbersOK
<1>8. CounterCovers'
  <2> DEFINE u == Uncounted
             v == Uncounted'
             a == Adds(w)
             r == Registers(w)
  <2>1. u \in Nat /\ v \in Nat /\ a \in Nat /\ r \in Nat /\ v + a >= u + r
    BY <1>7, UncountedType
  <2>2. sendCounter' = sendCounter - 1 + a /\ asking' = asking + r
    BY <1>e
  <2>3. sendCounter + u >= (IF socket \in {"connected", "loggedIn"} THEN 1 ELSE 0)
                             + inits + asking + sent - ended
    BY DEF JobInv, CounterCovers
  <2> HIDE DEF u, v, a, r
  <2>4. sendCounter' + v >= (IF socket' \in {"connected", "loggedIn"} THEN 1 ELSE 0)
                              + inits' + asking' + sent' - ended'
    BY <1>1, <1>2, <2>1, <2>2, <2>3
  <2>5. QED BY <2>4 DEF CounterCovers, v
<1>9. sendCounter' \in Int
  BY <1>e, <1>2, <1>7
<1>10. pool' # "valid" => socket' = "lost"
  BY <1>1, <1>7 DEF JobInv, StartedOnce
<1>11. CASE LastVote
  <2>1. ended' = VoteCount /\ ended < VoteCount
    BY <1>1, <1>2, <1>11, ConstantTypes DEF LastVote
  <2>2. Len(steps) = 2 /\ asking = 0
    BY <1>2, <1>4, <1>5, <2>1, ConstantTypes DEF JobInv, ChainInStep
  <2>3. StepsOK' /\ Len(steps') = 1 /\ process' = "running"
    BY <1>1, <1>3, <1>6, <1>11, <2>2, LinkRun
  <2>4. Started' /\ steps' # <<>> /\ asking' \in {0, 1}
    <3>1. steps' # GetSteps /\ steps' # <<>>
      BY <2>3, ChainCasesNext
    <3>2. asking' \in {0, 1}
      BY <1>e, <1>7, <2>2
    <3>3. QED BY <3>1, <3>2 DEF Started
  <2>5. ChainInStep'
    BY <1>1, <2>1, <2>2, <2>3, <2>4, ConstantTypes DEF JobInv, ChainInStep
  <2>6. StartedOnce'
    BY <1>1, <1>5, <1>10, <2>4 DEF JobInv, StartedOnce
  <2>7. sent >= VoteCount
    BY <1>1, <1>2, <2>1, ConstantTypes
  <2>8. QED BY <1>7, <1>8, <1>9, <2>3, <2>4, <2>5, <2>6, <2>7
<1>12. CASE ~LastVote
  <2>1. steps' = steps /\ process' = process /\ w = "none"
    BY <1>6, <1>12 DEF ReadCallback
  <2>2. ended' # VoteCount
    BY <1>1, <1>2, <1>12, ConstantTypes DEF LastVote
  <2>3. asking' = asking
    BY <1>e, <1>2, <1>7, <2>1
  <2>4. StepsOK' /\ Started' = Started /\ Asking' = Asking
    BY <1>3, <2>1, <2>3 DEF StepsOK, Started, Asking
  <2>5. ChainInStep'
    BY <1>1, <1>2, <1>4, <2>1, <2>2, <2>4, ConstantTypes DEF JobInv, ChainInStep
  <2>6. StartedOnce'
    BY <1>1, <1>10, <2>4 DEF JobInv, StartedOnce
  <2>7. QED BY <1>1, <1>2, <1>7, <1>8, <1>9, <2>1, <2>3, <2>4, <2>5, <2>6
<1>13. QED BY <1>11, <1>12

LEMMA VoteAnsweredStep == JobInv /\ VoteAnswered => JobInv'
<1> SUFFICES ASSUME JobInv, VoteAnswered PROVE JobInv'
  OBVIOUS
<1>0. PICK w \in VoteCalls : Answer(w) /\ asking' = asking + Registers(w)
  BY DEF VoteAnswered
<1>1. /\ ReadCallback /\ ended < sent /\ ended' = ended + 1 /\ reads' = reads - 1
      /\ socket' = socket /\ startups' = startups /\ inits' = inits /\ shown' = shown
      /\ sent' = sent /\ expired' = expired /\ socket = "loggedIn"
      /\ index' = index \/ (index' = index + 1 /\ Told /\ index < VoteCount)
  BY DEF VoteAnswered, ReadCallback, WriteCallback, Counted, start
<1>2. blocked' \in BOOLEAN /\ (blocked' => blocked \/ w = "counted")
  BY <1>0, Zenon DEF Answer
<1>3. /\ StepsOK' /\ StartedOnce' /\ CounterCovers' /\ ChainInStep'
      /\ sendCounter' \in Int /\ process' \in {"running", "exited", "crashed"}
      /\ pool' \in {"valid", "invalid", "evicted"} /\ asking' \in {0, 1}
      /\ w = "counted" => sent >= VoteCount
  BY <1>0, <1>1, VoteEnded DEF Answer, EndsWith
<1>4. NumbersOK'
  BY <1>1, <1>3, JobTypes, ConstantTypes DEF NumbersOK
<1>5. {index, sent, expired, ended, VoteCount} \subseteq Nat /\ index <= sent + expired
  BY JobTypes, ConstantTypes DEF JobInv, NumbersOK, NeverStopsShort
<1>6. blocked /\ sent > 0 /\ index < VoteCount => index < sent + expired
  BY <1>1 DEF JobInv, OneUncounted
<1>7. sent > 0
  BY <1>1, <1>5
<1>8. NeverStopsShort'
  <2>1. CASE index' = index
    BY <1>1, <1>5, <2>1 DEF NeverStopsShort
  <2>2. CASE index' = index + 1 /\ Told /\ index < VoteCount
    BY <1>1, <1>5, <1>6, <1>7, <2>2 DEF NeverStopsShort, Told
  <2>3. QED BY <1>1, <2>1, <2>2
<1>9. OneUncounted'
  <2>1. SUFFICES ASSUME blocked', index' < VoteCount PROVE index' < sent' + expired'
    BY DEF OneUncounted
  <2>2. index' = index
    BY <1>1, <2>1 DEF Told
  <2>3. CASE blocked
    BY <1>1, <1>6, <1>7, <2>1, <2>2, <2>3
  <2>4. CASE w = "counted"
    BY <1>1, <1>3, <1>5, <2>1, <2>2, <2>4
  <2>5. QED BY <1>2, <2>1, <2>3, <2>4
<1>10. QED BY <1>2, <1>3, <1>4, <1>8, <1>9, JobParts

LEMMA VoteExpiredStep == JobInv /\ VoteExpired => JobInv'
<1> SUFFICES ASSUME JobInv, VoteExpired PROVE JobInv'
  OBVIOUS
<1>0. PICK w \in VoteCalls : Expire(w) /\ asking' = asking + Registers(w)
  BY DEF VoteExpired
<1>1. /\ ReadCallback /\ ended < sent /\ ended' = ended + 1 /\ reads' = reads - 1
      /\ socket' = socket /\ startups' = startups /\ inits' = inits /\ shown' = shown
      /\ sent' = sent /\ expired' = expired + 1
      /\ index' = index \/ (index' = index + 1 /\ index < VoteCount)
  BY DEF VoteExpired, ReadCallback, WriteCallback, Counted, start
<1>2. blocked' \in BOOLEAN /\ (blocked' => blocked \/ w = "counted")
  BY <1>0, Zenon DEF Expire
<1>3. /\ StepsOK' /\ StartedOnce' /\ CounterCovers' /\ ChainInStep'
      /\ sendCounter' \in Int /\ process' \in {"running", "exited", "crashed"}
      /\ pool' \in {"valid", "invalid", "evicted"} /\ asking' \in {0, 1}
      /\ w = "counted" => sent >= VoteCount
  BY <1>0, <1>1, VoteEnded DEF Expire, EndsWith
<1>4. NumbersOK'
  BY <1>1, <1>3, JobTypes, ConstantTypes DEF NumbersOK
<1>5. {index, sent, expired, ended, VoteCount} \subseteq Nat /\ index <= sent + expired
  BY JobTypes, ConstantTypes DEF JobInv, NumbersOK, NeverStopsShort
<1>6. NeverStopsShort'
  BY <1>1, <1>5 DEF NeverStopsShort
<1>7. OneUncounted'
  <2>1. SUFFICES ASSUME socket = "loggedIn", blocked', index' < VoteCount
                 PROVE  index' < sent' + expired'
    BY <1>1 DEF OneUncounted
  <2>2. index < VoteCount
    BY <1>1, <1>5, <2>1
  <2>3. CASE blocked
    BY <1>1, <1>5, <2>1, <2>2, <2>3 DEF JobInv, OneUncounted
  <2>4. CASE w = "counted"
    BY <1>1, <1>3, <1>5, <2>1, <2>4
  <2>5. QED BY <1>2, <2>1, <2>3, <2>4
<1>8. QED BY <1>2, <1>3, <1>4, <1>6, <1>7, JobParts

LEMMA JobNext == JobInv /\ [VoterNext]_vars => JobInv'
<1> SUFFICES ASSUME JobInv, [VoterNext]_vars PROVE JobInv'
  OBVIOUS
<1>1. CASE Connect
  BY <1>1, ConnectStep
<1>2. CASE LogIn \/ SocketError
  BY <1>2, StartupStep
<1>12. CASE HangUp
  BY <1>12, HangUpStep
<1>13. CASE FlusherThrows
  BY <1>13, FlusherStep
<1>3. CASE InitAnswered
  BY <1>3, InitAnsweredStep
<1>4. CASE InitExpired
  BY <1>4, InitExpiredStep
<1>5. CASE ResultsAnswered
  BY <1>5, ResultsStep
<1>6. CASE NoTable
  BY <1>6, NoTableStep
<1>7. CASE InnerLoop
  BY <1>7, InnerLoopStep
<1>8. CASE VoteAnswered
  BY <1>8, VoteAnsweredStep
<1>9. CASE VoteExpired
  BY <1>9, VoteExpiredStep
<1>10. CASE UNCHANGED vars
  <2>1. UNCHANGED <<loop, chain, connection, start>>
    BY <1>10 DEF vars
  <2>2. NumbersOK' /\ blocked' \in BOOLEAN
    BY <2>1, JobTypes DEF NumbersOK, connection, start, loop, chain
  <2>3. StartedOnce' /\ CounterCovers' /\ OneUncounted'
    BY <2>1, JobStays, UncountedType
    DEF JobInv, StartedOnce, CounterCovers, OneUncounted, connection, start
  <2>4. QED BY <2>1, <2>2, <2>3, JobStays, JobParts
<1>11. QED
  BY <1>1, <1>2, <1>3, <1>4, <1>5, <1>6, <1>7, <1>8, <1>9, <1>10, <1>12, <1>13 DEF VoterNext

\* How the job, the chain of links and the counters hang together holds throughout,
\* for any number of votes, any limit and any number of errors of the socket.
THEOREM JobInvariant == VoterSpec => []JobInv
<1>1. VoterInit => JobInv
  BY JobInit
<1>2. JobInv /\ [VoterNext]_vars => JobInv'
  BY JobNext
<1>3. QED BY <1>1, <1>2, PTL DEF VoterSpec

\* The sample's variables keep their types: no more initialisations than startups,
\* no more votes ended than sent, and reads counts down with the votes.
THEOREM VoterTypeCorrect == VoterSpec => []VoterTypeOK
<1>1. JobInv => VoterTypeOK
  BY DEF JobInv
<1>2. QED BY <1>1, JobInvariant, PTL

\* The process exits only after voteCount votes have ended and both results were
\* shown, whichever of the calls time out and whenever the responses come.
THEOREM ExitEarned == VoterSpec => []ExitIsEarned
<1>1. JobInv => ExitIsEarned
  <2>1. SUFFICES ASSUME JobInv, process = "exited" PROVE ended >= VoteCount /\ shown = 2
    BY DEF ExitIsEarned
  <2>2. Len(steps) = 0
    BY <2>1, Links DEF JobInv, ChainInStep
  <2>3. QED BY <2>1, <2>2 DEF JobInv, ChainInStep
<1>2. QED BY <1>1, JobInvariant, PTL

\* The write loop never counts more votes than it sent and saw time out: without
\* timeouts it sends at least the voteCount votes whose answers end it.
THEOREM JobNeverStopsShort == VoterSpec => []NeverStopsShort
<1>1. JobInv => NeverStopsShort
  BY DEF JobInv
<1>2. QED BY <1>1, JobInvariant, PTL
=============================================================================
