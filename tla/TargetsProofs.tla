---------------------------- MODULE TargetsProofs ----------------------------
(***************************************************************************)
(* Theorems about the targets, for any number of calls, descendants and    *)
(* events and any limits of output and body, and their proofs.  A target   *)
(* is of one type for good, so each type has an invariant of its own.      *)
(***************************************************************************)
EXTENDS Targets, SequenceTheorems, TLAPS

\* The steps of the three types.
LEMMA StepOfType ==
  ASSUME [Next]_vars
  PROVE  /\ kind' = kind
         /\ kind = "ssh"   => [SSH!Next]_(SSH!vars)
         /\ kind = "shell" => [Shell!Next]_(Shell!vars)
         /\ kind = "http"  => [HTTP!Next]_(HTTP!vars)
BY DEF Next, vars, SSHStep, ShellStep, HTTPStep, sshVars, shellVars, httpVars,
       SSH!vars, Shell!vars, Shell!procVars, Shell!waitVars, Shell!outVars,
       HTTP!vars, HTTP!noteVars

-----------------------------------------------------------------------------
(***************************************************************************)
(* SSH.                                                                    *)
(***************************************************************************)

Jobs ==
  [ctx : {"live", "expired", "canceled"}, time : {"before", "due", "past"},
   at : {"none", "connect", "handshake", "session", "exec", "running",
         "cleanup", "send", "done"},
   socket : {"none", "open", "overdue", "closed"}, client : {"none", "open", "closed"},
   closes : Nat, armed : SUBSET SSH!Hook, firing : SUBSET SSH!Hook,
   out : {"none", "ok", "error"}, ch : {"none", "ok", "error"}]

SSHTypes ==
  /\ call \in 0 .. MaxCalls /\ caller \in {"idle", "select"} /\ quit \in BOOLEAN
  /\ job \in [SSH!Call -> Jobs]
  /\ started \in Seq(SSH!Call)

\* Where a goroutine has a socket and a client, and how often it has closed
\* the client.
Held(j) ==
  /\ j.at \in {"none", "connect", "send", "done"} => j.socket \in {"none", "closed"}
  /\ j.at \in {"none", "connect", "handshake"} => j.client = "none"
  /\ j.at \in {"send", "done"} => j.client # "open"
  /\ j.closes = IF j.client = "closed" THEN 1 ELSE 0
  /\ j.at = "none" => j.armed = {} /\ j.firing = {}
  /\ j.at # "done" => j.ch = "none"

\* A call that is over has a context that is done; before its timeout ends that
\* means that its goroutine is done too, unless the program is being stopped.
\* The timeout is past when both its timers have fired.
InCall(c, j) ==
  /\ c <= call <=> j.at # "none"
  /\ j.ctx = "expired" => j.time # "before"
  /\ j.ctx = "canceled" => quit \/ j.time # "before" \/ j.at = "done"
  /\ j.time = "past" => j.ctx # "live" /\ j.socket # "open"
  /\ c < call \/ (c = call /\ caller = "idle") => j.ctx # "live"

SSHInv ==
  /\ SSHTypes
  /\ \A c \in SSH!Call : Held(job[c]) /\ InCall(c, job[c])

\* Only the job of one call changes, and it stays what a job is.
OneJobMoves(c) ==
  /\ job' = [job EXCEPT ![c] = job'[c]]
  /\ job'[c] \in Jobs /\ Held(job'[c]) /\ InCall(c, job'[c])
  /\ UNCHANGED <<call, caller, quit>>
  /\ started' \in {started, Append(started, c)}

LEMMA MoveKeepsInv ==
  ASSUME SSHInv, NEW c \in SSH!Call, OneJobMoves(c)
  PROVE  SSHInv'
<1>1. SSHTypes'
  <2>1. started' \in Seq(SSH!Call)
    BY AppendProperties DEF OneJobMoves, SSHInv, SSHTypes
  <2>2. QED
    BY <2>1 DEF OneJobMoves, SSHInv, SSHTypes, SSH!Call
<1>2. ASSUME NEW d \in SSH!Call
      PROVE  (Held(job[d]) /\ InCall(d, job[d]))'
  <2>1. CASE d = c
    BY <2>1 DEF OneJobMoves, Held, InCall
  <2>2. CASE d # c
    <3>1. job'[d] = job[d]
      BY <2>2 DEF OneJobMoves, SSHInv, SSHTypes
    <3>2. QED
      BY <3>1 DEF OneJobMoves, SSHInv, Held, InCall
  <2>3. QED
    BY <2>1, <2>2
<1>3. QED
  BY <1>1, <1>2 DEF SSHInv, SSH!Call

\* Sets of AfterFuncs.
LEMMA HookSets ==
  /\ {} \in SUBSET SSH!Hook
  /\ {"socket"} \in SUBSET SSH!Hook
  /\ {"client"} \in SUBSET SSH!Hook
BY DEF SSH!Hook

\* Closing keeps the rest of a job.
LEMMA ClosedJob ==
  ASSUME NEW j \in Jobs
  PROVE  \E k \in Jobs :
           /\ k = SSH!Closed(j)
           /\ k.ctx = j.ctx /\ k.time = j.time /\ k.at = j.at /\ k.ch = j.ch
           /\ k.armed = j.armed /\ k.firing = j.firing
           /\ k.socket = "closed"
           /\ k.client = IF j.client = "open" THEN "closed" ELSE j.client
           /\ k.closes = IF j.client = "open" THEN j.closes + 1 ELSE j.closes
<1> DEFINE cl == IF j.client = "open" THEN "closed" ELSE j.client
           n  == IF j.client = "open" THEN j.closes + 1 ELSE j.closes
           k  == [j EXCEPT !.socket = "closed", !.client = cl, !.closes = n]
<1>1. cl \in {"none", "open", "closed"} /\ n \in Nat
  BY DEF Jobs
<1>2. SSH!Closed(j) = k
  BY DEF SSH!Closed, Jobs
<1> HIDE DEF cl, n
<1>3. k \in Jobs
  BY <1>1 DEF Jobs
<1>4. /\ k.ctx = j.ctx /\ k.time = j.time /\ k.at = j.at /\ k.ch = j.ch
      /\ k.armed = j.armed /\ k.firing = j.firing
      /\ k.socket = "closed" /\ k.client = cl /\ k.closes = n
  BY DEF Jobs
<1>5. QED
  BY <1>2, <1>3, <1>4 DEF cl, n

\* The steps of a goroutine, of its AfterFuncs and of its deadline.
LEMMA GoroutineKeepsInv ==
  ASSUME SSHInv, NEW c \in SSH!Call,
         SSH!Timers(c) \/ SSH!Hooks(c) \/ SSH!Goroutine(c)
  PROVE  SSHInv'
<1> SUFFICES OneJobMoves(c)
  BY MoveKeepsInv
<1>1. /\ job \in [SSH!Call -> Jobs]
      /\ job[c] \in Jobs /\ Held(job[c]) /\ InCall(c, job[c])
  BY DEF SSHInv, SSHTypes
<1>2. CASE SSH!Timers(c)
  <2>1. CASE SSH!Due(c)
    <3>1. job'[c] = [job[c] EXCEPT !.time = "due"]
      BY <1>1, <2>1 DEF SSH!Due, Jobs
    <3>2. job'[c] \in Jobs
      BY <1>1, <3>1 DEF Jobs
    <3>3. Held(job'[c])
      BY <1>1, <2>1, <3>1 DEF SSH!Due, Jobs, Held
    <3>4. InCall(c, job'[c])
      BY <1>1, <2>1, <3>1 DEF SSH!Due, Jobs, InCall
    <3>5. QED
      BY <1>1, <2>1, <3>2, <3>3, <3>4 DEF SSH!Due, OneJobMoves
  <2>2. CASE SSH!ExpireContext(c)
    <3>1. job'[c] = [job[c] EXCEPT !.ctx = "expired"]
      BY <1>1, <2>2 DEF SSH!ExpireContext, Jobs
    <3>2. job'[c] \in Jobs
      BY <1>1, <3>1 DEF Jobs
    <3>3. Held(job'[c])
      BY <1>1, <2>2, <3>1 DEF SSH!ExpireContext, Jobs, Held
    <3>4. InCall(c, job'[c])
      BY <1>1, <2>2, <3>1 DEF SSH!ExpireContext, Jobs, InCall
    <3>5. QED
      BY <1>1, <2>2, <3>2, <3>3, <3>4 DEF SSH!ExpireContext, OneJobMoves
  <2>3. CASE SSH!ExpireSocket(c)
    <3>1. job'[c] = [job[c] EXCEPT !.socket = "overdue"]
      BY <1>1, <2>3 DEF SSH!ExpireSocket, Jobs
    <3>2. job'[c] \in Jobs
      BY <1>1, <3>1 DEF Jobs
    <3>3. Held(job'[c])
      BY <1>1, <2>3, <3>1 DEF SSH!ExpireSocket, Jobs, Held
    <3>4. InCall(c, job'[c])
      BY <1>1, <2>3, <3>1 DEF SSH!ExpireSocket, Jobs, InCall
    <3>5. QED
      BY <1>1, <2>3, <3>2, <3>3, <3>4 DEF SSH!ExpireSocket, OneJobMoves
  <2>4. CASE SSH!TimeGoesOn(c)
    <3>1. job'[c] = [job[c] EXCEPT !.time = "past"]
      BY <1>1, <2>4 DEF SSH!TimeGoesOn, Jobs
    <3>2. job'[c] \in Jobs
      BY <1>1, <3>1 DEF Jobs
    <3>3. Held(job'[c])
      BY <1>1, <2>4, <3>1 DEF SSH!TimeGoesOn, Jobs, Held
    <3>4. InCall(c, job'[c])
      BY <1>1, <2>4, <3>1 DEF SSH!TimeGoesOn, Jobs, InCall
    <3>5. QED
      BY <1>1, <2>4, <3>2, <3>3, <3>4 DEF SSH!TimeGoesOn, OneJobMoves
  <2>5. QED
    BY <1>2, <2>1, <2>2, <2>3, <2>4 DEF SSH!Timers
<1>3. CASE SSH!Connected(c)
  <2>1. PICK socket \in {"open", "overdue"} :
          /\ socket = "open" => job[c].time # "past"
          /\ job' = [job EXCEPT ![c] = [job[c] EXCEPT !.at = "handshake",
                                           !.socket = socket, !.armed = {"socket"}]]
    BY <1>3 DEF SSH!Connected, SSH!Moves
  <2>2. job'[c] = [job[c] EXCEPT !.at = "handshake", !.socket = socket,
                                 !.armed = {"socket"}]
    BY <1>1, <2>1 DEF Jobs
  <2>3. job'[c] \in Jobs
    BY <1>1, <2>2, HookSets DEF Jobs
  <2>4. Held(job'[c])
    BY <1>1, <1>3, <2>2 DEF SSH!Connected, Jobs, Held
  <2>5. InCall(c, job'[c])
    BY <1>1, <1>3, <2>1, <2>2 DEF SSH!Connected, Jobs, InCall
  <2>6. QED
    BY <1>1, <1>3, <2>2, <2>3, <2>4, <2>5 DEF SSH!Connected, SSH!Moves, OneJobMoves
<1>4. CASE SSH!HandshakeOk(c)
  <2>1. job'[c] = [job[c] EXCEPT !.at = "session", !.client = "open", !.armed = {"client"}]
    BY <1>1, <1>4 DEF SSH!HandshakeOk, SSH!Moves, Jobs
  <2>2. job'[c] \in Jobs
    BY <1>1, <1>4, <2>1, HookSets DEF Jobs
  <2>3. Held(job'[c])
    BY <1>1, <1>4, <2>1 DEF SSH!HandshakeOk, SSH!Moves, Jobs, Held
  <2>4. InCall(c, job'[c])
    BY <1>1, <1>4, <2>1 DEF SSH!HandshakeOk, SSH!Moves, Jobs, InCall
  <2>5. QED
    BY <1>1, <1>4, <2>2, <2>3, <2>4 DEF SSH!HandshakeOk, SSH!Moves, OneJobMoves
<1>5. CASE SSH!SessionOk(c)
  <2>1. job'[c] = [job[c] EXCEPT !.at = "exec"]
    BY <1>1, <1>5 DEF SSH!SessionOk, SSH!Moves, Jobs
  <2>2. job'[c] \in Jobs
    BY <1>1, <1>5, <2>1 DEF Jobs
  <2>3. Held(job'[c])
    BY <1>1, <1>5, <2>1 DEF SSH!SessionOk, SSH!Moves, Jobs, Held
  <2>4. InCall(c, job'[c])
    BY <1>1, <1>5, <2>1 DEF SSH!SessionOk, SSH!Moves, Jobs, InCall
  <2>5. QED
    BY <1>1, <1>5, <2>2, <2>3, <2>4 DEF SSH!SessionOk, SSH!Moves, OneJobMoves
<1>6. CASE SSH!Start(c)
  <2>1. job'[c] = [job[c] EXCEPT !.at = "running"]
    BY <1>1, <1>6 DEF SSH!Start, SSH!Moves, Jobs
  <2>2. job'[c] \in Jobs
    BY <1>1, <1>6, <2>1 DEF Jobs
  <2>3. Held(job'[c])
    BY <1>1, <1>6, <2>1 DEF SSH!Start, SSH!Moves, Jobs, Held
  <2>4. InCall(c, job'[c])
    BY <1>1, <1>6, <2>1 DEF SSH!Start, SSH!Moves, Jobs, InCall
  <2>5. QED
    BY <1>1, <1>6, <2>2, <2>3, <2>4 DEF SSH!Start, SSH!Moves, OneJobMoves
<1>7. CASE SSH!DialFails(c)
  <2>1. job'[c] = [job[c] EXCEPT !.at = "send", !.out = "error"]
    BY <1>1, <1>7 DEF SSH!DialFails, SSH!Moves, Jobs
  <2>2. job'[c] \in Jobs
    BY <1>1, <1>7, <2>1 DEF Jobs
  <2>3. Held(job'[c])
    BY <1>1, <1>7, <2>1 DEF SSH!DialFails, SSH!Moves, Jobs, Held
  <2>4. InCall(c, job'[c])
    BY <1>1, <1>7, <2>1 DEF SSH!DialFails, SSH!Moves, Jobs, InCall
  <2>5. QED
    BY <1>1, <1>7, <2>2, <2>3, <2>4 DEF SSH!DialFails, SSH!Moves, OneJobMoves
<1>8. CASE SSH!HandshakeFails(c)
  <2>0. PICK k \in Jobs :
              /\ k = SSH!Closed(job[c])
              /\ k.ctx = job[c].ctx /\ k.time = job[c].time
              /\ k.ch = job[c].ch /\ k.firing = job[c].firing
              /\ k.socket = "closed"
              /\ k.client = IF job[c].client = "open" THEN "closed" ELSE job[c].client
              /\ k.closes = IF job[c].client = "open" THEN job[c].closes + 1
                           ELSE job[c].closes
    BY <1>1, ClosedJob
  <2>1. job'[c] = [k EXCEPT !.at = "send", !.out = "error", !.armed = {}]
    BY <1>1, <1>8, <2>0 DEF SSH!HandshakeFails, SSH!Moves
  <2>2. job'[c] \in Jobs
    <3>1. k \in Jobs /\ {} \in SUBSET SSH!Hook
      BY HookSets
    <3>2. QED
      BY <2>1, <3>1 DEF Jobs
  <2>3. Held(job'[c])
    BY <1>1, <1>8, <2>0, <2>1 DEF SSH!HandshakeFails, SSH!Moves, Jobs, Held
  <2>4. InCall(c, job'[c])
    BY <1>1, <1>8, <2>0, <2>1 DEF SSH!HandshakeFails, SSH!Moves, Jobs, InCall
  <2>5. QED
    BY <1>1, <1>8, <2>2, <2>3, <2>4 DEF SSH!HandshakeFails, SSH!Moves, OneJobMoves
<1>9. CASE SSH!SessionFails(c)
  <2>1. job'[c] = [job[c] EXCEPT !.at = "cleanup", !.out = "error"]
    BY <1>1, <1>9 DEF SSH!SessionFails, SSH!Moves, Jobs
  <2>2. job'[c] \in Jobs
    BY <1>1, <1>9, <2>1 DEF Jobs
  <2>3. Held(job'[c])
    BY <1>1, <1>9, <2>1 DEF SSH!SessionFails, SSH!Moves, Jobs, Held
  <2>4. InCall(c, job'[c])
    BY <1>1, <1>9, <2>1 DEF SSH!SessionFails, SSH!Moves, Jobs, InCall
  <2>5. QED
    BY <1>1, <1>9, <2>2, <2>3, <2>4 DEF SSH!SessionFails, SSH!Moves, OneJobMoves
<1>10. CASE SSH!Cleanup(c)
  <2>0. PICK k \in Jobs :
              /\ k = SSH!Closed(job[c])
              /\ k.ctx = job[c].ctx /\ k.time = job[c].time
              /\ k.ch = job[c].ch /\ k.firing = job[c].firing
              /\ k.socket = "closed"
              /\ k.client = IF job[c].client = "open" THEN "closed" ELSE job[c].client
              /\ k.closes = IF job[c].client = "open" THEN job[c].closes + 1
                           ELSE job[c].closes
    BY <1>1, ClosedJob
  <2>1. job'[c] = [k EXCEPT !.at = "send", !.armed = {}]
    BY <1>1, <1>10, <2>0 DEF SSH!Cleanup, SSH!Moves
  <2>2. job'[c] \in Jobs
    <3>1. k \in Jobs /\ {} \in SUBSET SSH!Hook
      BY HookSets
    <3>2. QED
      BY <2>1, <3>1 DEF Jobs
  <2>3. Held(job'[c])
    BY <1>1, <1>10, <2>0, <2>1 DEF SSH!Cleanup, SSH!Moves, Jobs, Held
  <2>4. InCall(c, job'[c])
    BY <1>1, <1>10, <2>0, <2>1 DEF SSH!Cleanup, SSH!Moves, Jobs, InCall
  <2>5. QED
    BY <1>1, <1>10, <2>2, <2>3, <2>4 DEF SSH!Cleanup, SSH!Moves, OneJobMoves
<1>11. CASE SSH!Send(c)
  <2>1. job'[c] = [job[c] EXCEPT !.at = "done", !.ch = job[c].out]
    BY <1>1, <1>11 DEF SSH!Send, SSH!Moves, Jobs
  <2>2. job'[c] \in Jobs
    BY <1>1, <1>11, <2>1 DEF Jobs
  <2>3. Held(job'[c])
    BY <1>1, <1>11, <2>1 DEF SSH!Send, SSH!Moves, Jobs, Held
  <2>4. InCall(c, job'[c])
    BY <1>1, <1>11, <2>1 DEF SSH!Send, SSH!Moves, Jobs, InCall
  <2>5. QED
    BY <1>1, <1>11, <2>2, <2>3, <2>4 DEF SSH!Send, SSH!Moves, OneJobMoves
<1>12. ASSUME NEW hook \in SSH!Hook, SSH!Fire(c, hook)
      PROVE  OneJobMoves(c)
  <2> DEFINE A == job[c].armed \ {hook}
             F == job[c].firing \cup {hook}
             j == [job[c] EXCEPT !.armed = A, !.firing = F]
  <2>1. job'[c] = j
    BY <1>1, <1>12 DEF SSH!Fire, Jobs
  <2>2. job'[c] \in Jobs
    <3>1. A \in SUBSET SSH!Hook /\ F \in SUBSET SSH!Hook
      BY <1>1 DEF Jobs
    <3> HIDE DEF A, F
    <3>2. j \in Jobs
      BY <1>1, <3>1 DEF Jobs
    <3>3. QED
      BY <2>1, <3>2
  <2>3. Held(job'[c])
    BY <1>1, <1>12, <2>1 DEF SSH!Fire, Jobs, Held
  <2>4. InCall(c, job'[c])
    BY <1>1, <1>12, <2>1 DEF SSH!Fire, Jobs, InCall
  <2>5. QED
    BY <1>1, <1>12, <2>2, <2>3, <2>4 DEF SSH!Fire, OneJobMoves
<1>13. ASSUME NEW hook \in SSH!Hook, SSH!CloseInHook(c, hook)
      PROVE  OneJobMoves(c)
  <2> DEFINE F == job[c].firing \ {hook}
             j == [job[c] EXCEPT !.firing = F]
             s == [j EXCEPT !.socket = "closed"]
             n == IF hook = "client" THEN SSH!Closed(j) ELSE s
  <2>1. j \in Jobs
    <3>1. F \in SUBSET SSH!Hook
      BY <1>1 DEF Jobs
    <3> HIDE DEF F
    <3>2. QED
      BY <1>1, <3>1 DEF Jobs
  <2>2. j.ctx = job[c].ctx /\ j.time = job[c].time /\ j.at = job[c].at
        /\ j.ch = job[c].ch /\ j.armed = job[c].armed /\ j.socket = job[c].socket
        /\ j.client = job[c].client /\ j.closes = job[c].closes /\ j.firing = F
    BY <1>1 DEF Jobs
  <2>3. job' = [job EXCEPT ![c] = n] /\ hook \in job[c].firing
    BY <1>13 DEF SSH!CloseInHook
  <2> HIDE DEF F, j
  <2>4. PICK k \in Jobs :
              /\ k = SSH!Closed(j)
              /\ k.ctx = j.ctx /\ k.time = j.time /\ k.at = j.at /\ k.ch = j.ch
              /\ k.armed = j.armed /\ k.firing = j.firing
              /\ k.socket = "closed"
              /\ k.client = IF j.client = "open" THEN "closed" ELSE j.client
              /\ k.closes = IF j.client = "open" THEN j.closes + 1 ELSE j.closes
    BY <2>1, ClosedJob
  <2>5. /\ s \in Jobs
        /\ s.ctx = j.ctx /\ s.time = j.time /\ s.at = j.at /\ s.ch = j.ch
        /\ s.armed = j.armed /\ s.firing = j.firing
        /\ s.socket = "closed" /\ s.client = j.client /\ s.closes = j.closes
    BY <2>1 DEF Jobs
  <2> HIDE DEF s
  <2>6. n \in Jobs /\ Held(n) /\ InCall(c, n)
    <3>1. Held(k) /\ InCall(c, k)
      BY <1>1, <2>2, <2>3, <2>4 DEF Held, InCall, Jobs
    <3>2. Held(s) /\ InCall(c, s)
      BY <1>1, <2>2, <2>3, <2>5 DEF Held, InCall, Jobs
    <3>3. QED
      BY <2>4, <2>5, <3>1, <3>2
  <2> HIDE DEF n
  <2>7. job'[c] = n
    BY <1>1, <2>3
  <2>8. QED
    BY <1>13, <2>3, <2>6, <2>7 DEF SSH!CloseInHook, OneJobMoves
<1>14. ASSUME NEW out \in {"ok", "error"}, SSH!CommandEnds(c, out)
      PROVE  OneJobMoves(c)
  <2>1. job'[c] = [job[c] EXCEPT !.at = "cleanup", !.out = out]
    BY <1>1, <1>14 DEF SSH!CommandEnds, SSH!Moves, Jobs
  <2>2. job'[c] \in Jobs
    BY <1>1, <1>14, <2>1 DEF Jobs
  <2>3. Held(job'[c])
    BY <1>1, <1>14, <2>1 DEF SSH!CommandEnds, SSH!Moves, Jobs, Held
  <2>4. InCall(c, job'[c])
    BY <1>1, <1>14, <2>1 DEF SSH!CommandEnds, SSH!Moves, Jobs, InCall
  <2>5. QED
    BY <1>1, <1>14, <2>2, <2>3, <2>4 DEF SSH!CommandEnds, SSH!Moves, OneJobMoves
<1>15. QED
  BY <1>2, <1>3, <1>4, <1>5, <1>6, <1>7, <1>8, <1>9, <1>10, <1>11, <1>12, <1>13, <1>14
     DEF SSH!Hooks, SSH!Goroutine, SSH!Fails

\* A call of Notify starts the job that was waiting for it.
LEMMA NotifyKeepsInv ==
  ASSUME SSHInv, SSH!Notify
  PROVE  SSHInv'
<1>1. PICK n \in SSH!Call :
      /\ n = call + 1 /\ call \in Nat /\ job \in [SSH!Call -> Jobs]
      /\ job' = [job EXCEPT ![n].at = "connect"]
      /\ call' = n /\ caller' = "select" /\ UNCHANGED <<quit, started>>
      /\ caller = "idle"
  <2>1. call + 1 \in SSH!Call /\ call \in Nat
    BY BoundsAssumption DEF SSH!Notify, SSHInv, SSHTypes, SSH!Call
  <2>2. QED
    BY <2>1 DEF SSH!Notify, SSHInv, SSHTypes
<1>2. Held(job[n]) /\ InCall(n, job[n]) /\ job[n] \in Jobs
  BY <1>1 DEF SSHInv
<1>3. job[n].at = "none"
  BY <1>1, <1>2 DEF InCall
<1>4. job'[n] = [job[n] EXCEPT !.at = "connect"] /\ job'[n] \in Jobs
  BY <1>1, <1>2 DEF Jobs
<1>5. job' \in [SSH!Call -> Jobs]
  BY <1>1, <1>2, <1>4
<1>6. SSHTypes'
  BY <1>1, <1>5, BoundsAssumption DEF SSHInv, SSHTypes, SSH!Call
<1>7. ASSUME NEW d \in SSH!Call
      PROVE  (Held(job[d]) /\ InCall(d, job[d]))'
  <2>1. CASE d = n
    <3>1. Held(job'[n])
      BY <1>2, <1>3, <1>4 DEF Held, Jobs
    <3>2. InCall(n, job[n])'
      <4>1. job'[n].at = "connect" /\ job'[n].ctx = job[n].ctx /\ job'[n].time = job[n].time /\ job'[n].socket = job[n].socket
        BY <1>2, <1>4 DEF Jobs
      <4>2. n \in Nat /\ n <= n /\ ~(n < n)
        BY <1>1
      <4>3. QED
        BY <1>1, <1>2, <1>3, <4>1, <4>2 DEF InCall
    <3>3. QED
      BY <2>1, <3>1, <3>2 DEF Held, InCall
  <2>2. CASE d # n
    <3>1. job'[d] = job[d] /\ d \in Int
      BY <1>1, <2>2 DEF SSH!Call
    <3>2. Held(job[d]) /\ InCall(d, job[d])
      BY DEF SSHInv
    <3>3. InCall(d, job[d])'
      BY <1>1, <2>2, <3>1, <3>2 DEF InCall
    <3>4. QED
      BY <3>1, <3>2, <3>3 DEF Held
  <2>3. QED
    BY <2>1, <2>2
<1>8. QED
  BY <1>6, <1>7 DEF SSHInv, SSH!Call

\* Return ends the context of its call, and the end of the program ends all.
LEMMA ContextsKeepInv ==
  ASSUME SSHInv, SSH!Return \/ SSH!Quit
  PROVE  SSHInv'
<1>1. /\ call \in Nat /\ job \in [SSH!Call -> Jobs]
      /\ \A d \in SSH!Call : job[d] \in Jobs /\ Held(job[d]) /\ InCall(d, job[d])
  BY DEF SSHInv, SSHTypes
<1>2. ASSUME NEW d \in SSH!Call
      PROVE  \/ job'[d] = job[d]
             \/ job[d].ctx = "live" /\ job'[d] = [job[d] EXCEPT !.ctx = "canceled"]
  BY <1>1 DEF SSH!Return, SSH!Quit, Jobs
<1>3. ASSUME NEW d \in SSH!Call
      PROVE  job'[d] \in Jobs /\ Held(job'[d])
  <2>1. job[d] \in Jobs /\ Held(job[d])
    BY <1>1
  <2>2. [job[d] EXCEPT !.ctx = "canceled"] \in Jobs
    BY <2>1 DEF Jobs
  <2>3. Held([job[d] EXCEPT !.ctx = "canceled"])
    BY <2>1 DEF Held, Jobs
  <2>4. QED
    BY <1>2, <2>1, <2>2, <2>3
<1>4. SSHTypes'
  BY <1>1, <1>3 DEF SSHInv, SSHTypes, SSH!Return, SSH!Quit, SSH!Call
<1>5. ASSUME NEW d \in SSH!Call
      PROVE  InCall(d, job[d])'
  <2>1. job[d] \in Jobs /\ Held(job[d]) /\ InCall(d, job[d])
    BY <1>1
  <2>2. CASE SSH!Return
    BY <1>1, <1>2, <2>1, <2>2 DEF InCall, Held, Jobs, SSH!Return, SSH!Call
  <2>3. CASE SSH!Quit
    BY <1>1, <1>2, <2>1, <2>3 DEF InCall, Held, Jobs, SSH!Quit, SSH!Call
  <2>4. QED
    BY <2>2, <2>3
<1>6. QED
  BY <1>3, <1>4, <1>5 DEF SSHInv, SSH!Call, Held

LEMMA SSHInvInitial ==
  ASSUME SSH!Init
  PROVE  SSHInv
<1>1. SSH!NoJob \in Jobs /\ Held(SSH!NoJob)
  BY HookSets DEF SSH!NoJob, Jobs, Held
<1>2. SSHTypes
  <2>1. <<>> \in Seq(SSH!Call)
    BY EmptySeq
  <2>2. job \in [SSH!Call -> Jobs]
    BY <1>1 DEF SSH!Init
  <2>3. call \in 0 .. MaxCalls
    BY BoundsAssumption DEF SSH!Init
  <2>4. QED
    BY <2>1, <2>2, <2>3 DEF SSHTypes, SSH!Init
<1>3. ASSUME NEW c \in SSH!Call
      PROVE  Held(job[c]) /\ InCall(c, job[c])
  BY <1>1 DEF SSH!Init, InCall, SSH!NoJob, SSH!Call
<1>4. QED
  BY <1>2, <1>3 DEF SSHInv

LEMMA SSHInvInductive ==
  ASSUME SSHInv, [SSH!Next]_(SSH!vars)
  PROVE  SSHInv'
<1>1. CASE SSH!Refuse \/ SSH!Over \/ UNCHANGED SSH!vars
  BY <1>1 DEF SSH!Refuse, SSH!Over, SSH!vars, SSHInv, SSHTypes, SSH!Call, InCall
<1>2. QED
  BY <1>1, NotifyKeepsInv, ContextsKeepInv, GoroutineKeepsInv DEF SSH!Next

\* A command is sent while its call is still waiting, in the instant in which
\* the call's timeout ends, or as the program stops.
LEMMA StartsInTime ==
  ASSUME SSHInv, [SSH!Next]_(SSH!vars), started' # started
  PROVE  LET c == started'[Len(started')] IN
           quit \/ (caller = "select" /\ c = call) \/ job[c].time = "due"
<1>1. PICK c \in SSH!Call : SSH!Start(c)
  BY DEF SSH!Next, SSH!vars, SSH!Refuse, SSH!Notify, SSH!Return, SSH!Quit,
         SSH!Over, SSH!Timers, SSH!Due, SSH!ExpireContext,
         SSH!ExpireSocket, SSH!TimeGoesOn, SSH!Hooks, SSH!Fire, SSH!CloseInHook,
         SSH!Goroutine, SSH!Fails, SSH!Connected, SSH!HandshakeOk,
         SSH!SessionOk, SSH!CommandEnds, SSH!DialFails, SSH!HandshakeFails,
         SSH!SessionFails, SSH!Cleanup, SSH!Send
<1>2. job[c] \in Jobs /\ InCall(c, job[c]) /\ job[c].at = "exec"
      /\ job[c].socket = "open"
  BY <1>1 DEF SSHInv, SSHTypes, SSH!Start, SSH!Works
<1>3. quit \/ (c = call /\ caller = "select") \/ job[c].time = "due"
  BY <1>2 DEF Jobs, InCall, SSHInv, SSHTypes, SSH!Call
<1>4. started'[Len(started')] = c
  BY <1>1, AppendProperties DEF SSH!Start, SSHInv, SSHTypes
<1>5. QED
  BY <1>3, <1>4

-----------------------------------------------------------------------------
(***************************************************************************)
(* Shell.                                                                  *)
(***************************************************************************)

ShellTypes ==
  /\ at \in {"start", "wait", "handoff", "drain", "end", "returned"}
  /\ cmd \in {"none", "alive", "dead", "reaped"}
  /\ \A k \in kids : k.group \in BOOLEAN /\ k.pipe \in BOOLEAN
  /\ kept \in 0 .. MaxOutput
  /\ stopped \in BOOLEAN /\ eof \in BOOLEAN /\ short \in BOOLEAN

\* Where Run is, the command and the watcher are not far.
RunInv ==
  /\ at = "start" => cmd = "none" /\ kids = {}
  /\ at = "wait" => cmd \in {"alive", "dead"}
  /\ at \in {"handoff", "drain", "end"} => cmd = "reaped"
  /\ at = "returned" => cmd \in {"none", "reaped"} /\ (cmd = "none" => kids = {})
  /\ at \in {"drain", "end", "returned"} => watcher # "watching"
  /\ watcher = "watching" => at \in {"wait", "handoff"}

\* What Run knows of the command's failure, the watcher's and the pipe's: os/exec
\* copies for ever, as limitedOutput reports all it was given.
ErrInv ==
  /\ ~short
  /\ at \in {"start", "wait", "handoff", "drain"} => ~eof
  /\ at = "drain" => (err = "none" <=> exit = "zero" /\ ~stopped)
  /\ at = "end" => (err = "none" <=> exit = "zero" /\ ~stopped /\ eof)
  /\ Shell!VerdictExact

ShellInv == ShellTypes /\ RunInv /\ ErrInv /\ Shell!FailureLeavesNothing

LEMMA ShellInvInitial ==
  ASSUME Shell!Init
  PROVE  ShellInv
<1>1. ShellTypes /\ kept <= MaxOutput
  <2>1. kept \in 0 .. MaxOutput /\ kept <= MaxOutput
    BY BoundsAssumption DEF Shell!Init
  <2>2. \A k \in kids : k.group \in BOOLEAN /\ k.pipe \in BOOLEAN
    BY DEF Shell!Init
  <2>3. QED
    BY <2>1, <2>2 DEF ShellTypes, Shell!Init
<1>2. RunInv /\ ErrInv
  BY DEF RunInv, ErrInv, Shell!Init, Shell!VerdictExact
<1>3. QED
  BY <1>1, <1>2 DEF ShellInv, Shell!Init, Shell!FailureLeavesNothing

LEMMA ShellInvInductive ==
  ASSUME ShellInv, [Shell!Next]_(Shell!vars)
  PROVE  ShellInv'
<1> USE BoundsAssumption
    DEF ShellInv, ShellTypes, RunInv, ErrInv, Shell!VerdictExact,
        Shell!FailureLeavesNothing, Shell!procVars, Shell!waitVars, Shell!outVars
<1>1. CASE Shell!Refuse
  BY <1>1 DEF Shell!Refuse, Shell!Finish
<1>2. CASE Shell!StartOk
  BY <1>2 DEF Shell!StartOk
<1>3. CASE Shell!Done
  BY <1>3 DEF Shell!Done
<1>4. CASE Shell!WatcherKills
  <2>1. /\ watcher = "watching" /\ watcher' = "killed"
        /\ at \in {"wait", "handoff"}
        /\ UNCHANGED <<at, err, eof, kept, short, result>>
    BY <1>4 DEF Shell!WatcherKills
  <2>2. /\ cmd' = IF cmd = "alive" THEN "dead" ELSE cmd
        /\ kids' \subseteq kids
    BY <1>4 DEF Shell!WatcherKills, Shell!KillGroup
  <2>3. stopped' \in BOOLEAN
    BY <1>4 DEF Shell!WatcherKills, Shell!GroupExists
  <2>4. QED
    BY <2>1, <2>2, <2>3
<1>5. CASE Shell!Reap
  BY <1>5 DEF Shell!Reap
<1>6. CASE Shell!Handoff
  BY <1>6 DEF Shell!Handoff
<1>7. CASE Shell!DrainEnds
  BY <1>7 DEF Shell!DrainEnds, Shell!PipeOpen
<1>8. CASE Shell!DrainTimesOut
  BY <1>8 DEF Shell!DrainTimesOut, Shell!PipeOpen
<1>9. CASE Shell!Return
  BY <1>9 DEF Shell!Return, Shell!Finish, Shell!KillGroup
<1>10. CASE Shell!Fork
  BY <1>10 DEF Shell!Fork
<1>11. CASE Shell!CommandExits
  BY <1>11 DEF Shell!CommandExits
<1>12. CASE Shell!KidExits
  BY <1>12 DEF Shell!KidExits
<1>13. ASSUME NEW size \in 1 .. 2, Shell!Output(size)
      PROVE  ShellInv'
  BY <1>13 DEF Shell!Output, Shell!Kept, Shell!Reported
<1>14. CASE UNCHANGED Shell!vars
  BY <1>14 DEF Shell!vars
<1>15. QED
  BY <1>1, <1>2, <1>3, <1>4, <1>5, <1>6, <1>7, <1>8, <1>9, <1>10, <1>11, <1>12, <1>13, <1>14
     DEF Shell!Next, Shell!Processes, Shell!Run

-----------------------------------------------------------------------------
(***************************************************************************)
(* Webhook and Telegram.                                                   *)
(***************************************************************************)

HTTPTypes ==
  /\ target \in HTTP!Target
  /\ phase \in {"idle", "do", "status", "body", "read", "end"}
  /\ reply \in HTTP!Replies \cup {HTTP!NoReply}
  /\ read \in Nat /\ ended \in BOOLEAN /\ failed \in BOOLEAN

\* There is an answer only to a request that was sent, and the body of one of
\* Telegram's is over, broken or too long when it has been read.
AnswerInv ==
  /\ posted \subseteq {"endpoint"}
  /\ phase \in {"status", "body", "read"} => posted = {"endpoint"}
  /\ phase = "read" /\ ~HTTP!Webhook => ended \/ failed \/ read > MaxBody
  /\ phase \in {"idle", "end"} => "busy" \notin conns
  /\ phase # "idle" => result # "ok"

HTTPInv == HTTPTypes /\ AnswerInv /\ HTTP!SuccessIsAcceptance

LEMMA HTTPInvInitial ==
  ASSUME HTTP!Init
  PROVE  HTTPInv
BY DEF HTTPInv, HTTPTypes, AnswerInv, HTTP!SuccessIsAcceptance, HTTP!Init

LEMMA HTTPInvInductive ==
  ASSUME HTTPInv, [HTTP!Next]_(HTTP!vars)
  PROVE  HTTPInv'
<1> USE BoundsAssumption
    DEF HTTPInv, HTTPTypes, AnswerInv, HTTP!SuccessIsAcceptance, HTTP!noteVars,
        HTTP!Webhook, HTTP!Target
<1>1. CASE HTTP!Do
  BY <1>1 DEF HTTP!Do
<1>2. CASE HTTP!Refuse
  BY <1>2 DEF HTTP!Refuse
<1>3. CASE HTTP!Expire
  BY <1>3 DEF HTTP!Expire
<1>4. CASE HTTP!Cancel
  BY <1>4 DEF HTTP!Cancel
<1>5. CASE HTTP!Posts
  BY <1>5 DEF HTTP!Posts
<1>6. CASE HTTP!NoResponse
  BY <1>6 DEF HTTP!NoResponse
<1>7. CASE HTTP!Arrives
  BY <1>7 DEF HTTP!Arrives
<1>8. CASE HTTP!BodyEnds
  BY <1>8 DEF HTTP!BodyEnds
<1>9. CASE HTTP!BodyBreaks
  BY <1>9 DEF HTTP!BodyBreaks
<1>10. CASE HTTP!BodyCut
  BY <1>10 DEF HTTP!BodyCut, HTTP!Room
<1>11. CASE HTTP!Status
  BY <1>11 DEF HTTP!Status
<1>12. CASE HTTP!Return
  BY <1>12 DEF HTTP!Return, HTTP!Accepted, HTTP!Success, HTTP!Close, HTTP!Replies, HTTP!NoReply
<1>13. CASE HTTP!IdleCloses
  BY <1>13 DEF HTTP!IdleCloses
<1>14. ASSUME NEW r \in HTTP!Replies, HTTP!Answers(r)
      PROVE  HTTPInv'
  BY <1>14 DEF HTTP!Answers
<1>15. CASE UNCHANGED HTTP!vars
  BY <1>15 DEF HTTP!vars
<1>16. QED
  BY <1>1, <1>2, <1>3, <1>4, <1>5, <1>6, <1>7, <1>8, <1>9, <1>10, <1>11, <1>12, <1>13, <1>14, <1>15
     DEF HTTP!Next, HTTP!Server

-----------------------------------------------------------------------------
(***************************************************************************)
(* A target of any type.                                                   *)
(***************************************************************************)

TargetInv ==
  /\ kind = "ssh"   => SSHInv
  /\ kind = "shell" => ShellInv
  /\ kind = "http"  => HTTPInv

\* The state of a target's goroutines, processes or connection always fits
\* the place where its Notify is.
THEOREM TargetInvHolds == Spec => []TargetInv
<1>1. Init => TargetInv
  BY SSHInvInitial, ShellInvInitial, HTTPInvInitial DEF Init, TargetInv
<1>2. TargetInv /\ [Next]_vars => TargetInv'
  BY StepOfType, SSHInvInductive, ShellInvInductive, HTTPInvInductive
     DEF TargetInv
<1>3. QED
  BY <1>1, <1>2, PTL DEF Spec

\* Whatever fails and whoever comes first, a notification that is over leaves
\* nothing behind: no SSH client or socket, which is closed once; after a
\* failure no process of the command's group; no HTTP connection in use
\* (ssh.go:Notify, shell.go:Notify, webhook.go:Notify, telegram.go:Notify).
THEOREM NothingIsLeft == Spec => []NothingLeft
<1>1. TargetInv => NothingLeft
  <2>1. ASSUME SSHInv
        PROVE  SSH!NothingLeft
    BY <2>1 DEF SSHInv, SSHTypes, Jobs, Held, SSH!NothingLeft
  <2>2. QED
    BY <2>1 DEF TargetInv, NothingLeft, ShellInv, HTTPInv, AnswerInv,
                HTTP!NoConnectionLeft
<1>2. QED
  BY <1>1, TargetInvHolds, PTL

\* Success is reported for what the target accepted only: a command that exited
\* with zero in time and was read to the end of its output, an endpoint that
\* received the event itself and answered that it has it; and nobody else
\* receives it (shell.go, webhook.go:rejectRedirect, telegram.go).
THEOREM VerdictIsHonest == Spec => []VerdictHonest
<1>1. TargetInv => VerdictHonest
  BY DEF TargetInv, VerdictHonest, ShellInv, ErrInv, HTTPInv, AnswerInv,
         HTTP!NotForwarded
<1>2. QED
  BY <1>1, TargetInvHolds, PTL

\* No command of SSH is sent after its Notify has returned, however many calls
\* left a goroutine behind: the deadline of its socket has passed by then, but
\* for the instant in which the timers of its timeout fire one after the other,
\* or the program is being stopped (ssh.go:Notify).
THEOREM NothingStartsLate == Spec => NoLateStart
<1> DEFINE c == started'[Len(started')]
           InTime == quit \/ (caller = "select" /\ c = call) \/ job[c].time = "due"
<1>1. TargetInv /\ [Next]_vars => [started' # started => InTime]_(SSH!vars)
  <2> SUFFICES ASSUME TargetInv, [Next]_vars, started' # started
               PROVE  InTime
    OBVIOUS
  <2>1. kind = "ssh"
    BY DEF Next, vars, SSHStep, ShellStep, HTTPStep, sshVars, shellVars, httpVars
  <2>2. SSHInv /\ [SSH!Next]_(SSH!vars)
    BY <2>1, StepOfType DEF TargetInv
  <2>3. QED
    BY <2>2, StartsInTime
<1>2. QED
  BY <1>1, TargetInvHolds, PTL DEF Spec, NoLateStart, SSH!NoLateStart
=============================================================================
