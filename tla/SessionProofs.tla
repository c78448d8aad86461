--------------------------- MODULE SessionProofs ----------------------------
(***************************************************************************)
(* Session is well typed, acknowledges nothing without the scope for it,   *)
(* and opens no session for a read that nobody was allowed to make.        *)
(***************************************************************************)
EXTENDS Session, TLAPS

(***************************************************************************)
(* Whatever has the scope write - a credential, a session, one that an     *)
(* acknowledgement waits for - was given it at some time, and only such    *)
(* sessions send.                                                          *)
(***************************************************************************)
Honest(c) == c # None /\ c.write => c.account \in ever

Allowed ==
    /\ Writers \subseteq ever
    /\ \A t \in Thread : Honest(cred[t]) /\ Honest(session[t])
    /\ Honest(daemon.session)
    /\ \A k \in acks \cup acked : Honest(k.session)
    /\ \A k \in acked : k.session.write

(***************************************************************************)
(* An account that a read goes by could write while the read was under way *)
(* - the credentials it has found out itself, those the daemon has found   *)
(* out for it, those behind an acknowledgement - and what has happened for *)
(* a process is not forgotten, because no process starts twice.            *)
(***************************************************************************)
Asked ==
    /\ \A p \in Process : Active(p) => Writers \subseteq could[p]
    /\ \A p \in Process :
          /\ pc[p] = "resolve" => line[p].op = "unread"
          /\ Active(p) /\ pc[p] # "check" /\ line[p].op = "read" => cred[p].account \in could[p]
    /\ pc[Server] \in Running /\ line[Server].op = "read" => cred[Server].account \in could[serving]
    /\ \A k \in acks \cup acked : pc[k.by] # "idle" /\ k.as \in could[k.by]
    /\ \A p \in opened : pc[p] # "idle" /\ (line[p].op = "read" => could[p] # {})

LEMMA TypedStep == TypeOK /\ [Next]_vars => Typed'
<1> SUFFICES ASSUME TypeOK, [Next]_vars PROVE Typed'
  OBVIOUS
<1> USE ConstantsOK DEF TypeOK, Typed, Placed, Thread, CommandLine, Credentials, NoDaemon, Ack, Running, registry, threads, history
<1>1. ASSUME NEW p \in Process, NEW l \in Line, Begin(p, l)
      PROVE  Typed'
  BY <1>1 DEF Begin, Goto, Writers
<1>2. ASSUME NEW t \in Thread, Resolve(t)
      PROVE  Typed'
  <2> DEFINE r == Requested(line[t])
  <2>1. pc[t] \in {"check", "resolve"} /\ line[t] \in CommandLine /\ r \in Account \cup {None}
    BY <1>2 DEF Resolve, Requested
  <2>2. CASE ~Resolvable(line[t])
    BY <1>2, <2>1, <2>2 DEF Resolve, Report, Goto
  <2>3. CASE Resolvable(line[t]) /\ line[t].op = "read" /\ scope[r] # "write"
    <3>1. Report(t, "READ_ONLY") /\ UNCHANGED cred
      BY <1>2, <2>3 DEF Resolve, Resolved
    <3>2. UNCHANGED <<registry, unread, daemon, serving, line, target, session, answered, acked,
                      history, changes>>
      BY <1>2 DEF Resolve
    <3> QED
      BY <2>1, <3>1, <3>2 DEF Report, Goto
  <2>4. CASE Resolvable(line[t]) /\ (line[t].op = "read" => scope[r] = "write")
    <3>1. r \in Account /\ Resolved(r) \in Credentials
      BY <2>1, <2>4 DEF Resolvable, Resolved
    <3>2. /\ cred' = [cred EXCEPT ![t] = Resolved(r)]
          /\ Goto(t, IF pc[t] = "check" THEN "forward" ELSE "open")
          /\ UNCHANGED <<registry, unread, daemon, serving, line, target, session, answered,
                         acked, history, changes, verdict, acks>>
      BY <1>2, <2>4 DEF Resolve, Resolved
    <3> QED
      BY <2>1, <3>1, <3>2 DEF Goto
  <2> QED
    BY <2>2, <2>3, <2>4
<1>3. ASSUME NEW p \in Process, Forward(p)
      PROVE  Typed'
  BY <1>3 DEF Forward, Alone, Goto, Resolvable, Requested
<1>4. ASSUME NEW p \in Process, StartDaemon(p)
      PROVE  Typed'
  BY <1>4 DEF StartDaemon, Goto, Resolved
<1>5. ASSUME NEW p \in Process, FindDaemon(p)
      PROVE  Typed'
  BY <1>5 DEF FindDaemon, Goto
<1>6. ASSUME NEW p \in Process, StartFails(p)
      PROVE  Typed'
  BY <1>6 DEF StartFails, Alone, Goto
<1>7. ASSUME NEW p \in Process, DaemonGone(p)
      PROVE  Typed'
  BY <1>7 DEF DaemonGone, Alone, Goto
<1>8. ASSUME NEW p \in Process, Serve(p)
      PROVE  Typed'
  BY <1>8 DEF Serve, Goto
<1>9. ASSUME NEW p \in Process, Reply(p)
      PROVE  Typed'
  BY <1>9 DEF Reply
<1>10. ASSUME NEW t \in Thread, Open(t)
      PROVE  Typed'
  BY <1>10 DEF Open, Goto
<1>11. ASSUME NEW t \in Thread, Fails(t)
      PROVE  Typed'
  BY <1>11 DEF Fails, Report, Goto
<1>12. ASSUME NEW t \in Thread, List(t)
      PROVE  Typed'
  BY <1>12 DEF List, Report, Goto
<1>13. ASSUME NEW t \in Thread, AlreadyRead(t)
      PROVE  Typed'
  BY <1>13 DEF AlreadyRead, Report, Goto
<1>14. ASSUME NEW t \in Thread, MarkRead(t)
      PROVE  Typed'
  BY <1>14 DEF MarkRead, Goto
<1>15. ASSUME NEW t \in Thread, Wake(t)
      PROVE  Typed'
  BY <1>15 DEF Wake, Report, Goto
<1>16. ASSUME NEW k \in acks, SendAck(k)
      PROVE  Typed'
  BY <1>16 DEF SendAck
<1>17. ASSUME NEW a \in Account, NEW s \in {"read", "write", None}, SetScope(a, s),
           changes < MaxChanges, changes' = changes + 1, UNCHANGED acked
      PROVE  Typed'
  BY <1>17 DEF SetScope, Active
<1>18. ASSUME NEW a \in Account, Use(a),
           changes < MaxChanges, changes' = changes + 1, UNCHANGED acked
      PROVE  Typed'
  BY <1>18 DEF Use
<1>19. ASSUME NEW a \in Account, Arrive(a),
           changes < MaxChanges, changes' = changes + 1, UNCHANGED acked
      PROVE  Typed'
  BY <1>19 DEF Arrive
<1>20. ASSUME StopDaemon,
           changes < MaxChanges, changes' = changes + 1, UNCHANGED acked
      PROVE  Typed'
  BY <1>20 DEF StopDaemon
<1>21. ASSUME UNCHANGED vars
      PROVE  Typed'
  BY <1>21 DEF vars
<1> HIDE DEF TypeOK, Typed, Placed, Thread, CommandLine, Credentials, NoDaemon, Ack, Running, registry, threads, history
<1> QED
  BY <1>1, <1>2, <1>3, <1>4, <1>5, <1>6, <1>7, <1>8, <1>9, <1>10, <1>11,
     <1>12, <1>13, <1>14, <1>15, <1>16, <1>17, <1>18, <1>19, <1>20, <1>21
     DEF Next, Relay, Work, Environment

LEMMA PlacedStep == TypeOK /\ [Next]_vars => Placed'
<1> SUFFICES ASSUME TypeOK, [Next]_vars PROVE Placed'
  OBVIOUS
<1> USE ConstantsOK DEF TypeOK, Typed, Placed, Thread, CommandLine, Credentials, NoDaemon, Ack, Running, registry, threads, history
<1>1. ASSUME NEW p \in Process, NEW l \in Line, Begin(p, l)
      PROVE  Placed'
  BY <1>1 DEF Begin, Goto
<1>2. ASSUME NEW t \in Thread, Resolve(t)
      PROVE  Placed'
  <2> DEFINE r == Requested(line[t])
  <2>1. pc[t] \in {"check", "resolve"} /\ line[t] \in CommandLine /\ r \in Account \cup {None}
    BY <1>2 DEF Resolve, Requested
  <2>2. CASE ~Resolvable(line[t])
    BY <1>2, <2>1, <2>2 DEF Resolve, Report, Goto
  <2>3. CASE Resolvable(line[t]) /\ line[t].op = "read" /\ scope[r] # "write"
    <3>1. Report(t, "READ_ONLY") /\ UNCHANGED cred
      BY <1>2, <2>3 DEF Resolve, Resolved
    <3>2. UNCHANGED <<registry, unread, daemon, serving, line, target, session, answered, acked,
                      history, changes>>
      BY <1>2 DEF Resolve
    <3> QED
      BY <2>1, <3>1, <3>2 DEF Report, Goto
  <2>4. CASE Resolvable(line[t]) /\ (line[t].op = "read" => scope[r] = "write")
    <3>1. r \in Account /\ Resolved(r) \in Credentials
      BY <2>1, <2>4 DEF Resolvable, Resolved
    <3>2. /\ cred' = [cred EXCEPT ![t] = Resolved(r)]
          /\ Goto(t, IF pc[t] = "check" THEN "forward" ELSE "open")
          /\ UNCHANGED <<registry, unread, daemon, serving, line, target, session, answered,
                         acked, history, changes, verdict, acks>>
      BY <1>2, <2>4 DEF Resolve, Resolved
    <3> QED
      BY <2>1, <3>1, <3>2 DEF Goto
  <2> QED
    BY <2>2, <2>3, <2>4
<1>3. ASSUME NEW p \in Process, Forward(p)
      PROVE  Placed'
  BY <1>3 DEF Forward, Alone, Goto, Resolvable, Requested
<1>4. ASSUME NEW p \in Process, StartDaemon(p)
      PROVE  Placed'
  BY <1>4 DEF StartDaemon, Goto, Resolved
<1>5. ASSUME NEW p \in Process, FindDaemon(p)
      PROVE  Placed'
  BY <1>5 DEF FindDaemon, Goto
<1>6. ASSUME NEW p \in Process, StartFails(p)
      PROVE  Placed'
  BY <1>6 DEF StartFails, Alone, Goto
<1>7. ASSUME NEW p \in Process, DaemonGone(p)
      PROVE  Placed'
  BY <1>7 DEF DaemonGone, Alone, Goto
<1>8. ASSUME NEW p \in Process, Serve(p)
      PROVE  Placed'
  <2>1. line'[Server] # None /\ line'[Server] \in CommandLine
    BY <1>8 DEF Serve
  <2> QED
    BY <1>8, <2>1 DEF Serve, Goto
<1>9. ASSUME NEW p \in Process, Reply(p)
      PROVE  Placed'
  BY <1>9 DEF Reply
<1>10. ASSUME NEW t \in Thread, Open(t)
      PROVE  Placed'
  BY <1>10 DEF Open, Goto
<1>11. ASSUME NEW t \in Thread, Fails(t)
      PROVE  Placed'
  BY <1>11 DEF Fails, Report, Goto
<1>12. ASSUME NEW t \in Thread, List(t)
      PROVE  Placed'
  BY <1>12 DEF List, Report, Goto
<1>13. ASSUME NEW t \in Thread, AlreadyRead(t)
      PROVE  Placed'
  BY <1>13 DEF AlreadyRead, Report, Goto
<1>14. ASSUME NEW t \in Thread, MarkRead(t)
      PROVE  Placed'
  BY <1>14 DEF MarkRead, Goto
<1>15. ASSUME NEW t \in Thread, Wake(t)
      PROVE  Placed'
  BY <1>15 DEF Wake, Report, Goto
<1>16. ASSUME NEW k \in acks, SendAck(k)
      PROVE  Placed'
  BY <1>16 DEF SendAck
<1>17. ASSUME NEW a \in Account, NEW s \in {"read", "write", None}, SetScope(a, s),
           changes < MaxChanges, changes' = changes + 1, UNCHANGED acked
      PROVE  Placed'
  BY <1>17 DEF SetScope, Active
<1>18. ASSUME NEW a \in Account, Use(a),
           changes < MaxChanges, changes' = changes + 1, UNCHANGED acked
      PROVE  Placed'
  BY <1>18 DEF Use
<1>19. ASSUME NEW a \in Account, Arrive(a),
           changes < MaxChanges, changes' = changes + 1, UNCHANGED acked
      PROVE  Placed'
  BY <1>19 DEF Arrive
<1>20. ASSUME StopDaemon,
           changes < MaxChanges, changes' = changes + 1, UNCHANGED acked
      PROVE  Placed'
  BY <1>20 DEF StopDaemon
<1>21. ASSUME UNCHANGED vars
      PROVE  Placed'
  BY <1>21 DEF vars
<1> HIDE DEF TypeOK, Typed, Placed, Thread, CommandLine, Credentials, NoDaemon, Ack, Running, registry, threads, history
<1> QED
  BY <1>1, <1>2, <1>3, <1>4, <1>5, <1>6, <1>7, <1>8, <1>9, <1>10, <1>11,
     <1>12, <1>13, <1>14, <1>15, <1>16, <1>17, <1>18, <1>19, <1>20, <1>21
     DEF Next, Relay, Work, Environment

LEMMA AllowedStep == TypeOK /\ Allowed /\ [Next]_vars => Allowed'
<1> SUFFICES ASSUME TypeOK /\ Allowed, [Next]_vars PROVE Allowed'
  OBVIOUS
<1> USE ConstantsOK DEF Allowed, Honest, TypeOK, Typed, Placed, Thread, CommandLine, Credentials, NoDaemon, Ack, Running, registry, threads, history, Writers
<1>1. ASSUME NEW p \in Process, NEW l \in Line, Begin(p, l)
      PROVE  Allowed'
  BY <1>1 DEF Begin, Goto
<1>2. ASSUME NEW t \in Thread, Resolve(t)
      PROVE  Allowed'
  <2> DEFINE r == Requested(line[t])
  <2>1. pc[t] \in {"check", "resolve"} /\ line[t] \in CommandLine /\ r \in Account \cup {None}
    BY <1>2 DEF Resolve, Requested
  <2>2. CASE ~Resolvable(line[t])
    BY <1>2, <2>1, <2>2 DEF Resolve, Report, Goto
  <2>3. CASE Resolvable(line[t]) /\ line[t].op = "read" /\ scope[r] # "write"
    <3>1. Report(t, "READ_ONLY") /\ UNCHANGED cred
      BY <1>2, <2>3 DEF Resolve, Resolved
    <3>2. UNCHANGED <<registry, unread, daemon, serving, line, target, session, answered, acked,
                      history, changes>>
      BY <1>2 DEF Resolve
    <3> QED
      BY <2>1, <3>1, <3>2 DEF Report, Goto
  <2>4. CASE Resolvable(line[t]) /\ (line[t].op = "read" => scope[r] = "write")
    <3>1. r \in Account /\ Resolved(r) \in Credentials
      BY <2>1, <2>4 DEF Resolvable, Resolved
    <3>2. /\ cred' = [cred EXCEPT ![t] = Resolved(r)]
          /\ Goto(t, IF pc[t] = "check" THEN "forward" ELSE "open")
          /\ UNCHANGED <<registry, unread, daemon, serving, line, target, session, answered,
                         acked, history, changes, verdict, acks>>
      BY <1>2, <2>4 DEF Resolve, Resolved
    <3>3. Honest(Resolved(r))
      BY <2>1, <2>4 DEF Resolvable, Resolved
    <3> QED
      BY <2>1, <3>1, <3>2, <3>3 DEF Goto
  <2> QED
    BY <2>2, <2>3, <2>4
<1>3. ASSUME NEW p \in Process, Forward(p)
      PROVE  Allowed'
  BY <1>3 DEF Forward, Alone, Goto, Resolvable, Requested
<1>4. ASSUME NEW p \in Process, StartDaemon(p)
      PROVE  Allowed'
  <2>1. target[p] \in Account
    BY <1>4 DEF StartDaemon
  <2>2. scope[target[p]] = "write" => target[p] \in ever
    BY <2>1
  <2>3. Honest(Resolved(target[p]))
    BY <2>1, <2>2 DEF Resolved
  <2> QED
    BY <1>4, <2>3 DEF StartDaemon, Goto
<1>5. ASSUME NEW p \in Process, FindDaemon(p)
      PROVE  Allowed'
  BY <1>5 DEF FindDaemon, Goto
<1>6. ASSUME NEW p \in Process, StartFails(p)
      PROVE  Allowed'
  BY <1>6 DEF StartFails, Alone, Goto
<1>7. ASSUME NEW p \in Process, DaemonGone(p)
      PROVE  Allowed'
  BY <1>7 DEF DaemonGone, Alone, Goto
<1>8. ASSUME NEW p \in Process, Serve(p)
      PROVE  Allowed'
  BY <1>8 DEF Serve, Goto
<1>9. ASSUME NEW p \in Process, Reply(p)
      PROVE  Allowed'
  BY <1>9 DEF Reply
<1>10. ASSUME NEW t \in Thread, Open(t)
      PROVE  Allowed'
  BY <1>10 DEF Open, Goto
<1>11. ASSUME NEW t \in Thread, Fails(t)
      PROVE  Allowed'
  BY <1>11 DEF Fails, Report, Goto
<1>12. ASSUME NEW t \in Thread, List(t)
      PROVE  Allowed'
  BY <1>12 DEF List, Report, Goto
<1>13. ASSUME NEW t \in Thread, AlreadyRead(t)
      PROVE  Allowed'
  BY <1>13 DEF AlreadyRead, Report, Goto
<1>14. ASSUME NEW t \in Thread, MarkRead(t)
      PROVE  Allowed'
  BY <1>14 DEF MarkRead, Goto
<1>15. ASSUME NEW t \in Thread, Wake(t)
      PROVE  Allowed'
  BY <1>15 DEF Wake, Report, Goto
<1>16. ASSUME NEW k \in acks, SendAck(k)
      PROVE  Allowed'
  BY <1>16 DEF SendAck
<1>17. ASSUME NEW a \in Account, NEW s \in {"read", "write", None}, SetScope(a, s),
           changes < MaxChanges, changes' = changes + 1, UNCHANGED acked
      PROVE  Allowed'
  BY <1>17 DEF SetScope, Active
<1>18. ASSUME NEW a \in Account, Use(a),
           changes < MaxChanges, changes' = changes + 1, UNCHANGED acked
      PROVE  Allowed'
  BY <1>18 DEF Use
<1>19. ASSUME NEW a \in Account, Arrive(a),
           changes < MaxChanges, changes' = changes + 1, UNCHANGED acked
      PROVE  Allowed'
  BY <1>19 DEF Arrive
<1>20. ASSUME StopDaemon,
           changes < MaxChanges, changes' = changes + 1, UNCHANGED acked
      PROVE  Allowed'
  BY <1>20 DEF StopDaemon
<1>21. ASSUME UNCHANGED vars
      PROVE  Allowed'
  BY <1>21 DEF vars
<1> HIDE DEF Allowed, Honest, TypeOK, Typed, Placed, Thread, CommandLine, Credentials, NoDaemon, Ack, Running, registry, threads, history, Writers
<1> QED
  BY <1>1, <1>2, <1>3, <1>4, <1>5, <1>6, <1>7, <1>8, <1>9, <1>10, <1>11,
     <1>12, <1>13, <1>14, <1>15, <1>16, <1>17, <1>18, <1>19, <1>20, <1>21
     DEF Next, Relay, Work, Environment

LEMMA AskedStep == TypeOK /\ Asked /\ [Next]_vars => Asked'
<1> SUFFICES ASSUME TypeOK /\ Asked, [Next]_vars PROVE Asked'
  OBVIOUS
<1> USE ConstantsOK DEF Asked, Active, TypeOK, Typed, Placed, Thread, CommandLine, Credentials, NoDaemon, Ack, Running, registry, threads, history, Writers
<1>1. ASSUME NEW p \in Process, NEW l \in Line, Begin(p, l)
      PROVE  Asked'
  BY <1>1 DEF Begin, Goto
<1>2. ASSUME NEW t \in Thread, Resolve(t)
      PROVE  Asked'
  <2> DEFINE r == Requested(line[t])
  <2>1. pc[t] \in {"check", "resolve"} /\ line[t] \in CommandLine /\ r \in Account \cup {None}
    BY <1>2 DEF Resolve, Requested
  <2>2. CASE ~Resolvable(line[t])
    BY <1>2, <2>1, <2>2 DEF Resolve, Report, Goto
  <2>3. CASE Resolvable(line[t]) /\ line[t].op = "read" /\ scope[r] # "write"
    <3>1. Report(t, "READ_ONLY") /\ UNCHANGED cred
      BY <1>2, <2>3 DEF Resolve, Resolved
    <3>2. UNCHANGED <<registry, unread, daemon, serving, line, target, session, answered, acked,
                      history, changes>>
      BY <1>2 DEF Resolve
    <3> QED
      BY <2>1, <3>1, <3>2 DEF Report, Goto
  <2>4. CASE Resolvable(line[t]) /\ (line[t].op = "read" => scope[r] = "write")
    <3>1. r \in Account /\ Resolved(r) \in Credentials
      BY <2>1, <2>4 DEF Resolvable, Resolved
    <3>2. /\ cred' = [cred EXCEPT ![t] = Resolved(r)]
          /\ Goto(t, IF pc[t] = "check" THEN "forward" ELSE "open")
          /\ UNCHANGED <<registry, unread, daemon, serving, line, target, session, answered,
                         acked, history, changes, verdict, acks>>
      BY <1>2, <2>4 DEF Resolve, Resolved
    <3>3. line[t].op = "read" => r \in Writers
      BY <3>1, <2>4
    <3>4. line[t].op = "read" => r \in could[IF t = Server THEN serving ELSE t]
      BY <2>1, <3>3
    <3>5. cred'[t].account = r
      BY <3>2 DEF Resolved
    <3>6. Goto(t, "forward") \/ Goto(t, "open")
      BY <3>2
    <3>7. pc[t] = "resolve" /\ t # Server => line[t].op = "unread"
      BY <2>1
    <3> QED
      BY <2>1, <3>1, <3>2, <3>4, <3>5, <3>6, <3>7 DEF Goto
  <2> QED
    BY <2>2, <2>3, <2>4
<1>3. ASSUME NEW p \in Process, Forward(p)
      PROVE  Asked'
  BY <1>3 DEF Forward, Alone, Goto, Resolvable, Requested
<1>4. ASSUME NEW p \in Process, StartDaemon(p)
      PROVE  Asked'
  BY <1>4 DEF StartDaemon, Goto, Resolved
<1>5. ASSUME NEW p \in Process, FindDaemon(p)
      PROVE  Asked'
  BY <1>5 DEF FindDaemon, Goto
<1>6. ASSUME NEW p \in Process, StartFails(p)
      PROVE  Asked'
  BY <1>6 DEF StartFails, Alone, Goto
<1>7. ASSUME NEW p \in Process, DaemonGone(p)
      PROVE  Asked'
  BY <1>7 DEF DaemonGone, Alone, Goto
<1>8. ASSUME NEW p \in Process, Serve(p)
      PROVE  Asked'
  BY <1>8 DEF Serve, Goto
<1>9. ASSUME NEW p \in Process, Reply(p)
      PROVE  Asked'
  BY <1>9 DEF Reply
<1>10. ASSUME NEW t \in Thread, Open(t)
      PROVE  Asked'
  BY <1>10 DEF Open, Goto
<1>11. ASSUME NEW t \in Thread, Fails(t)
      PROVE  Asked'
  BY <1>11 DEF Fails, Report, Goto
<1>12. ASSUME NEW t \in Thread, List(t)
      PROVE  Asked'
  BY <1>12 DEF List, Report, Goto
<1>13. ASSUME NEW t \in Thread, AlreadyRead(t)
      PROVE  Asked'
  BY <1>13 DEF AlreadyRead, Report, Goto
<1>14. ASSUME NEW t \in Thread, MarkRead(t)
      PROVE  Asked'
  BY <1>14 DEF MarkRead, Goto
<1>15. ASSUME NEW t \in Thread, Wake(t)
      PROVE  Asked'
  BY <1>15 DEF Wake, Report, Goto
<1>16. ASSUME NEW k \in acks, SendAck(k)
      PROVE  Asked'
  BY <1>16 DEF SendAck
<1>17. ASSUME NEW a \in Account, NEW s \in {"read", "write", None}, SetScope(a, s),
           changes < MaxChanges, changes' = changes + 1, UNCHANGED acked
      PROVE  Asked'
  BY <1>17 DEF SetScope, Active
<1>18. ASSUME NEW a \in Account, Use(a),
           changes < MaxChanges, changes' = changes + 1, UNCHANGED acked
      PROVE  Asked'
  BY <1>18 DEF Use
<1>19. ASSUME NEW a \in Account, Arrive(a),
           changes < MaxChanges, changes' = changes + 1, UNCHANGED acked
      PROVE  Asked'
  BY <1>19 DEF Arrive
<1>20. ASSUME StopDaemon,
           changes < MaxChanges, changes' = changes + 1, UNCHANGED acked
      PROVE  Asked'
  BY <1>20 DEF StopDaemon
<1>21. ASSUME UNCHANGED vars
      PROVE  Asked'
  BY <1>21 DEF vars
<1> HIDE DEF Asked, Active, TypeOK, Typed, Placed, Thread, CommandLine, Credentials, NoDaemon, Ack, Running, registry, threads, history, Writers
<1> QED
  BY <1>1, <1>2, <1>3, <1>4, <1>5, <1>6, <1>7, <1>8, <1>9, <1>10, <1>11,
     <1>12, <1>13, <1>14, <1>15, <1>16, <1>17, <1>18, <1>19, <1>20, <1>21
     DEF Next, Relay, Work, Environment

-----------------------------------------------------------------------------
LEMMA InitHolds == Init => TypeOK /\ Allowed /\ Asked
<1> SUFFICES ASSUME Init PROVE TypeOK /\ Allowed /\ Asked
  OBVIOUS
<1> USE ConstantsOK DEF Init
<1>1. Typed /\ Placed
  BY DEF Typed, Placed, Running, Thread, NoDaemon, Writers
<1>2. Allowed
  BY DEF Allowed, Honest, NoDaemon
<1>3. Asked
  BY DEF Asked, Active, Running, Thread
<1> QED
  BY <1>1, <1>2, <1>3 DEF TypeOK

\* Type correctness: whatever a thread needs at its place it has found out by
\* then, and the daemon runs only commands that wait for it.
THEOREM TypeCorrect == Spec => []TypeOK
<1>1. Init => TypeOK
  BY InitHolds
<1>2. TypeOK /\ [Next]_vars => TypeOK'
  BY TypedStep, PlacedStep DEF TypeOK
<1> QED
  BY <1>1, <1>2, PTL DEF Spec

\* No account that has never been given the scope write has a message marked as
\* read, with any number of accounts, commands and changes of the registry: a
\* session can write only if its account was given the scope, and no other sends.
THEOREM AckAllowed == Spec => []AckWasAllowed
<1>1. Init => Allowed
  BY InitHolds
<1>2. TypeOK /\ Allowed /\ [Next]_vars => Allowed'
  BY AllowedStep
<1>3. TypeOK /\ Allowed => AckWasAllowed
  <2> SUFFICES ASSUME TypeOK, Allowed, NEW k \in acked PROVE k.session.account \in ever
    BY DEF AckWasAllowed
  <2>1. k.session.write /\ Honest(k.session)
    BY DEF Allowed
  <2>2. k.session \in Credentials /\ k.session # None
    BY ConstantsOK DEF TypeOK, Typed, Ack
  <2> QED
    BY <2>1, <2>2 DEF Honest
<1> QED
  BY <1>1, <1>2, <1>3, TypeCorrect, PTL DEF Spec

\* An acknowledgement goes back to a read that was allowed while it was under
\* way, whichever of the two processes has looked at the scope and when.
THEOREM AckAsked == Spec => []AckWasAsked
<1>1. Init => Asked
  BY InitHolds
<1>2. TypeOK /\ Asked /\ [Next]_vars => Asked'
  BY AskedStep
<1>3. Asked => AckWasAsked
  BY DEF Asked, AckWasAsked
<1> QED
  BY <1>1, <1>2, <1>3, TypeCorrect, PTL DEF Spec

\* No session is opened for a read unless some account could write while it was
\* under way: not by the command itself, nor by a daemon it starts.
THEOREM SessionsOpenedToWrite == Spec => []OpenedToWrite
<1>1. Init => Asked
  BY InitHolds
<1>2. TypeOK /\ Asked /\ [Next]_vars => Asked'
  BY AskedStep
<1>3. Asked => OpenedToWrite
  BY DEF Asked, OpenedToWrite
<1> QED
  BY <1>1, <1>2, <1>3, TypeCorrect, PTL DEF Spec

=============================================================================
