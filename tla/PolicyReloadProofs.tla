------------------------- MODULE PolicyReloadProofs -------------------------
(***************************************************************************)
(* What the mark of PolicyReload means, and that no daemon misses a        *)
(* policy, for any processes and any bounds.                               *)
(***************************************************************************)
EXTENDS PolicyReload, TLAPS

\* cgn-promises does not accept what cannot be loaded.
AcceptedIsGood == accepted => good

\* A process that has not had the policy checked does not say so.
NotYetOk == \A p \in Procs : pc[p] \in {"read", "compare", "validate"} => ~ok[p]

\* What a process has had checked is what is there, or the change is known.
CheckedIsThere ==
    \A p \in Procs :
        /\ ok[p] /\ p \notin changed
        /\ pc[p] \in Writing \/ (pc[p] = "load" /\ p \notin fallen)
        => accepted /\ good

\* What a process believes because of the mark it has read can be loaded.
TrustedIsGood ==
    gaps \cap Worthless = {} =>
        \A p \in Procs :
            /\ p \notin changed
            /\ \/ pc[p] = "compare" /\ mtime <= stamp[p]
               \/ pc[p] = "load" /\ ~ok[p] /\ p \notin fallen
            => good

\* Marks only become newer.
NotedIsPast == "backward" \notin gaps => \A d \in Daemons : last[d] <= mark

\* A daemon that runs another policy has noted no mark since the change.
BehindIsOlder ==
    gaps \cap {"unseen", "backward"} = {} =>
        \A d \in Daemons \ fallen :
            pc[d] = "idle" /\ good /\ runs[d] # version => last[d] < mtime

IInv ==
    /\ TypeOK /\ AcceptedIsGood /\ NotYetOk /\ CheckedIsThere /\ MarkMeansAccepted
    /\ TrustedIsGood /\ SurvivesLoading /\ NotedIsPast /\ BehindIsOlder

\* Every step keeps the types.
LEMMA TypeStep ==
    ASSUME TypeOK, [Next]_vars
    PROVE  TypeOK'
<1>1. CASE UNCHANGED vars
    BY <1>1 DEF vars, policy, locals, daemons, TypeOK, Procs, Writing, Gaps
<1>2. CASE Tick
    BY <1>2 DEF Tick, policy, locals, daemons, TypeOK, Procs, Writing, Gaps
<1>3. CASE SetBack
    BY <1>3 DEF SetBack, policy, locals, daemons, TypeOK, Procs, Writing, Gaps
<1>4. CASE Edit
    <2>1. mtime' \in Nat /\ version' \in Nat
        BY <1>4 DEF Edit, TypeOK
    <2>2. good' \in BOOLEAN /\ accepted' \in BOOLEAN
        BY <1>4 DEF Edit
    <2>3. changed' \subseteq Procs
        BY <1>4 DEF Edit, TypeOK
    <2>4. gaps' \subseteq Gaps
        BY <1>4 DEF Edit, TypeOK, Gaps
    <2>. QED  BY <1>4, <2>1, <2>2, <2>3, <2>4 DEF Edit, daemons, TypeOK
<1>5. ASSUME NEW p \in Procs, Begin(p) PROVE TypeOK'
    BY <1>5 DEF Begin, Forget, Goto, policy, TypeOK, Procs, Writing, Gaps
<1>6. ASSUME NEW p \in Procs, ReadMark(p) PROVE TypeOK'
    BY <1>6 DEF ReadMark, Goto, policy, daemons, TypeOK, Procs, Writing, Gaps
<1>7. ASSUME NEW p \in Procs, Compare(p) PROVE TypeOK'
    BY <1>7 DEF Compare, Goto, policy, locals, daemons, TypeOK, Procs, Writing, Gaps
<1>8. ASSUME NEW p \in Procs, ArePromisesValid(p) PROVE TypeOK'
    BY <1>8 DEF ArePromisesValid, Goto, daemons, TypeOK, Procs, Writing, Gaps
<1>9. ASSUME NEW p \in Procs, Failsafe(p) PROVE TypeOK'
    BY <1>9 DEF Failsafe, Goto, policy, locals, TypeOK, Procs, Writing, Gaps
<1>10. ASSUME NEW p \in Procs, Creat(p) PROVE TypeOK'
    BY <1>10 DEF Creat, Mark, Goto, policy, locals, daemons, TypeOK, Procs, Writing,
       Gaps
<1>11. ASSUME NEW p \in Procs, TakeTime(p) PROVE TypeOK'
    BY <1>11 DEF TakeTime, Goto, policy, daemons, TypeOK, Procs, Writing, Gaps
<1>12. ASSUME NEW p \in Procs, Write(p) PROVE TypeOK'
    BY <1>12 DEF Write, Mark, Marked, Goto, policy, locals, daemons, TypeOK, Procs,
       Writing, Gaps
<1>13. ASSUME NEW p \in Procs, LoadPolicy(p) PROVE TypeOK'
    <2>1. pc' \in [Procs -> {"off", "dead", "read", "compare", "validate", "failsafe", "load",
                             "idle", "revalidate"} \cup Writing]
        BY <1>13 DEF LoadPolicy, Goto, TypeOK
    <2>2. stamp' \in [Procs -> Nat]
        BY <1>13 DEF LoadPolicy, Forget, locals, TypeOK
    <2>3. ok' \in [Procs -> BOOLEAN]
        BY <1>13 DEF LoadPolicy, Forget, locals, TypeOK
    <2>4. changed' \subseteq Procs
        BY <1>13 DEF LoadPolicy, locals, TypeOK
    <2>5. runs' \in [Daemons -> Nat]
        BY <1>13 DEF LoadPolicy, TypeOK
    <2>. QED  BY <1>13, <2>1, <2>2, <2>3, <2>4, <2>5 DEF LoadPolicy, policy, TypeOK
<1>14. ASSUME NEW p \in Procs, MarkFails(p) PROVE TypeOK'
    BY <1>14 DEF MarkFails, Marked, Goto, policy, locals, daemons, TypeOK, Procs,
       Writing, Gaps
<1>15. ASSUME NEW p \in Procs, Stop(p) PROVE TypeOK'
    BY <1>15 DEF Stop, Forget, Goto, policy, TypeOK, Procs, Writing, Gaps
<1>16. ASSUME NEW d \in Daemons, CheckNewPromises(d) PROVE TypeOK'
    BY <1>16 DEF CheckNewPromises, Goto, policy, locals, TypeOK, Procs, Writing,
       Gaps
<1>17. ASSUME NEW d \in Daemons, Revalidate(d) PROVE TypeOK'
    BY <1>17 DEF Revalidate, Goto, daemons, TypeOK, Procs, Writing, Gaps
<1>. QED  BY <1>1, <1>2, <1>3, <1>4, <1>5, <1>6, <1>7, <1>8, <1>9, <1>10, <1>11, <1>12, <1>13,
   <1>14, <1>15, <1>16, <1>17 DEF Next, Check, Daemon

\* Every step keeps what is known of the checks that were made.
LEMMA CheckStep ==
    ASSUME TypeOK, AcceptedIsGood, NotYetOk, CheckedIsThere, [Next]_vars
    PROVE  AcceptedIsGood' /\ NotYetOk' /\ CheckedIsThere'
<1>1. CASE UNCHANGED vars
    BY <1>1 DEF vars, policy, locals, daemons, TypeOK, AcceptedIsGood, NotYetOk,
       CheckedIsThere, Procs, Writing
<1>2. CASE Tick
    BY <1>2 DEF Tick, policy, locals, daemons, TypeOK, AcceptedIsGood, NotYetOk,
       CheckedIsThere, Procs, Writing
<1>3. CASE SetBack
    BY <1>3 DEF SetBack, policy, locals, daemons, TypeOK, AcceptedIsGood, NotYetOk,
       CheckedIsThere, Procs, Writing
<1>4. CASE Edit
    BY <1>4 DEF Edit, TooLate, daemons, TypeOK, AcceptedIsGood, NotYetOk,
       CheckedIsThere, Procs, Writing
<1>5. ASSUME NEW p \in Procs, Begin(p) PROVE AcceptedIsGood' /\ NotYetOk' /\ CheckedIsThere'
    BY <1>5 DEF Begin, Forget, Goto, policy, TypeOK, AcceptedIsGood, NotYetOk,
       CheckedIsThere, Procs, Writing
<1>6. ASSUME NEW p \in Procs, ReadMark(p) PROVE AcceptedIsGood' /\ NotYetOk' /\ CheckedIsThere'
    BY <1>6 DEF ReadMark, Goto, policy, daemons, TypeOK, AcceptedIsGood, NotYetOk,
       CheckedIsThere, Procs, Writing
<1>7. ASSUME NEW p \in Procs, Compare(p) PROVE AcceptedIsGood' /\ NotYetOk' /\ CheckedIsThere'
    BY <1>7 DEF Compare, Goto, policy, locals, daemons, TypeOK, AcceptedIsGood,
       NotYetOk, CheckedIsThere, Procs, Writing
<1>8. ASSUME NEW p \in Procs, ArePromisesValid(p)
      PROVE  AcceptedIsGood' /\ NotYetOk' /\ CheckedIsThere'
    BY <1>8 DEF ArePromisesValid, Goto, daemons, TypeOK, AcceptedIsGood, NotYetOk,
       CheckedIsThere, Procs, Writing
<1>9. ASSUME NEW p \in Procs, Failsafe(p) PROVE AcceptedIsGood' /\ NotYetOk' /\ CheckedIsThere'
    BY <1>9 DEF Failsafe, Goto, policy, locals, TypeOK, AcceptedIsGood, NotYetOk,
       CheckedIsThere, Procs, Writing
<1>10. ASSUME NEW p \in Procs, Creat(p) PROVE AcceptedIsGood' /\ NotYetOk' /\ CheckedIsThere'
    BY <1>10 DEF Creat, Mark, Goto, policy, locals, daemons, TypeOK, AcceptedIsGood,
       NotYetOk, CheckedIsThere, Procs, Writing
<1>11. ASSUME NEW p \in Procs, TakeTime(p)
       PROVE  AcceptedIsGood' /\ NotYetOk' /\ CheckedIsThere'
    BY <1>11 DEF TakeTime, Goto, policy, daemons, TypeOK, AcceptedIsGood, NotYetOk,
       CheckedIsThere, Procs, Writing
<1>12. ASSUME NEW p \in Procs, Write(p) PROVE AcceptedIsGood' /\ NotYetOk' /\ CheckedIsThere'
    BY <1>12 DEF Write, Mark, Marked, Goto, policy, locals, daemons, TypeOK,
       AcceptedIsGood, NotYetOk, CheckedIsThere, Procs, Writing
<1>13. ASSUME NEW p \in Procs, LoadPolicy(p)
       PROVE  AcceptedIsGood' /\ NotYetOk' /\ CheckedIsThere'
    BY <1>13 DEF LoadPolicy, Forget, Goto, policy, locals, TypeOK, AcceptedIsGood,
       NotYetOk, CheckedIsThere, Procs, Writing
<1>14. ASSUME NEW p \in Procs, MarkFails(p)
       PROVE  AcceptedIsGood' /\ NotYetOk' /\ CheckedIsThere'
    BY <1>14 DEF MarkFails, Marked, Goto, policy, locals, daemons, TypeOK,
       AcceptedIsGood, NotYetOk, CheckedIsThere, Procs, Writing
<1>15. ASSUME NEW p \in Procs, Stop(p) PROVE AcceptedIsGood' /\ NotYetOk' /\ CheckedIsThere'
    BY <1>15 DEF Stop, Forget, Goto, policy, TypeOK, AcceptedIsGood, NotYetOk,
       CheckedIsThere, Procs, Writing
<1>16. ASSUME NEW d \in Daemons, CheckNewPromises(d)
       PROVE  AcceptedIsGood' /\ NotYetOk' /\ CheckedIsThere'
    BY <1>16 DEF CheckNewPromises, Goto, policy, locals, TypeOK, AcceptedIsGood,
       NotYetOk, CheckedIsThere, Procs, Writing
<1>17. ASSUME NEW d \in Daemons, Revalidate(d)
       PROVE  AcceptedIsGood' /\ NotYetOk' /\ CheckedIsThere'
    BY <1>17 DEF Revalidate, Goto, daemons, TypeOK, AcceptedIsGood, NotYetOk,
       CheckedIsThere, Procs, Writing
<1>. QED  BY <1>1, <1>2, <1>3, <1>4, <1>5, <1>6, <1>7, <1>8, <1>9, <1>10, <1>11, <1>12, <1>13,
   <1>14, <1>15, <1>16, <1>17 DEF Next, Check, Daemon

\* Every step keeps the meaning of the mark: the process that writes it has had
\* the policy checked that is there, or the gap is recorded.
LEMMA MarkStep ==
    ASSUME TypeOK, CheckedIsThere, MarkMeansAccepted, [Next]_vars
    PROVE  MarkMeansAccepted'
<1>1. CASE UNCHANGED vars
    BY <1>1 DEF vars, policy, locals, daemons, TypeOK, CheckedIsThere,
       MarkMeansAccepted, Worthless, Procs, Writing
<1>2. CASE Tick
    BY <1>2 DEF Tick, policy, locals, daemons, TypeOK, CheckedIsThere,
       MarkMeansAccepted, Worthless, Procs, Writing
<1>3. CASE SetBack
    BY <1>3 DEF SetBack, policy, locals, daemons, TypeOK, CheckedIsThere,
       MarkMeansAccepted, Worthless, Procs, Writing
<1>4. CASE Edit
    BY <1>4 DEF Edit, TooLate, daemons, TypeOK, CheckedIsThere, MarkMeansAccepted,
       Worthless, Procs, Writing
<1>5. ASSUME NEW p \in Procs, Begin(p) PROVE MarkMeansAccepted'
    BY <1>5 DEF Begin, Forget, Goto, policy, TypeOK, CheckedIsThere,
       MarkMeansAccepted, Worthless, Procs, Writing
<1>6. ASSUME NEW p \in Procs, ReadMark(p) PROVE MarkMeansAccepted'
    BY <1>6 DEF ReadMark, Goto, policy, daemons, TypeOK, CheckedIsThere,
       MarkMeansAccepted, Worthless, Procs, Writing
<1>7. ASSUME NEW p \in Procs, Compare(p) PROVE MarkMeansAccepted'
    BY <1>7 DEF Compare, Goto, policy, locals, daemons, TypeOK, CheckedIsThere,
       MarkMeansAccepted, Worthless, Procs, Writing
<1>8. ASSUME NEW p \in Procs, ArePromisesValid(p) PROVE MarkMeansAccepted'
    BY <1>8 DEF ArePromisesValid, Goto, daemons, TypeOK, CheckedIsThere,
       MarkMeansAccepted, Worthless, Procs, Writing
<1>9. ASSUME NEW p \in Procs, Failsafe(p) PROVE MarkMeansAccepted'
    BY <1>9 DEF Failsafe, Goto, policy, locals, TypeOK, CheckedIsThere,
       MarkMeansAccepted, Worthless, Procs, Writing
<1>10. ASSUME NEW p \in Procs, Creat(p) PROVE MarkMeansAccepted'
    BY <1>10 DEF Creat, Mark, Goto, policy, locals, daemons, TypeOK, CheckedIsThere,
       MarkMeansAccepted, Worthless, Procs, Writing
<1>11. ASSUME NEW p \in Procs, TakeTime(p) PROVE MarkMeansAccepted'
    BY <1>11 DEF TakeTime, Goto, policy, daemons, TypeOK, CheckedIsThere,
       MarkMeansAccepted, Worthless, Procs, Writing
<1>12. ASSUME NEW p \in Procs, Write(p) PROVE MarkMeansAccepted'
    BY <1>12 DEF Write, Mark, Marked, Goto, policy, locals, daemons, TypeOK,
       CheckedIsThere, MarkMeansAccepted, Worthless, Procs, Writing
<1>13. ASSUME NEW p \in Procs, LoadPolicy(p) PROVE MarkMeansAccepted'
    BY <1>13 DEF LoadPolicy, Forget, Goto, policy, locals, TypeOK, CheckedIsThere,
       MarkMeansAccepted, Worthless, Procs, Writing
<1>14. ASSUME NEW p \in Procs, MarkFails(p) PROVE MarkMeansAccepted'
    BY <1>14 DEF MarkFails, Marked, Goto, policy, locals, daemons, TypeOK,
       CheckedIsThere, MarkMeansAccepted, Worthless, Procs, Writing
<1>15. ASSUME NEW p \in Procs, Stop(p) PROVE MarkMeansAccepted'
    BY <1>15 DEF Stop, Forget, Goto, policy, TypeOK, CheckedIsThere,
       MarkMeansAccepted, Worthless, Procs, Writing
<1>16. ASSUME NEW d \in Daemons, CheckNewPromises(d) PROVE MarkMeansAccepted'
    BY <1>16 DEF CheckNewPromises, Goto, policy, locals, TypeOK, CheckedIsThere,
       MarkMeansAccepted, Worthless, Procs, Writing
<1>17. ASSUME NEW d \in Daemons, Revalidate(d) PROVE MarkMeansAccepted'
    BY <1>17 DEF Revalidate, Goto, daemons, TypeOK, CheckedIsThere,
       MarkMeansAccepted, Worthless, Procs, Writing
<1>. QED  BY <1>1, <1>2, <1>3, <1>4, <1>5, <1>6, <1>7, <1>8, <1>9, <1>10, <1>11, <1>12, <1>13,
   <1>14, <1>15, <1>16, <1>17 DEF Next, Check, Daemon

\* Every step keeps what is known of a process that loads the policy: it goes by
\* the mark it has read or by the check it has had made.
LEMMA LoadStep ==
    ASSUME TypeOK, AcceptedIsGood, NotYetOk, CheckedIsThere, MarkMeansAccepted,
           TrustedIsGood, SurvivesLoading, [Next]_vars
    PROVE  TrustedIsGood' /\ SurvivesLoading'
<1>1. CASE UNCHANGED vars
    BY <1>1 DEF vars, policy, locals, daemons, TypeOK, AcceptedIsGood, NotYetOk,
       CheckedIsThere, MarkMeansAccepted, TrustedIsGood, SurvivesLoading, Worthless,
       Procs, Writing
<1>2. CASE Tick
    BY <1>2 DEF Tick, policy, locals, daemons, TypeOK, AcceptedIsGood, NotYetOk,
       CheckedIsThere, MarkMeansAccepted, TrustedIsGood, SurvivesLoading, Worthless,
       Procs, Writing
<1>3. CASE SetBack
    BY <1>3 DEF SetBack, policy, locals, daemons, TypeOK, AcceptedIsGood, NotYetOk,
       CheckedIsThere, MarkMeansAccepted, TrustedIsGood, SurvivesLoading, Worthless,
       Procs, Writing
<1>4. CASE Edit
    BY <1>4 DEF Edit, TooLate, daemons, TypeOK, AcceptedIsGood, NotYetOk,
       CheckedIsThere, MarkMeansAccepted, TrustedIsGood, SurvivesLoading, Worthless,
       Procs, Writing
<1>5. ASSUME NEW p \in Procs, Begin(p) PROVE TrustedIsGood' /\ SurvivesLoading'
    BY <1>5 DEF Begin, Forget, Goto, policy, TypeOK, AcceptedIsGood, NotYetOk,
       CheckedIsThere, MarkMeansAccepted, TrustedIsGood, SurvivesLoading, Worthless,
       Procs, Writing
<1>6. ASSUME NEW p \in Procs, ReadMark(p) PROVE TrustedIsGood' /\ SurvivesLoading'
    BY <1>6 DEF ReadMark, Goto, policy, daemons, TypeOK, AcceptedIsGood, NotYetOk,
       CheckedIsThere, MarkMeansAccepted, TrustedIsGood, SurvivesLoading, Worthless,
       Procs, Writing
<1>7. ASSUME NEW p \in Procs, Compare(p) PROVE TrustedIsGood' /\ SurvivesLoading'
    BY <1>7 DEF Compare, Goto, policy, locals, daemons, TypeOK, AcceptedIsGood,
       NotYetOk, CheckedIsThere, MarkMeansAccepted, TrustedIsGood, SurvivesLoading,
       Worthless, Procs, Writing
<1>8. ASSUME NEW p \in Procs, ArePromisesValid(p) PROVE TrustedIsGood' /\ SurvivesLoading'
    BY <1>8 DEF ArePromisesValid, Goto, daemons, TypeOK, AcceptedIsGood, NotYetOk,
       CheckedIsThere, MarkMeansAccepted, TrustedIsGood, SurvivesLoading, Worthless,
       Procs, Writing
<1>9. ASSUME NEW p \in Procs, Failsafe(p) PROVE TrustedIsGood' /\ SurvivesLoading'
    BY <1>9 DEF Failsafe, Goto, policy, locals, TypeOK, AcceptedIsGood, NotYetOk,
       CheckedIsThere, MarkMeansAccepted, TrustedIsGood, SurvivesLoading, Worthless,
       Procs, Writing
<1>10. ASSUME NEW p \in Procs, Creat(p) PROVE TrustedIsGood' /\ SurvivesLoading'
    BY <1>10 DEF Creat, Mark, Goto, policy, locals, daemons, TypeOK, AcceptedIsGood,
       NotYetOk, CheckedIsThere, MarkMeansAccepted, TrustedIsGood, SurvivesLoading,
       Worthless, Procs, Writing
<1>11. ASSUME NEW p \in Procs, TakeTime(p) PROVE TrustedIsGood' /\ SurvivesLoading'
    BY <1>11 DEF TakeTime, Goto, policy, daemons, TypeOK, AcceptedIsGood, NotYetOk,
       CheckedIsThere, MarkMeansAccepted, TrustedIsGood, SurvivesLoading, Worthless,
       Procs, Writing
<1>12. ASSUME NEW p \in Procs, Write(p) PROVE TrustedIsGood' /\ SurvivesLoading'
    BY <1>12 DEF Write, Mark, Marked, Goto, policy, locals, daemons, TypeOK,
       AcceptedIsGood, NotYetOk, CheckedIsThere, MarkMeansAccepted, TrustedIsGood,
       SurvivesLoading, Worthless, Procs, Writing
<1>13. ASSUME NEW p \in Procs, LoadPolicy(p) PROVE TrustedIsGood' /\ SurvivesLoading'
    BY <1>13 DEF LoadPolicy, Forget, Goto, policy, locals, TypeOK, AcceptedIsGood,
       NotYetOk, CheckedIsThere, MarkMeansAccepted, TrustedIsGood, SurvivesLoading,
       Worthless, Procs, Writing
<1>14. ASSUME NEW p \in Procs, MarkFails(p) PROVE TrustedIsGood' /\ SurvivesLoading'
    BY <1>14 DEF MarkFails, Marked, Goto, policy, locals, daemons, TypeOK,
       AcceptedIsGood, NotYetOk, CheckedIsThere, MarkMeansAccepted, TrustedIsGood,
       SurvivesLoading, Worthless, Procs, Writing
<1>15. ASSUME NEW p \in Procs, Stop(p) PROVE TrustedIsGood' /\ SurvivesLoading'
    BY <1>15 DEF Stop, Forget, Goto, policy, TypeOK, AcceptedIsGood, NotYetOk,
       CheckedIsThere, MarkMeansAccepted, TrustedIsGood, SurvivesLoading, Worthless,
       Procs, Writing
<1>16. ASSUME NEW d \in Daemons, CheckNewPromises(d) PROVE TrustedIsGood' /\ SurvivesLoading'
    BY <1>16 DEF CheckNewPromises, Goto, policy, locals, TypeOK, AcceptedIsGood,
       NotYetOk, CheckedIsThere, MarkMeansAccepted, TrustedIsGood, SurvivesLoading,
       Worthless, Procs, Writing
<1>17. ASSUME NEW d \in Daemons, Revalidate(d) PROVE TrustedIsGood' /\ SurvivesLoading'
    BY <1>17 DEF Revalidate, Goto, daemons, TypeOK, AcceptedIsGood, NotYetOk,
       CheckedIsThere, MarkMeansAccepted, TrustedIsGood, SurvivesLoading, Worthless,
       Procs, Writing
<1>. QED  BY <1>1, <1>2, <1>3, <1>4, <1>5, <1>6, <1>7, <1>8, <1>9, <1>10, <1>11, <1>12, <1>13,
   <1>14, <1>15, <1>16, <1>17 DEF Next, Check, Daemon

\* Every step keeps it that a daemon has not noted a mark that is still to come.
LEMMA NotedStep ==
    ASSUME TypeOK, NotedIsPast, [Next]_vars
    PROVE  NotedIsPast'
<1>1. CASE UNCHANGED vars
    BY <1>1 DEF vars, policy, locals, daemons, TypeOK, NotedIsPast, Procs
<1>2. CASE Tick
    BY <1>2 DEF Tick, policy, locals, daemons, TypeOK, NotedIsPast, Procs
<1>3. CASE SetBack
    BY <1>3 DEF SetBack, policy, locals, daemons, TypeOK, NotedIsPast, Procs
<1>4. CASE Edit
    BY <1>4 DEF Edit, TooLate, daemons, TypeOK, NotedIsPast, Procs
<1>5. ASSUME NEW p \in Procs, Begin(p) PROVE NotedIsPast'
    BY <1>5 DEF Begin, Forget, Goto, policy, TypeOK, NotedIsPast, Procs
<1>6. ASSUME NEW p \in Procs, ReadMark(p) PROVE NotedIsPast'
    BY <1>6 DEF ReadMark, Goto, policy, daemons, TypeOK, NotedIsPast, Procs
<1>7. ASSUME NEW p \in Procs, Compare(p) PROVE NotedIsPast'
    BY <1>7 DEF Compare, Goto, policy, locals, daemons, TypeOK, NotedIsPast, Procs
<1>8. ASSUME NEW p \in Procs, ArePromisesValid(p) PROVE NotedIsPast'
    BY <1>8 DEF ArePromisesValid, Goto, daemons, TypeOK, NotedIsPast, Procs
<1>9. ASSUME NEW p \in Procs, Failsafe(p) PROVE NotedIsPast'
    BY <1>9 DEF Failsafe, Goto, policy, locals, TypeOK, NotedIsPast, Procs
<1>10. ASSUME NEW p \in Procs, Creat(p) PROVE NotedIsPast'
    BY <1>10 DEF Creat, Mark, Goto, policy, locals, daemons, TypeOK, NotedIsPast,
       Procs
<1>11. ASSUME NEW p \in Procs, TakeTime(p) PROVE NotedIsPast'
    BY <1>11 DEF TakeTime, Goto, policy, daemons, TypeOK, NotedIsPast, Procs
<1>12. ASSUME NEW p \in Procs, Write(p) PROVE NotedIsPast'
    BY <1>12 DEF Write, Mark, Marked, Goto, policy, locals, daemons, TypeOK,
       NotedIsPast, Procs
<1>13. ASSUME NEW p \in Procs, LoadPolicy(p) PROVE NotedIsPast'
    BY <1>13 DEF LoadPolicy, Forget, Goto, policy, locals, TypeOK, NotedIsPast,
       Procs
<1>14. ASSUME NEW p \in Procs, MarkFails(p) PROVE NotedIsPast'
    BY <1>14 DEF MarkFails, Marked, Goto, policy, locals, daemons, TypeOK,
       NotedIsPast, Procs
<1>15. ASSUME NEW p \in Procs, Stop(p) PROVE NotedIsPast'
    BY <1>15 DEF Stop, Forget, Goto, policy, TypeOK, NotedIsPast, Procs
<1>16. ASSUME NEW d \in Daemons, CheckNewPromises(d) PROVE NotedIsPast'
    BY <1>16 DEF CheckNewPromises, Goto, policy, locals, TypeOK, NotedIsPast, Procs
<1>17. ASSUME NEW d \in Daemons, Revalidate(d) PROVE NotedIsPast'
    BY <1>17 DEF Revalidate, Goto, daemons, TypeOK, NotedIsPast, Procs
<1>. QED  BY <1>1, <1>2, <1>3, <1>4, <1>5, <1>6, <1>7, <1>8, <1>9, <1>10, <1>11, <1>12, <1>13,
   <1>14, <1>15, <1>16, <1>17 DEF Next, Check, Daemon

\* Every step keeps it that a daemon with another policy is behind the change.
LEMMA BehindStep ==
    ASSUME TypeOK, NotedIsPast, BehindIsOlder, [Next]_vars
    PROVE  BehindIsOlder'
<1>1. CASE UNCHANGED vars
    BY <1>1 DEF vars, policy, locals, daemons, TypeOK, NotedIsPast, BehindIsOlder,
       Procs
<1>2. CASE Tick
    BY <1>2 DEF Tick, policy, locals, daemons, TypeOK, NotedIsPast, BehindIsOlder,
       Procs
<1>3. CASE SetBack
    BY <1>3 DEF SetBack, policy, locals, daemons, TypeOK, NotedIsPast,
       BehindIsOlder, Procs
<1>4. CASE Edit
    BY <1>4 DEF Edit, TooLate, daemons, TypeOK, NotedIsPast, BehindIsOlder, Procs
<1>5. ASSUME NEW p \in Procs, Begin(p) PROVE BehindIsOlder'
    BY <1>5 DEF Begin, Forget, Goto, policy, TypeOK, NotedIsPast, BehindIsOlder,
       Procs
<1>6. ASSUME NEW p \in Procs, ReadMark(p) PROVE BehindIsOlder'
    BY <1>6 DEF ReadMark, Goto, policy, daemons, TypeOK, NotedIsPast, BehindIsOlder,
       Procs
<1>7. ASSUME NEW p \in Procs, Compare(p) PROVE BehindIsOlder'
    BY <1>7 DEF Compare, Goto, policy, locals, daemons, TypeOK, NotedIsPast,
       BehindIsOlder, Procs
<1>8. ASSUME NEW p \in Procs, ArePromisesValid(p) PROVE BehindIsOlder'
    BY <1>8 DEF ArePromisesValid, Goto, daemons, TypeOK, NotedIsPast, BehindIsOlder,
       Procs
<1>9. ASSUME NEW p \in Procs, Failsafe(p) PROVE BehindIsOlder'
    BY <1>9 DEF Failsafe, Goto, policy, locals, TypeOK, NotedIsPast, BehindIsOlder,
       Procs
<1>10. ASSUME NEW p \in Procs, Creat(p) PROVE BehindIsOlder'
    BY <1>10 DEF Creat, Mark, Goto, policy, locals, daemons, TypeOK, NotedIsPast,
       BehindIsOlder, Procs
<1>11. ASSUME NEW p \in Procs, TakeTime(p) PROVE BehindIsOlder'
    BY <1>11 DEF TakeTime, Goto, policy, daemons, TypeOK, NotedIsPast,
       BehindIsOlder, Procs
<1>12. ASSUME NEW p \in Procs, Write(p) PROVE BehindIsOlder'
    BY <1>12 DEF Write, Mark, Marked, Goto, policy, locals, daemons, TypeOK,
       NotedIsPast, BehindIsOlder, Procs
<1>13. ASSUME NEW p \in Procs, LoadPolicy(p) PROVE BehindIsOlder'
    BY <1>13 DEF LoadPolicy, Forget, Goto, policy, locals, TypeOK, NotedIsPast,
       BehindIsOlder, Procs
<1>14. ASSUME NEW p \in Procs, MarkFails(p) PROVE BehindIsOlder'
    BY <1>14 DEF MarkFails, Marked, Goto, policy, locals, daemons, TypeOK,
       NotedIsPast, BehindIsOlder, Procs
<1>15. ASSUME NEW p \in Procs, Stop(p) PROVE BehindIsOlder'
    BY <1>15 DEF Stop, Forget, Goto, policy, TypeOK, NotedIsPast, BehindIsOlder,
       Procs
<1>16. ASSUME NEW d \in Daemons, CheckNewPromises(d) PROVE BehindIsOlder'
    BY <1>16 DEF CheckNewPromises, Goto, policy, locals, TypeOK, NotedIsPast,
       BehindIsOlder, Procs
<1>17. ASSUME NEW d \in Daemons, Revalidate(d) PROVE BehindIsOlder'
    BY <1>17 DEF Revalidate, Goto, daemons, TypeOK, NotedIsPast, BehindIsOlder,
       Procs
<1>. QED  BY <1>1, <1>2, <1>3, <1>4, <1>5, <1>6, <1>7, <1>8, <1>9, <1>10, <1>11, <1>12, <1>13,
   <1>14, <1>15, <1>16, <1>17 DEF Next, Check, Daemon

\* The invariant holds initially and of every step.
LEMMA Inductive == Spec => []IInv
<1>1. ASSUME Init PROVE IInv
    <2>1. TypeOK
        BY <1>1 DEF Init, TypeOK, Procs, Gaps
    <2>2. AcceptedIsGood /\ NotYetOk /\ CheckedIsThere /\ MarkMeansAccepted
        BY <1>1 DEF Init, AcceptedIsGood, NotYetOk, CheckedIsThere, MarkMeansAccepted
    <2>3. TrustedIsGood /\ SurvivesLoading /\ NotedIsPast /\ BehindIsOlder
        BY <1>1, <2>1
        DEF Init, TypeOK, TrustedIsGood, SurvivesLoading, NotedIsPast, BehindIsOlder, Procs
    <2>. QED  BY <2>1, <2>2, <2>3 DEF IInv
<1>2. IInv /\ [Next]_vars => IInv'
    BY TypeStep, CheckStep, MarkStep, LoadStep, NotedStep, BehindStep DEF IInv
<1>. QED  BY <1>1, <1>2, PTL DEF Spec

\* The variables of PolicyReload have their types.
THEOREM TypeCorrect == Spec => []TypeOK
<1>1. IInv => TypeOK
    BY DEF IInv
<1>. QED  BY <1>1, Inductive, PTL

\* "Policy is already validated" is true (GenericAgentCheckPolicy): without one of
\* the three gaps a policy with no change newer than the mark has been accepted by
\* cgn-promises.
THEOREM MarkIsTrue == Spec => []MarkMeansAccepted
<1>1. IInv => MarkMeansAccepted
    BY DEF IInv
<1>. QED  BY <1>1, Inductive, PTL

\* LoadPolicy ends a process only if the policy changed after the process had
\* judged it, or if it trusted a mark that one of the three gaps made worthless.
THEOREM LoadingSurvived == Spec => []SurvivesLoading
<1>1. IInv => SurvivesLoading
    BY DEF IInv
<1>. QED  BY <1>1, Inductive, PTL

\* A daemon that does not see a newer mark (CheckFileChanges, CheckNewPromises) has
\* loaded the policy that is there, if marks cover it and it is good: no change is
\* lost between noting a mark and loading the policy.
THEOREM NothingMissed == Spec => []NoMissedUpdate
<1>1. IInv => NoMissedUpdate
    BY DEF IInv, TypeOK, BehindIsOlder, NoMissedUpdate, Procs
<1>. QED  BY <1>1, Inductive, PTL
=============================================================================
