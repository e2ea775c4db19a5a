--------------------------- MODULE MCDjgThreads ---------------------------
(* DjgThreads for TLC: what the tasks of each run do.                      *)
EXTENDS DjgThreads

\* Main keeps one task running while it joins another and creates a third in
\* the slot that became free.  No task ends before main has created those
\* that are created beside it, as the barrier of barriertest.c ensures.  The
\* first task stores twice under one key, the second under three keys, and the
\* third reads under a key that only its slot's last thread has stored under.
ForkJoinPlan ==
    [k \in Tasks |->
        CASE k = 0 -> << KeyCreate(1), KeyCreate(2), KeyCreate(3),
                         Create(1), Create(2), Join(1), Create(3), Join(2), Join(3) >>
          [] k = 1 -> << SetSpecific(1), SetSpecific(2), SetSpecific(1), GetSpecific(1), Await(0, 5) >>
          [] k = 2 -> << SetSpecific(2), SetSpecific(1), SetSpecific(3), Await(0, 7), GetSpecific(2) >>
          [] OTHER -> << GetSpecific(1) >>]

\* Two tasks created together and then joined, with nothing to hold them back.
FreeRunningPlan ==
    [k \in Tasks |->
        IF k = 0 THEN << Create(1), Create(2), Join(1), Join(2) >> ELSE << >>]

\* The first task is joined before the second is created.
OneByOnePlan ==
    [k \in Tasks |->
        IF k = 0 THEN << Create(1), Join(1), Create(2), Join(2) >> ELSE << >>]

\* The first program obeys every rule that the theorems assume; the other two
\* let a task end, by itself or with djgthread_exit, while main creates another.
ASSUME ForkJoinIsSafe ==
    Plan = ForkJoinPlan => OneCreator /\ OneKeyMaker /\ KeysComeFirst /\ JoinsAreSafe
ASSUME OthersAreNot ==
    Plan \in {FreeRunningPlan, OneByOnePlan} =>
        OneCreator /\ OneKeyMaker /\ KeysComeFirst /\ ~JoinsAreSafe
=============================================================================
