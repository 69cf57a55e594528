-------------------------- MODULE DataplaneProofs --------------------------
(***************************************************************************)
(* Proofs about Dataplane, for every set of configurations, every set of   *)
(* accepted ones, both modes, any queue bound and any set of faults.       *)
(***************************************************************************)
EXTENDS Dataplane, TLAPS

Publishing == {"publish"} \cup AfterPublish \cup RollingBack
Restored == {"rbreload", "rbstop", "rbrestart", "rbstart", "rbwait"}

(* TypeOK in three parts, which one step disturbs separately.              *)
ConfigsTyped ==
    /\ desired \in Configs
    /\ active \in Configs \cup {None}
    /\ previous \in Configs \cup {None}
    /\ dpCfg \in Configs \cup {None}
    /\ last \in Configs \cup {None}
    /\ target \in Configs \cup {None}

FlagsTyped ==
    /\ external \in BOOLEAN /\ dpUp \in BOOLEAN /\ late \in BOOLEAN
    /\ proc \in BOOLEAN /\ running \in BOOLEAN /\ hadOld \in BOOLEAN
    /\ ctxDone \in BOOLEAN /\ clean \in BOOLEAN

ControlTyped ==
    /\ waiting \in 0..MaxWaiting
    /\ state \in {"idle", "running", "failed"}
    /\ pc \in Steps
    /\ outcome \in {"none", "applied", "noop", "refused", "restored", "withdrawn", "stuck"}

(* The inductive invariant.  FilesValid is OnlyValidated with the content  *)
(* of the transaction; Agreement follows what lastCompiled stands for      *)
(* through the steps of Apply; Freshness follows the newest edit.          *)
FilesValid ==
    /\ OnlyValidated
    /\ pc \in {"preserve"} \cup Publishing => target \in Valid

Agreement ==
    /\ pc \in Quiet \cup BeforePublish /\ clean /\ Known =>
            active = last /\ (dpUp => dpCfg = last)
    /\ pc \in Publishing /\ clean /\ Known => hadOld /\ previous = last
    /\ pc = "publish" => hadOld = (active # None)
    /\ pc \in Publishing /\ hadOld => previous # None
    /\ pc = "publish" /\ hadOld => previous = active
    /\ pc \in AfterPublish => active = target
    /\ pc \in {"waitready", "waitstart", "rbwait"} => (dpUp => dpCfg = active)
    /\ pc \in Restored => hadOld /\ active = previous
    /\ pc \notin Publishing => ~hadOld
    /\ pc = "idlestop" => ~external /\ target = Empty
    /\ pc \in {"validate", "preserve"} \cup Publishing => external \/ target # Empty

Freshness ==
    /\ waiting = 0 /\ pc \in {"idlestop", "validate", "preserve", "publish"} \cup AfterPublish =>
            target = desired
    /\ NoLostEdit

IInv == TypeOK /\ FilesValid /\ Agreement /\ FailedApplyRestores /\ Freshness

\* No step of Apply, of its callers or of the environment stores anything but a
\* configuration or None in the files, in Mihomo or in the manager.
LEMMA ConfigsStep == ConfigsTyped /\ [Next]_vars => ConfigsTyped'
<1> SUFFICES ASSUME ConfigsTyped, [Next]_vars PROVE ConfigsTyped'
  OBVIOUS
<1> USE ConfigsAssumption DEF ConfigsTyped, database, files, plane, memory, apply
<1>1. CASE CompileFails
  BY <1>1 DEF CompileFails, Fail, Return
<1>2. CASE CompileUnchanged
  BY <1>2 DEF CompileUnchanged, Return
<1>3. CASE CompileChanged
  BY <1>3 DEF CompileChanged, Goto
<1>4. CASE IdleStop
  BY <1>4 DEF IdleStop, Return
<1>5. CASE IdleStopCancelled
  BY <1>5 DEF IdleStopCancelled, Fail, Return
<1>6. CASE ValidateFails
  BY <1>6 DEF ValidateFails, Fail, Return
<1>7. CASE ValidatePasses
  BY <1>7 DEF ValidatePasses, Goto
<1>8. CASE PreserveFails
  BY <1>8 DEF PreserveFails, Fail, Return
<1>9. CASE Preserve
  BY <1>9 DEF Preserve, Goto
<1>10. CASE PublishFails
  BY <1>10 DEF PublishFails, Fail, Return
<1>11. CASE PublishUnsynced
  BY <1>11 DEF PublishUnsynced, Fail, Return
<1>12. CASE Publish
  BY <1>12 DEF Publish, Goto
<1>13. CASE Reload
  BY <1>13 DEF Reload, ReloadAnswered, Goto
<1>14. CASE ReloadRejected
  BY <1>14 DEF ReloadRejected, ReloadFailed, Goto
<1>15. CASE Ready
  BY <1>15 DEF Ready, Succeed, Return
<1>16. CASE NotReady
  BY <1>16 DEF NotReady, RefreshProcess, Goto
<1>17. CASE Start
  BY <1>17 DEF Start, Goto
<1>18. CASE StartFails
  BY <1>18 DEF StartFails, Goto
<1>19. CASE StartedNotReady
  BY <1>19 DEF StartedNotReady, Goto
<1>20. CASE RollbackConfig
  BY <1>20 DEF RollbackConfig, Goto, Fail, Return
<1>21. CASE RollbackConfigFails
  BY <1>21 DEF RollbackConfigFails, Fail, Return
<1>22. CASE RollbackReload
  BY <1>22 DEF RollbackReload, ReloadAnswered, Goto
<1>23. CASE RollbackReloadRejected
  BY <1>23 DEF RollbackReloadRejected, ReloadFailed, Goto, Fail, Return
<1>24. CASE RollbackStop
  BY <1>24 DEF RollbackStop, Goto
<1>25. CASE RollbackStopCancelled
  BY <1>25 DEF RollbackStopCancelled, Fail, Return
<1>26. CASE RollbackStart
  BY <1>26 DEF RollbackStart, Goto, Fail, Return
<1>26a. CASE RollbackRestart
  BY <1>26a DEF RollbackRestart, Goto
<1>27. CASE RollbackStartFails
  BY <1>27 DEF RollbackStartFails, Fail, Return
<1>28. CASE RollbackReady
  BY <1>28 DEF RollbackReady, Fail, Return
<1>29. CASE RollbackNotReady
  BY <1>29 DEF RollbackNotReady, Fail, Return
<1>30. CASE Lock
  BY <1>30 DEF Lock, RefreshProcess, Goto
<1>31. CASE Edit
  BY <1>31 DEF Edit
<1>32. CASE Cancel
  BY <1>32 DEF Cancel
<1>33. CASE Status
  BY <1>33 DEF Status, RefreshProcess
<1>34. CASE LateReload
  BY <1>34 DEF LateReload
<1>35. CASE PlaneCrash
  BY <1>35 DEF PlaneCrash
<1>36. CASE PlaneRestart
  BY <1>36 DEF PlaneRestart
<1>37. CASE ControlStart
  BY <1>37 DEF ControlStart, Goto
<1>38. CASE Crash
  BY <1>38 DEF Crash, Halt
<1>39. CASE Shutdown
  BY <1>39 DEF Shutdown, Halt
<1>40. CASE UNCHANGED vars
  BY <1>40 DEF vars
<1>41. QED
  BY <1>1, <1>2, <1>3, <1>4, <1>5, <1>6, <1>7, <1>8, <1>9, <1>10, <1>11, <1>12, <1>13, <1>14,
       <1>15, <1>16, <1>17, <1>18, <1>19, <1>20, <1>21, <1>22, <1>23, <1>24, <1>25, <1>26, <1>26a,
       <1>27, <1>28, <1>29, <1>30, <1>31, <1>32, <1>33, <1>34, <1>35, <1>36, <1>37, <1>38, <1>39, <1>40
       DEF Next, ApplyStep, Environment

\* The flags of the manager, of Mihomo and of the transaction stay Boolean.
LEMMA FlagsStep == FlagsTyped /\ [Next]_vars => FlagsTyped'
<1> SUFFICES ASSUME FlagsTyped, [Next]_vars PROVE FlagsTyped'
  OBVIOUS
<1> USE DEF FlagsTyped, database, files, plane, memory, apply
<1>1. CASE CompileFails
  BY <1>1 DEF CompileFails, Fail, Return
<1>2. CASE CompileUnchanged
  BY <1>2 DEF CompileUnchanged, Return
<1>3. CASE CompileChanged
  BY <1>3 DEF CompileChanged, Goto
<1>4. CASE IdleStop
  BY <1>4 DEF IdleStop, Return
<1>5. CASE IdleStopCancelled
  BY <1>5 DEF IdleStopCancelled, Fail, Return
<1>6. CASE ValidateFails
  BY <1>6 DEF ValidateFails, Fail, Return
<1>7. CASE ValidatePasses
  BY <1>7 DEF ValidatePasses, Goto
<1>8. CASE PreserveFails
  BY <1>8 DEF PreserveFails, Fail, Return
<1>9. CASE Preserve
  BY <1>9 DEF Preserve, Goto
<1>10. CASE PublishFails
  BY <1>10 DEF PublishFails, Fail, Return
<1>11. CASE PublishUnsynced
  BY <1>11 DEF PublishUnsynced, Fail, Return
<1>12. CASE Publish
  BY <1>12 DEF Publish, Goto
<1>13. CASE Reload
  BY <1>13 DEF Reload, ReloadAnswered, Goto
<1>14. CASE ReloadRejected
  BY <1>14 DEF ReloadRejected, ReloadFailed, Goto
<1>15. CASE Ready
  BY <1>15 DEF Ready, Succeed, Return
<1>16. CASE NotReady
  BY <1>16 DEF NotReady, RefreshProcess, Goto
<1>17. CASE Start
  BY <1>17 DEF Start, Goto
<1>18. CASE StartFails
  BY <1>18 DEF StartFails, Goto
<1>19. CASE StartedNotReady
  BY <1>19 DEF StartedNotReady, Goto
<1>20. CASE RollbackConfig
  BY <1>20 DEF RollbackConfig, Goto, Fail, Return
<1>21. CASE RollbackConfigFails
  BY <1>21 DEF RollbackConfigFails, Fail, Return
<1>22. CASE RollbackReload
  BY <1>22 DEF RollbackReload, ReloadAnswered, Goto
<1>23. CASE RollbackReloadRejected
  BY <1>23 DEF RollbackReloadRejected, ReloadFailed, Goto, Fail, Return
<1>24. CASE RollbackStop
  BY <1>24 DEF RollbackStop, Goto
<1>25. CASE RollbackStopCancelled
  BY <1>25 DEF RollbackStopCancelled, Fail, Return
<1>26. CASE RollbackStart
  BY <1>26 DEF RollbackStart, Goto, Fail, Return
<1>26a. CASE RollbackRestart
  BY <1>26a DEF RollbackRestart, Goto
<1>27. CASE RollbackStartFails
  BY <1>27 DEF RollbackStartFails, Fail, Return
<1>28. CASE RollbackReady
  BY <1>28 DEF RollbackReady, Fail, Return
<1>29. CASE RollbackNotReady
  BY <1>29 DEF RollbackNotReady, Fail, Return
<1>30. CASE Lock
  BY <1>30 DEF Lock, RefreshProcess, Goto
<1>31. CASE Edit
  BY <1>31 DEF Edit
<1>32. CASE Cancel
  BY <1>32 DEF Cancel
<1>33. CASE Status
  BY <1>33 DEF Status, RefreshProcess
<1>34. CASE LateReload
  BY <1>34 DEF LateReload
<1>35. CASE PlaneCrash
  BY <1>35 DEF PlaneCrash
<1>36. CASE PlaneRestart
  BY <1>36 DEF PlaneRestart
<1>37. CASE ControlStart
  BY <1>37 DEF ControlStart, Goto
<1>38. CASE Crash
  BY <1>38 DEF Crash, Halt
<1>39. CASE Shutdown
  BY <1>39 DEF Shutdown, Halt
<1>40. CASE UNCHANGED vars
  BY <1>40 DEF vars
<1>41. QED
  BY <1>1, <1>2, <1>3, <1>4, <1>5, <1>6, <1>7, <1>8, <1>9, <1>10, <1>11, <1>12, <1>13, <1>14,
       <1>15, <1>16, <1>17, <1>18, <1>19, <1>20, <1>21, <1>22, <1>23, <1>24, <1>25, <1>26, <1>26a,
       <1>27, <1>28, <1>29, <1>30, <1>31, <1>32, <1>33, <1>34, <1>35, <1>36, <1>37, <1>38, <1>39, <1>40
       DEF Next, ApplyStep, Environment

\* The queue respects its bound and control stays among the steps of Apply.
LEMMA ControlStep == ControlTyped /\ [Next]_vars => ControlTyped'
<1> SUFFICES ASSUME ControlTyped, [Next]_vars PROVE ControlTyped'
  OBVIOUS
<1> USE BoundsAssumption DEF ControlTyped, Steps, Quiet, BeforePublish, AfterPublish, RollingBack,
         database, files, plane, memory, apply
<1>1. CASE CompileFails
  BY <1>1 DEF CompileFails, Fail, Return
<1>2. CASE CompileUnchanged
  BY <1>2 DEF CompileUnchanged, Return
<1>3. CASE CompileChanged
  BY <1>3 DEF CompileChanged, Goto
<1>4. CASE IdleStop
  BY <1>4 DEF IdleStop, Return
<1>5. CASE IdleStopCancelled
  BY <1>5 DEF IdleStopCancelled, Fail, Return
<1>6. CASE ValidateFails
  BY <1>6 DEF ValidateFails, Fail, Return
<1>7. CASE ValidatePasses
  BY <1>7 DEF ValidatePasses, Goto
<1>8. CASE PreserveFails
  BY <1>8 DEF PreserveFails, Fail, Return
<1>9. CASE Preserve
  BY <1>9 DEF Preserve, Goto
<1>10. CASE PublishFails
  BY <1>10 DEF PublishFails, Fail, Return
<1>11. CASE PublishUnsynced
  BY <1>11 DEF PublishUnsynced, Fail, Return
<1>12. CASE Publish
  BY <1>12 DEF Publish, Goto
<1>13. CASE Reload
  BY <1>13 DEF Reload, ReloadAnswered, Goto
<1>14. CASE ReloadRejected
  BY <1>14 DEF ReloadRejected, ReloadFailed, Goto
<1>15. CASE Ready
  BY <1>15 DEF Ready, Succeed, Return
<1>16. CASE NotReady
  BY <1>16 DEF NotReady, RefreshProcess, Goto
<1>17. CASE Start
  BY <1>17 DEF Start, Goto
<1>18. CASE StartFails
  BY <1>18 DEF StartFails, Goto
<1>19. CASE StartedNotReady
  BY <1>19 DEF StartedNotReady, Goto
<1>20. CASE RollbackConfig
  BY <1>20 DEF RollbackConfig, Goto, Fail, Return
<1>21. CASE RollbackConfigFails
  BY <1>21 DEF RollbackConfigFails, Fail, Return
<1>22. CASE RollbackReload
  BY <1>22 DEF RollbackReload, ReloadAnswered, Goto
<1>23. CASE RollbackReloadRejected
  BY <1>23 DEF RollbackReloadRejected, ReloadFailed, Goto, Fail, Return
<1>24. CASE RollbackStop
  BY <1>24 DEF RollbackStop, Goto
<1>25. CASE RollbackStopCancelled
  BY <1>25 DEF RollbackStopCancelled, Fail, Return
<1>26. CASE RollbackStart
  BY <1>26 DEF RollbackStart, Goto, Fail, Return
<1>26a. CASE RollbackRestart
  BY <1>26a DEF RollbackRestart, Goto
<1>27. CASE RollbackStartFails
  BY <1>27 DEF RollbackStartFails, Fail, Return
<1>28. CASE RollbackReady
  BY <1>28 DEF RollbackReady, Fail, Return
<1>29. CASE RollbackNotReady
  BY <1>29 DEF RollbackNotReady, Fail, Return
<1>30. CASE Lock
  BY <1>30 DEF Lock, RefreshProcess, Goto
<1>31. CASE Edit
  BY <1>31 DEF Edit
<1>32. CASE Cancel
  BY <1>32 DEF Cancel
<1>33. CASE Status
  BY <1>33 DEF Status, RefreshProcess
<1>34. CASE LateReload
  BY <1>34 DEF LateReload
<1>35. CASE PlaneCrash
  BY <1>35 DEF PlaneCrash
<1>36. CASE PlaneRestart
  BY <1>36 DEF PlaneRestart
<1>37. CASE ControlStart
  BY <1>37 DEF ControlStart, Goto
<1>38. CASE Crash
  BY <1>38 DEF Crash, Halt
<1>39. CASE Shutdown
  BY <1>39 DEF Shutdown, Halt
<1>40. CASE UNCHANGED vars
  BY <1>40 DEF vars
<1>41. QED
  BY <1>1, <1>2, <1>3, <1>4, <1>5, <1>6, <1>7, <1>8, <1>9, <1>10, <1>11, <1>12, <1>13, <1>14,
       <1>15, <1>16, <1>17, <1>18, <1>19, <1>20, <1>21, <1>22, <1>23, <1>24, <1>25, <1>26, <1>26a,
       <1>27, <1>28, <1>29, <1>30, <1>31, <1>32, <1>33, <1>34, <1>35, <1>36, <1>37, <1>38, <1>39, <1>40
       DEF Next, ApplyStep, Environment

\* The three parts make up TypeOK.
LEMMA TypeParts == TypeOK <=> ConfigsTyped /\ FlagsTyped /\ ControlTyped
  BY DEF TypeOK, ConfigsTyped, FlagsTyped, ControlTyped

\* A configuration reaches the files and Mihomo only through ValidatePasses.
LEMMA FilesStep == TypeOK /\ FilesValid /\ [Next]_vars => FilesValid'
<1> SUFFICES ASSUME TypeOK /\ FilesValid, [Next]_vars PROVE FilesValid'
  OBVIOUS
<1> USE ConfigsAssumption DEF TypeOK, FilesValid, OnlyValidated, Publishing, Steps, Quiet,
         BeforePublish, AfterPublish, RollingBack, database, files, plane, memory, apply
<1>1. CASE CompileFails
  BY <1>1 DEF CompileFails, Fail, Return
<1>2. CASE CompileUnchanged
  BY <1>2 DEF CompileUnchanged, Return
<1>3. CASE CompileChanged
  BY <1>3 DEF CompileChanged, Goto
<1>4. CASE IdleStop
  BY <1>4 DEF IdleStop, Return
<1>5. CASE IdleStopCancelled
  BY <1>5 DEF IdleStopCancelled, Fail, Return
<1>6. CASE ValidateFails
  BY <1>6 DEF ValidateFails, Fail, Return
<1>7. CASE ValidatePasses
  BY <1>7 DEF ValidatePasses, Goto
<1>8. CASE PreserveFails
  BY <1>8 DEF PreserveFails, Fail, Return
<1>9. CASE Preserve
  BY <1>9 DEF Preserve, Goto
<1>10. CASE PublishFails
  BY <1>10 DEF PublishFails, Fail, Return
<1>11. CASE PublishUnsynced
  BY <1>11 DEF PublishUnsynced, Fail, Return
<1>12. CASE Publish
  BY <1>12 DEF Publish, Goto
<1>13. CASE Reload
  BY <1>13 DEF Reload, ReloadAnswered, Goto
<1>14. CASE ReloadRejected
  BY <1>14 DEF ReloadRejected, ReloadFailed, Goto
<1>15. CASE Ready
  BY <1>15 DEF Ready, Succeed, Return
<1>16. CASE NotReady
  BY <1>16 DEF NotReady, RefreshProcess, Goto
<1>17. CASE Start
  BY <1>17 DEF Start, Goto
<1>18. CASE StartFails
  BY <1>18 DEF StartFails, Goto
<1>19. CASE StartedNotReady
  BY <1>19 DEF StartedNotReady, Goto
<1>20. CASE RollbackConfig
  BY <1>20 DEF RollbackConfig, Goto, Fail, Return
<1>21. CASE RollbackConfigFails
  BY <1>21 DEF RollbackConfigFails, Fail, Return
<1>22. CASE RollbackReload
  BY <1>22 DEF RollbackReload, ReloadAnswered, Goto
<1>23. CASE RollbackReloadRejected
  BY <1>23 DEF RollbackReloadRejected, ReloadFailed, Goto, Fail, Return
<1>24. CASE RollbackStop
  BY <1>24 DEF RollbackStop, Goto
<1>25. CASE RollbackStopCancelled
  BY <1>25 DEF RollbackStopCancelled, Fail, Return
<1>26. CASE RollbackStart
  BY <1>26 DEF RollbackStart, Goto, Fail, Return
<1>26a. CASE RollbackRestart
  BY <1>26a DEF RollbackRestart, Goto
<1>27. CASE RollbackStartFails
  BY <1>27 DEF RollbackStartFails, Fail, Return
<1>28. CASE RollbackReady
  BY <1>28 DEF RollbackReady, Fail, Return
<1>29. CASE RollbackNotReady
  BY <1>29 DEF RollbackNotReady, Fail, Return
<1>30. CASE Lock
  BY <1>30 DEF Lock, RefreshProcess, Goto
<1>31. CASE Edit
  BY <1>31 DEF Edit
<1>32. CASE Cancel
  BY <1>32 DEF Cancel
<1>33. CASE Status
  BY <1>33 DEF Status, RefreshProcess
<1>34. CASE LateReload
  BY <1>34 DEF LateReload
<1>35. CASE PlaneCrash
  BY <1>35 DEF PlaneCrash
<1>36. CASE PlaneRestart
  BY <1>36 DEF PlaneRestart
<1>37. CASE ControlStart
  BY <1>37 DEF ControlStart, Goto
<1>38. CASE Crash
  BY <1>38 DEF Crash, Halt
<1>39. CASE Shutdown
  BY <1>39 DEF Shutdown, Halt
<1>40. CASE UNCHANGED vars
  BY <1>40 DEF vars
<1>41. QED
  BY <1>1, <1>2, <1>3, <1>4, <1>5, <1>6, <1>7, <1>8, <1>9, <1>10, <1>11, <1>12, <1>13, <1>14,
       <1>15, <1>16, <1>17, <1>18, <1>19, <1>20, <1>21, <1>22, <1>23, <1>24, <1>25, <1>26, <1>26a,
       <1>27, <1>28, <1>29, <1>30, <1>31, <1>32, <1>33, <1>34, <1>35, <1>36, <1>37, <1>38, <1>39, <1>40
       DEF Next, ApplyStep, Environment

\* What lastCompiled stands for, carried through publication and rollback.
LEMMA AgreementStep == TypeOK /\ FilesValid /\ Agreement /\ [Next]_vars => Agreement'
<1> SUFFICES ASSUME TypeOK /\ FilesValid /\ Agreement, [Next]_vars PROVE Agreement'
  OBVIOUS
<1> USE ConfigsAssumption DEF TypeOK, FilesValid, OnlyValidated, Agreement, Known, Publishing,
         Restored, Steps, Quiet, BeforePublish, AfterPublish, RollingBack, database, files, plane, memory,
         apply
<1>1. CASE CompileFails
  BY <1>1 DEF CompileFails, Fail, Return
<1>2. CASE CompileUnchanged
  BY <1>2 DEF CompileUnchanged, Return
<1>3. CASE CompileChanged
  BY <1>3 DEF CompileChanged, Goto
<1>4. CASE IdleStop
  BY <1>4 DEF IdleStop, Return
<1>5. CASE IdleStopCancelled
  BY <1>5 DEF IdleStopCancelled, Fail, Return
<1>6. CASE ValidateFails
  BY <1>6 DEF ValidateFails, Fail, Return
<1>7. CASE ValidatePasses
  BY <1>7 DEF ValidatePasses, Goto
<1>8. CASE PreserveFails
  BY <1>8 DEF PreserveFails, Fail, Return
<1>9. CASE Preserve
  BY <1>9 DEF Preserve, Goto
<1>10. CASE PublishFails
  BY <1>10 DEF PublishFails, Fail, Return
<1>11. CASE PublishUnsynced
  BY <1>11 DEF PublishUnsynced, Fail, Return
<1>12. CASE Publish
  BY <1>12 DEF Publish, Goto
<1>13. CASE Reload
  BY <1>13 DEF Reload, ReloadAnswered, Goto
<1>14. CASE ReloadRejected
  BY <1>14 DEF ReloadRejected, ReloadFailed, Goto
<1>15. CASE Ready
  BY <1>15 DEF Ready, Succeed, Return
<1>16. CASE NotReady
  BY <1>16 DEF NotReady, RefreshProcess, Goto
<1>17. CASE Start
  BY <1>17 DEF Start, Goto
<1>18. CASE StartFails
  BY <1>18 DEF StartFails, Goto
<1>19. CASE StartedNotReady
  BY <1>19 DEF StartedNotReady, Goto
<1>20. CASE RollbackConfig
  BY <1>20 DEF RollbackConfig, Goto, Fail, Return
<1>21. CASE RollbackConfigFails
  BY <1>21 DEF RollbackConfigFails, Fail, Return
<1>22. CASE RollbackReload
  BY <1>22 DEF RollbackReload, ReloadAnswered, Goto
<1>23. CASE RollbackReloadRejected
  BY <1>23 DEF RollbackReloadRejected, ReloadFailed, Goto, Fail, Return
<1>24. CASE RollbackStop
  BY <1>24 DEF RollbackStop, Goto
<1>25. CASE RollbackStopCancelled
  BY <1>25 DEF RollbackStopCancelled, Fail, Return
<1>26. CASE RollbackStart
  BY <1>26 DEF RollbackStart, Goto, Fail, Return
<1>26a. CASE RollbackRestart
  BY <1>26a DEF RollbackRestart, Goto
<1>27. CASE RollbackStartFails
  BY <1>27 DEF RollbackStartFails, Fail, Return
<1>28. CASE RollbackReady
  BY <1>28 DEF RollbackReady, Fail, Return
<1>29. CASE RollbackNotReady
  BY <1>29 DEF RollbackNotReady, Fail, Return
<1>30. CASE Lock
  BY <1>30 DEF Lock, RefreshProcess, Goto
<1>31. CASE Edit
  BY <1>31 DEF Edit
<1>32. CASE Cancel
  BY <1>32 DEF Cancel
<1>33. CASE Status
  BY <1>33 DEF Status, RefreshProcess
<1>34. CASE LateReload
  BY <1>34 DEF LateReload
<1>35. CASE PlaneCrash
  BY <1>35 DEF PlaneCrash
<1>36. CASE PlaneRestart
  BY <1>36 DEF PlaneRestart
<1>37. CASE ControlStart
  BY <1>37 DEF ControlStart, Goto
<1>38. CASE Crash
  BY <1>38 DEF Crash, Halt
<1>39. CASE Shutdown
  BY <1>39 DEF Shutdown, Halt
<1>40. CASE UNCHANGED vars
  BY <1>40 DEF vars
<1>41. QED
  BY <1>1, <1>2, <1>3, <1>4, <1>5, <1>6, <1>7, <1>8, <1>9, <1>10, <1>11, <1>12, <1>13, <1>14,
       <1>15, <1>16, <1>17, <1>18, <1>19, <1>20, <1>21, <1>22, <1>23, <1>24, <1>25, <1>26, <1>26a,
       <1>27, <1>28, <1>29, <1>30, <1>31, <1>32, <1>33, <1>34, <1>35, <1>36, <1>37, <1>38, <1>39, <1>40
       DEF Next, ApplyStep, Environment

\* A rollback without an error leaves the preserved content active and served.
LEMMA RestoreStep ==
    TypeOK /\ FilesValid /\ Agreement /\ FailedApplyRestores /\ [Next]_vars => FailedApplyRestores'
<1> SUFFICES ASSUME TypeOK /\ FilesValid /\ Agreement /\ FailedApplyRestores, [Next]_vars
             PROVE FailedApplyRestores'
  OBVIOUS
<1> USE ConfigsAssumption DEF TypeOK, FilesValid, OnlyValidated, Agreement, FailedApplyRestores,
         Known, Publishing, Restored, Steps, Quiet, BeforePublish, AfterPublish, RollingBack, database,
         files, plane, memory, apply
<1>1. CASE CompileFails
  BY <1>1 DEF CompileFails, Fail, Return
<1>2. CASE CompileUnchanged
  BY <1>2 DEF CompileUnchanged, Return
<1>3. CASE CompileChanged
  BY <1>3 DEF CompileChanged, Goto
<1>4. CASE IdleStop
  BY <1>4 DEF IdleStop, Return
<1>5. CASE IdleStopCancelled
  BY <1>5 DEF IdleStopCancelled, Fail, Return
<1>6. CASE ValidateFails
  BY <1>6 DEF ValidateFails, Fail, Return
<1>7. CASE ValidatePasses
  BY <1>7 DEF ValidatePasses, Goto
<1>8. CASE PreserveFails
  BY <1>8 DEF PreserveFails, Fail, Return
<1>9. CASE Preserve
  BY <1>9 DEF Preserve, Goto
<1>10. CASE PublishFails
  BY <1>10 DEF PublishFails, Fail, Return
<1>11. CASE PublishUnsynced
  BY <1>11 DEF PublishUnsynced, Fail, Return
<1>12. CASE Publish
  BY <1>12 DEF Publish, Goto
<1>13. CASE Reload
  BY <1>13 DEF Reload, ReloadAnswered, Goto
<1>14. CASE ReloadRejected
  BY <1>14 DEF ReloadRejected, ReloadFailed, Goto
<1>15. CASE Ready
  BY <1>15 DEF Ready, Succeed, Return
<1>16. CASE NotReady
  BY <1>16 DEF NotReady, RefreshProcess, Goto
<1>17. CASE Start
  BY <1>17 DEF Start, Goto
<1>18. CASE StartFails
  BY <1>18 DEF StartFails, Goto
<1>19. CASE StartedNotReady
  BY <1>19 DEF StartedNotReady, Goto
<1>20. CASE RollbackConfig
  BY <1>20 DEF RollbackConfig, Goto, Fail, Return
<1>21. CASE RollbackConfigFails
  BY <1>21 DEF RollbackConfigFails, Fail, Return
<1>22. CASE RollbackReload
  BY <1>22 DEF RollbackReload, ReloadAnswered, Goto
<1>23. CASE RollbackReloadRejected
  BY <1>23 DEF RollbackReloadRejected, ReloadFailed, Goto, Fail, Return
<1>24. CASE RollbackStop
  BY <1>24 DEF RollbackStop, Goto
<1>25. CASE RollbackStopCancelled
  BY <1>25 DEF RollbackStopCancelled, Fail, Return
<1>26. CASE RollbackStart
  BY <1>26 DEF RollbackStart, Goto, Fail, Return
<1>26a. CASE RollbackRestart
  BY <1>26a DEF RollbackRestart, Goto
<1>27. CASE RollbackStartFails
  BY <1>27 DEF RollbackStartFails, Fail, Return
<1>28. CASE RollbackReady
  BY <1>28 DEF RollbackReady, Fail, Return
<1>29. CASE RollbackNotReady
  BY <1>29 DEF RollbackNotReady, Fail, Return
<1>30. CASE Lock
  BY <1>30 DEF Lock, RefreshProcess, Goto
<1>31. CASE Edit
  BY <1>31 DEF Edit
<1>32. CASE Cancel
  BY <1>32 DEF Cancel
<1>33. CASE Status
  BY <1>33 DEF Status, RefreshProcess
<1>34. CASE LateReload
  BY <1>34 DEF LateReload
<1>35. CASE PlaneCrash
  BY <1>35 DEF PlaneCrash
<1>36. CASE PlaneRestart
  BY <1>36 DEF PlaneRestart
<1>37. CASE ControlStart
  BY <1>37 DEF ControlStart, Goto
<1>38. CASE Crash
  BY <1>38 DEF Crash, Halt
<1>39. CASE Shutdown
  BY <1>39 DEF Shutdown, Halt
<1>40. CASE UNCHANGED vars
  BY <1>40 DEF vars
<1>41. QED
  BY <1>1, <1>2, <1>3, <1>4, <1>5, <1>6, <1>7, <1>8, <1>9, <1>10, <1>11, <1>12, <1>13, <1>14,
       <1>15, <1>16, <1>17, <1>18, <1>19, <1>20, <1>21, <1>22, <1>23, <1>24, <1>25, <1>26, <1>26a,
       <1>27, <1>28, <1>29, <1>30, <1>31, <1>32, <1>33, <1>34, <1>35, <1>36, <1>37, <1>38, <1>39, <1>40
       DEF Next, ApplyStep, Environment

\* The configuration in the transaction is the newest while nobody is queued.
LEMMA FreshStep == TypeOK /\ Freshness /\ [Next]_vars => Freshness'
<1> SUFFICES ASSUME TypeOK /\ Freshness, [Next]_vars PROVE Freshness'
  OBVIOUS
<1> USE ConfigsAssumption DEF TypeOK, Freshness, NoLostEdit, Publishing, Steps, Quiet,
         BeforePublish, AfterPublish, RollingBack, database, files, plane, memory, apply
<1>1. CASE CompileFails
  BY <1>1 DEF CompileFails, Fail, Return
<1>2. CASE CompileUnchanged
  BY <1>2 DEF CompileUnchanged, Return
<1>3. CASE CompileChanged
  BY <1>3 DEF CompileChanged, Goto
<1>4. CASE IdleStop
  BY <1>4 DEF IdleStop, Return
<1>5. CASE IdleStopCancelled
  BY <1>5 DEF IdleStopCancelled, Fail, Return
<1>6. CASE ValidateFails
  BY <1>6 DEF ValidateFails, Fail, Return
<1>7. CASE ValidatePasses
  BY <1>7 DEF ValidatePasses, Goto
<1>8. CASE PreserveFails
  BY <1>8 DEF PreserveFails, Fail, Return
<1>9. CASE Preserve
  BY <1>9 DEF Preserve, Goto
<1>10. CASE PublishFails
  BY <1>10 DEF PublishFails, Fail, Return
<1>11. CASE PublishUnsynced
  BY <1>11 DEF PublishUnsynced, Fail, Return
<1>12. CASE Publish
  BY <1>12 DEF Publish, Goto
<1>13. CASE Reload
  BY <1>13 DEF Reload, ReloadAnswered, Goto
<1>14. CASE ReloadRejected
  BY <1>14 DEF ReloadRejected, ReloadFailed, Goto
<1>15. CASE Ready
  BY <1>15 DEF Ready, Succeed, Return
<1>16. CASE NotReady
  BY <1>16 DEF NotReady, RefreshProcess, Goto
<1>17. CASE Start
  BY <1>17 DEF Start, Goto
<1>18. CASE StartFails
  BY <1>18 DEF StartFails, Goto
<1>19. CASE StartedNotReady
  BY <1>19 DEF StartedNotReady, Goto
<1>20. CASE RollbackConfig
  BY <1>20 DEF RollbackConfig, Goto, Fail, Return
<1>21. CASE RollbackConfigFails
  BY <1>21 DEF RollbackConfigFails, Fail, Return
<1>22. CASE RollbackReload
  BY <1>22 DEF RollbackReload, ReloadAnswered, Goto
<1>23. CASE RollbackReloadRejected
  BY <1>23 DEF RollbackReloadRejected, ReloadFailed, Goto, Fail, Return
<1>24. CASE RollbackStop
  BY <1>24 DEF RollbackStop, Goto
<1>25. CASE RollbackStopCancelled
  BY <1>25 DEF RollbackStopCancelled, Fail, Return
<1>26. CASE RollbackStart
  BY <1>26 DEF RollbackStart, Goto, Fail, Return
<1>26a. CASE RollbackRestart
  BY <1>26a DEF RollbackRestart, Goto
<1>27. CASE RollbackStartFails
  BY <1>27 DEF RollbackStartFails, Fail, Return
<1>28. CASE RollbackReady
  BY <1>28 DEF RollbackReady, Fail, Return
<1>29. CASE RollbackNotReady
  BY <1>29 DEF RollbackNotReady, Fail, Return
<1>30. CASE Lock
  BY <1>30 DEF Lock, RefreshProcess, Goto
<1>31. CASE Edit
  BY <1>31 DEF Edit
<1>32. CASE Cancel
  BY <1>32 DEF Cancel
<1>33. CASE Status
  BY <1>33 DEF Status, RefreshProcess
<1>34. CASE LateReload
  BY <1>34 DEF LateReload
<1>35. CASE PlaneCrash
  BY <1>35 DEF PlaneCrash
<1>36. CASE PlaneRestart
  BY <1>36 DEF PlaneRestart
<1>37. CASE ControlStart
  BY <1>37 DEF ControlStart, Goto
<1>38. CASE Crash
  BY <1>38 DEF Crash, Halt
<1>39. CASE Shutdown
  BY <1>39 DEF Shutdown, Halt
<1>40. CASE UNCHANGED vars
  BY <1>40 DEF vars
<1>41. QED
  BY <1>1, <1>2, <1>3, <1>4, <1>5, <1>6, <1>7, <1>8, <1>9, <1>10, <1>11, <1>12, <1>13, <1>14,
       <1>15, <1>16, <1>17, <1>18, <1>19, <1>20, <1>21, <1>22, <1>23, <1>24, <1>25, <1>26, <1>26a,
       <1>27, <1>28, <1>29, <1>30, <1>31, <1>32, <1>33, <1>34, <1>35, <1>36, <1>37, <1>38, <1>39, <1>40
       DEF Next, ApplyStep, Environment

\* The invariant holds before the control plane first starts.
LEMMA InitIInv == Init => IInv
<1> SUFFICES ASSUME Init PROVE IInv
  OBVIOUS
<1> USE ConfigsAssumption, BoundsAssumption DEF Init, Publishing, Quiet, BeforePublish,
         AfterPublish, RollingBack
<1>1. ConfigsTyped
  BY DEF ConfigsTyped
<1>2. external \in BOOLEAN
  OBVIOUS
<1>3. FlagsTyped
  BY <1>2 DEF FlagsTyped
<1>4. ControlTyped
  BY DEF ControlTyped, Steps
<1>5. TypeOK
  BY <1>1, <1>3, <1>4, TypeParts
<1>6. FilesValid
  BY DEF FilesValid, OnlyValidated
<1>7. Agreement
  BY DEF Agreement, Known, Restored
<1>8. FailedApplyRestores /\ Freshness
  BY DEF FailedApplyRestores, Freshness, NoLostEdit
<1>9. QED
  BY <1>5, <1>6, <1>7, <1>8 DEF IInv

\* Every step preserves the invariant.
LEMMA NextIInv == IInv /\ [Next]_vars => IInv'
<1> SUFFICES ASSUME IInv, [Next]_vars PROVE IInv'
  OBVIOUS
<1>1. TypeOK /\ FilesValid /\ Agreement /\ FailedApplyRestores /\ Freshness
  BY DEF IInv
<1>2. ConfigsTyped' /\ FlagsTyped' /\ ControlTyped'
  BY <1>1, TypeParts, ConfigsStep, FlagsStep, ControlStep
<1>3. TypeOK'
  BY <1>2 DEF TypeOK, ConfigsTyped, FlagsTyped, ControlTyped
<1>4. FilesValid'
  BY <1>1, FilesStep
<1>5. Agreement'
  BY <1>1, AgreementStep
<1>6. FailedApplyRestores' /\ Freshness'
  BY <1>1, RestoreStep, FreshStep
<1>7. QED
  BY <1>3, <1>4, <1>5, <1>6 DEF IInv

\* The inductive invariant is an invariant of the manager.
THEOREM Invariance == Spec => []IInv
<1>1. QED
  BY InitIInv, NextIInv, PTL DEF Spec

\* Type correctness of the manager and of everything it shares.
THEOREM TypeCorrect == Spec => []TypeOK
<1>1. IInv => TypeOK
  BY DEF IInv
<1>2. QED
  BY <1>1, Invariance, PTL

\* Whatever fails, whenever the control plane dies, neither the files nor Mihomo
\* hold a configuration that validateLocked did not accept.
THEOREM OnlyValidatedHolds == Spec => []OnlyValidated
<1>1. IInv => OnlyValidated
  BY DEF IInv, FilesValid
<1>2. QED
  BY <1>1, Invariance, PTL

\* Between Applies the file, Mihomo and lastCompiled agree, unless a rollback of
\* rollbackAndRestartLocked failed.
THEOREM MemoryAgreesHolds == Spec => []MemoryAgrees
<1>1. IInv => MemoryAgrees
  BY DEF IInv, Agreement, MemoryAgrees, Quiet
<1>2. QED
  BY <1>1, Invariance, PTL

\* An Apply that fails and reports no rollback error restored what was active.
THEOREM FailedApplyRestoresHolds == Spec => []FailedApplyRestores
<1>1. IInv => FailedApplyRestores
  BY DEF IInv
<1>2. QED
  BY <1>1, Invariance, PTL

\* No committed edit is left unpublished by a successful last Apply.
THEOREM NoLostEditHolds == Spec => []NoLostEdit
<1>1. IInv => NoLostEdit
  BY DEF IInv, Freshness
<1>2. QED
  BY <1>1, Invariance, PTL

\* Every step of the manager is a step of ConfigPublication or leaves the
\* publication alone: Preserve begins it, Publish installs, Ready commits, a
\* rollback restores and aborts, and a failed rollback or a crash gives up.
LEMMA PublicationStep ==
    TypeOK /\ FilesValid /\ Agreement /\ [Next]_vars => [Publication!Next]_(Publication!vars)
<1> SUFFICES ASSUME TypeOK /\ FilesValid /\ Agreement, [Next]_vars
             PROVE [Publication!Next]_(Publication!vars)
  OBVIOUS
<1> USE ConfigsAssumption DEF TypeOK, FilesValid, OnlyValidated, Agreement, Known, Publishing,
         Restored, Steps, Quiet, BeforePublish, AfterPublish, RollingBack, database, files, plane, memory,
         apply, Publication!vars
<1>1. CASE CompileFails
  BY <1>1 DEF CompileFails, Fail, Return
<1>2. CASE CompileUnchanged
  BY <1>2 DEF CompileUnchanged, Return
<1>3. CASE CompileChanged
  BY <1>3 DEF CompileChanged, Goto
<1>4. CASE IdleStop
  BY <1>4 DEF IdleStop, Return, Publication!Next, Publication!Forget
<1>5. CASE IdleStopCancelled
  BY <1>5 DEF IdleStopCancelled, Fail, Return
<1>6. CASE ValidateFails
  BY <1>6 DEF ValidateFails, Fail, Return
<1>7. CASE ValidatePasses
  BY <1>7 DEF ValidatePasses, Goto
<1>8. CASE PreserveFails
  BY <1>8 DEF PreserveFails, Fail, Return
<1>9. CASE Preserve
  BY <1>9 DEF Preserve, Goto, Publication!Next, Publication!Begin
<1>10. CASE PublishFails
  BY <1>10 DEF PublishFails, Fail, Return, Publication!Next, Publication!Abort
<1>11. CASE PublishUnsynced
  BY <1>11 DEF PublishUnsynced, Fail, Return, Publication!Next, Publication!GiveUp
<1>12. CASE Publish
  BY <1>12 DEF Publish, Goto, Publication!Next, Publication!Install
<1>13. CASE Reload
  BY <1>13 DEF Reload, ReloadAnswered, Goto
<1>14. CASE ReloadRejected
  BY <1>14 DEF ReloadRejected, ReloadFailed, Goto
<1>15. CASE Ready
  BY <1>15 DEF Ready, Succeed, Return, Publication!Next, Publication!Commit
<1>16. CASE NotReady
  BY <1>16 DEF NotReady, RefreshProcess, Goto
<1>17. CASE Start
  BY <1>17 DEF Start, Goto
<1>18. CASE StartFails
  BY <1>18 DEF StartFails, Goto
<1>19. CASE StartedNotReady
  BY <1>19 DEF StartedNotReady, Goto
<1>20. CASE RollbackConfig
  BY <1>20 DEF RollbackConfig, Goto, Fail, Return, Publication!Next, Publication!Restore,
       Publication!Abort
<1>21. CASE RollbackConfigFails
  BY <1>21 DEF RollbackConfigFails, Fail, Return, Publication!Next, Publication!GiveUp
<1>22. CASE RollbackReload
  BY <1>22 DEF RollbackReload, ReloadAnswered, Goto
<1>23. CASE RollbackReloadRejected
  BY <1>23 DEF RollbackReloadRejected, ReloadFailed, Goto, Fail, Return, Publication!Next,
       Publication!GiveUp, Publication!Abort
<1>24. CASE RollbackStop
  BY <1>24 DEF RollbackStop, Goto
<1>25. CASE RollbackStopCancelled
  BY <1>25 DEF RollbackStopCancelled, Fail, Return, Publication!Next, Publication!GiveUp
<1>26. CASE RollbackStart
  BY <1>26 DEF RollbackStart, Goto, Fail, Return, Publication!Next, Publication!Abort
<1>26a. CASE RollbackRestart
  BY <1>26a DEF RollbackRestart, Goto
<1>27. CASE RollbackStartFails
  BY <1>27 DEF RollbackStartFails, Fail, Return, Publication!Next, Publication!GiveUp
<1>28. CASE RollbackReady
  BY <1>28 DEF RollbackReady, Fail, Return, Publication!Next, Publication!Abort
<1>29. CASE RollbackNotReady
  BY <1>29 DEF RollbackNotReady, Fail, Return, Publication!Next, Publication!GiveUp
<1>30. CASE Lock
  BY <1>30 DEF Lock, RefreshProcess, Goto
<1>31. CASE Edit
  BY <1>31 DEF Edit
<1>32. CASE Cancel
  BY <1>32 DEF Cancel
<1>33. CASE Status
  BY <1>33 DEF Status, RefreshProcess
<1>34. CASE LateReload
  BY <1>34 DEF LateReload
<1>35. CASE PlaneCrash
  BY <1>35 DEF PlaneCrash
<1>36. CASE PlaneRestart
  BY <1>36 DEF PlaneRestart
<1>37. CASE ControlStart
  BY <1>37 DEF ControlStart, Goto, Publication!Next, Publication!Forget
<1>38. CASE Crash
  BY <1>38 DEF Crash, Halt, Publication!Next, Publication!Forget, Publication!GiveUp
<1>39. CASE Shutdown
  BY <1>39 DEF Shutdown, Halt, Publication!Next, Publication!Forget
<1>40. CASE UNCHANGED vars
  BY <1>40 DEF vars
<1>41. QED
  BY <1>1, <1>2, <1>3, <1>4, <1>5, <1>6, <1>7, <1>8, <1>9, <1>10, <1>11, <1>12, <1>13, <1>14,
       <1>15, <1>16, <1>17, <1>18, <1>19, <1>20, <1>21, <1>22, <1>23, <1>24, <1>25, <1>26, <1>26a,
       <1>27, <1>28, <1>29, <1>30, <1>31, <1>32, <1>33, <1>34, <1>35, <1>36, <1>37, <1>38, <1>39, <1>40
       DEF Next, ApplyStep, Environment

\* The manager implements the publication of ConfigPublication.
THEOREM PublicationImplemented == Spec => PublicationSpec
<1>1. Init => Publication!Init
  <2> SUFFICES ASSUME Init PROVE Publication!Init
    OBVIOUS
  <2> QED
    BY ConfigsAssumption DEF Init, Publication!Init, Known, AfterPublish, RollingBack
<1>2. IInv /\ [Next]_vars => [Publication!Next]_(Publication!vars)
  BY PublicationStep DEF IInv
<1>3. QED
  BY <1>1, <1>2, Invariance, PTL DEF Spec, PublicationSpec, Publication!Spec
=============================================================================
