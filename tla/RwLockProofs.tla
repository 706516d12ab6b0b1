---------------------------- MODULE RwLockProofs ----------------------------
(***************************************************************************)
(* Proofs that the readers/writer lock excludes and counts exactly, for any *)
(* finite set of processes and any ways of calling it.  What a process has  *)
(* tested under the mutex still holds when it acts on it, because nobody    *)
(* else has the mutex then.                                                 *)
(***************************************************************************)
EXTENDS RwLock, FiniteSetTheorems, TLAPS

\* The places between m.lock() and m.unlock().
Locked == {"read_test", "read_enter", "entered", "read_leave", "left", "write_test",
           "write_enter", "write_leave"}

\* The places of read_lock and read_unlock, and of write_lock and write_unlock.
ReadPlaces == {"read_lock", "read_test", "read_enter", "read_wait", "read_asleep",
               "read_unlock", "read_leave"}

WritePlaces == {"write_lock", "write_test", "write_enter", "write_wait", "write_asleep",
                "write_unlock", "write_leave"}

\* p is counted in readers.
ReadHolder(p) ==
    /\ pc[p] \in {"entered", "inside", "read_unlock", "read_leave"}
    /\ Reads(call[p])

\* p has set writer.
WriteHolder(p) ==
    /\ pc[p] \in {"entered", "inside", "write_unlock", "write_leave"}
    /\ ~Reads(call[p])

ReadHolders == {p \in Proc : ReadHolder(p)}

Types ==
    /\ m \in Proc \cup {nobody}
    /\ writer \in BOOLEAN
    /\ pc \in [Proc -> Places]
    /\ DOMAIN call = Proc

\* A process between m.lock() and m.unlock() has the mutex.
LockedOwns == \A p \in Proc : pc[p] \in Locked => m = p

\* A process runs the functions of the call it made.
CallMatches ==
    \A p \in Proc :
        /\ pc[p] \in ReadPlaces => Reads(call[p])
        /\ pc[p] \in WritePlaces => ~Reads(call[p])

\* What read_lock and write_lock have tested still holds.
TestHolds ==
    \A p \in Proc :
        /\ pc[p] = "read_enter" => ~writer
        /\ pc[p] = "write_enter" => ~writer /\ \A q \in Proc : ~ReadHolder(q)

\* The flag stands for one writer, which is there without readers.
WriterKnown ==
    /\ writer <=> \E p \in Proc : WriteHolder(p)
    /\ \A p, q \in Proc : WriteHolder(p) /\ WriteHolder(q) => p = q
    /\ writer => \A p \in Proc : ~ReadHolder(p)

\* The counter stands for the readers.
ReadersKnown == readers = Cardinality(ReadHolders)

IInv ==
    /\ Types
    /\ LockedOwns
    /\ CallMatches
    /\ TestHolds
    /\ WriterKnown
    /\ ReadersKnown

-----------------------------------------------------------------------------
\* A step that takes p to l leaves the others where they are.
LEMMA Moved ==
    ASSUME Types, NEW p \in Proc, NEW l \in Places, Goto(p, l)
    PROVE  /\ pc' \in [Proc -> Places]
           /\ pc'[p] = l
           /\ \A q \in Proc : q # p => pc'[q] = pc[q]
BY DEF Types, Goto

\* A step that makes nobody a reader or a writer, and touches neither the
\* counter nor the flag, keeps what they stand for.
LEMMA SameHolders ==
    ASSUME WriterKnown, ReadersKnown, UNCHANGED <<readers, writer>>,
           \A q \in Proc : /\ ReadHolder(q)' <=> ReadHolder(q)
                           /\ WriteHolder(q)' <=> WriteHolder(q)
    PROVE  WriterKnown' /\ ReadersKnown'
<1>1. ReadHolders' = ReadHolders
  BY DEF ReadHolders
<1> QED
  BY <1>1 DEF WriterKnown, ReadersKnown

\* A call, from outside or from inside, up to the loop on the mutex.
LEMMA CallInv ==
    ASSUME IInv, NEW p \in Proc, Lock(p) \/ Unlock(p)
    PROVE  IInv'
<1>1. PICK l \in {"read_lock", "write_lock", "read_unlock", "write_unlock"} :
        /\ Goto(p, l)
        /\ UNCHANGED <<m, readers, writer>>
        /\ DOMAIN call' = Proc
        /\ \A q \in Proc : q # p => call'[q] = call[q]
        /\ l \in ReadPlaces <=> Reads(call'[p])
        /\ \/ pc[p] = "out" /\ l \in {"read_lock", "write_lock"}
           \/ pc[p] = "inside" /\ l \in {"read_unlock", "write_unlock"} /\ call' = call
  <2>1. CASE Lock(p)
    <3>1. PICK f \in Calls : /\ call' = [call EXCEPT ![p] = f]
                             /\ Goto(p, IF Reads(f) THEN "read_lock" ELSE "write_lock")
      BY <2>1 DEF Lock
    <3>2. call'[p] = f /\ DOMAIN call' = Proc /\ \A q \in Proc : q # p => call'[q] = call[q]
      BY <3>1 DEF IInv, Types
    <3>3. pc[p] = "out" /\ UNCHANGED <<m, readers, writer>>
      BY <2>1 DEF Lock, At
    <3>4. CASE Reads(f)
      BY <3>1, <3>2, <3>3, <3>4 DEF ReadPlaces
    <3>5. CASE ~Reads(f)
      BY <3>1, <3>2, <3>3, <3>5 DEF ReadPlaces
    <3> QED
      BY <3>4, <3>5
  <2>2. CASE Unlock(p)
    <3>1. pc[p] = "inside" /\ UNCHANGED <<m, readers, writer, call>>
      BY <2>2 DEF Unlock, At
    <3>2. CASE Reads(call[p])
      BY <2>2, <3>1, <3>2 DEF Unlock, ReadPlaces, IInv, Types
    <3>3. CASE ~Reads(call[p])
      BY <2>2, <3>1, <3>3 DEF Unlock, ReadPlaces, IInv, Types
    <3> QED
      BY <3>2, <3>3
  <2> QED
    BY <2>1, <2>2
<1>2. l \in Places /\ l \notin Locked
  BY DEF Places, Locked
<1>3. pc' \in [Proc -> Places] /\ pc'[p] = l /\ \A q \in Proc : q # p => pc'[q] = pc[q]
  BY <1>1, <1>2, Moved DEF IInv
<1>4. \A q \in Proc : /\ ReadHolder(q)' <=> ReadHolder(q)
                      /\ WriteHolder(q)' <=> WriteHolder(q)
  <2> SUFFICES ASSUME NEW q \in Proc
               PROVE  /\ ReadHolder(q)' <=> ReadHolder(q)
                      /\ WriteHolder(q)' <=> WriteHolder(q)
    OBVIOUS
  <2>1. CASE q # p
    BY <2>1, <1>1, <1>3 DEF ReadHolder, WriteHolder, Reads
  <2>2. CASE q = p
    BY <2>2, <1>1, <1>3 DEF ReadHolder, WriteHolder, ReadPlaces, Reads
  <2> QED
    BY <2>1, <2>2
<1>5. WriterKnown' /\ ReadersKnown'
  BY <1>1, <1>4, SameHolders DEF IInv
<1>6. Types'
  BY <1>1, <1>3 DEF IInv, Types
<1>7. LockedOwns'
  BY <1>1, <1>2, <1>3 DEF IInv, LockedOwns
<1>8. CallMatches'
  BY <1>1, <1>3 DEF IInv, CallMatches, ReadPlaces, WritePlaces, Reads
<1>9. TestHolds'
  BY <1>1, <1>3, <1>4 DEF IInv, TestHolds
<1> QED
  BY <1>5, <1>6, <1>7, <1>8, <1>9 DEF IInv

\* A step of a function that makes p neither begin nor cease to hold the lock,
\* with the mutex as it is, taken or given back.
LEMMA WalkInv ==
    ASSUME IInv, NEW p \in Proc, NEW l \in Places, Goto(p, l),
           UNCHANGED <<readers, writer, call>>,
           pc[p] # l,
           m' \in Proc \cup {nobody},
           \A q \in Proc : q # p /\ pc[q] \in Locked => m' = m,
           l \in Locked => m' = p,
           l \in ReadPlaces => Reads(call[p]),
           l \in WritePlaces => ~Reads(call[p]),
           l = "read_enter" => ~writer,
           l = "write_enter" => ~writer /\ \A q \in Proc : ~ReadHolder(q),
           ReadHolder(p)' <=> ReadHolder(p),
           WriteHolder(p)' <=> WriteHolder(p)
    PROVE  IInv'
<1>1. pc' \in [Proc -> Places] /\ pc'[p] = l /\ \A q \in Proc : q # p => pc'[q] = pc[q]
  BY Moved DEF IInv
<1>2. \A q \in Proc : /\ ReadHolder(q)' <=> ReadHolder(q)
                      /\ WriteHolder(q)' <=> WriteHolder(q)
  BY <1>1 DEF ReadHolder, WriteHolder
<1>3. WriterKnown' /\ ReadersKnown'
  BY <1>2, SameHolders DEF IInv
<1>4. Types'
  BY <1>1 DEF IInv, Types
<1>5. LockedOwns'
  BY <1>1 DEF IInv, LockedOwns
<1>6. CallMatches'
  BY <1>1 DEF IInv, CallMatches
<1>7. TestHolds'
  BY <1>1, <1>2 DEF IInv, TestHolds
<1> QED
  BY <1>3, <1>4, <1>5, <1>6, <1>7 DEF IInv

\* m.lock().
LEMMA MLockInv ==
    ASSUME IInv, nobody \notin Proc, NEW p \in Proc,
           \/ m_lock(p, "read_lock", "read_test")
           \/ m_lock(p, "read_unlock", "read_leave")
           \/ m_lock(p, "write_lock", "write_test")
           \/ m_lock(p, "write_unlock", "write_leave")
    PROVE  IInv'
<1>1. PICK l \in Locked :
        /\ \/ pc[p] = "read_lock" /\ l = "read_test"
           \/ pc[p] = "read_unlock" /\ l = "read_leave"
           \/ pc[p] = "write_lock" /\ l = "write_test"
           \/ pc[p] = "write_unlock" /\ l = "write_leave"
        /\ Goto(p, l) /\ m = nobody /\ m' = p /\ UNCHANGED <<readers, writer, call>>
  BY DEF m_lock, At, Locked
<1>2. l \in Places
  BY DEF Locked, Places
<1>3. pc'[p] = l
  BY <1>1, <1>2, Moved DEF IInv
<1>4. \A q \in Proc : pc[q] \notin Locked
  BY <1>1 DEF IInv, LockedOwns
<1>5. /\ l \in ReadPlaces => Reads(call[p])
      /\ l \in WritePlaces => ~Reads(call[p])
  BY <1>1 DEF IInv, CallMatches, ReadPlaces, WritePlaces
<1>6. /\ ReadHolder(p)' <=> ReadHolder(p)
      /\ WriteHolder(p)' <=> WriteHolder(p)
  BY <1>1, <1>3 DEF ReadHolder, WriteHolder, Reads
<1> QED
  BY <1>1, <1>2, <1>4, <1>5, <1>6, WalkInv

\* m.unlock(), before a wait or at the end of a function.
LEMMA MUnlockInv ==
    ASSUME IInv, NEW p \in Proc,
           \/ m_unlock(p, "read_test", "read_wait")
           \/ m_unlock(p, "write_test", "write_wait")
           \/ m_unlock(p, "entered", "inside")
           \/ m_unlock(p, "left", "out")
    PROVE  IInv'
<1>1. PICK l \in {"read_wait", "write_wait", "inside", "out"} :
        /\ \/ pc[p] = "read_test" /\ l = "read_wait"
           \/ pc[p] = "write_test" /\ l = "write_wait"
           \/ pc[p] = "entered" /\ l = "inside"
           \/ pc[p] = "left" /\ l = "out"
        /\ Goto(p, l) /\ m' = nobody /\ UNCHANGED <<readers, writer, call>>
  BY DEF m_unlock, At
<1>2. l \in Places /\ l \notin Locked
  BY DEF Locked, Places
<1>3. pc'[p] = l
  BY <1>1, <1>2, Moved DEF IInv
<1>4. \A q \in Proc : q # p => pc[q] \notin Locked
  BY <1>1 DEF IInv, LockedOwns, Locked
<1>5. /\ l \in ReadPlaces => Reads(call[p])
      /\ l \in WritePlaces => ~Reads(call[p])
  BY <1>1 DEF IInv, CallMatches, ReadPlaces, WritePlaces
<1>6. /\ ReadHolder(p)' <=> ReadHolder(p)
      /\ WriteHolder(p)' <=> WriteHolder(p)
  BY <1>1, <1>3 DEF ReadHolder, WriteHolder, Reads
<1> QED
  BY <1>1, <1>2, <1>4, <1>5, <1>6, WalkInv

\* write.wait(), and the tests that succeed: the mutex stays as it is.
LEMMA StayInv ==
    ASSUME IInv, IsFiniteSet(Proc), NEW p \in Proc, NEW l \in Places, Goto(p, l),
           UNCHANGED <<m, readers, writer, call>>,
           \/ pc[p] = "read_wait" /\ l = "read_asleep"
           \/ pc[p] = "read_asleep" /\ l = "read_lock"
           \/ pc[p] = "write_wait" /\ l = "write_asleep"
           \/ pc[p] = "write_asleep" /\ l = "write_lock"
           \/ pc[p] = "read_test" /\ l = "read_enter" /\ ~writer
           \/ pc[p] = "write_test" /\ l = "write_enter" /\ ~writer /\ readers = 0
    PROVE  IInv'
<1>1. pc'[p] = l
  BY Moved DEF IInv
<1>2. l \in Locked => m' = p
  BY DEF IInv, LockedOwns, Locked
<1>3. /\ l \in ReadPlaces => Reads(call[p])
      /\ l \in WritePlaces => ~Reads(call[p])
  BY DEF IInv, CallMatches, ReadPlaces, WritePlaces
<1>4. readers = 0 => \A q \in Proc : ~ReadHolder(q)
  <2>1. IsFiniteSet(ReadHolders)
    BY FS_Subset DEF ReadHolders
  <2>2. readers = 0 => ReadHolders = {}
    BY <2>1, FS_EmptySet DEF IInv, ReadersKnown
  <2> QED
    BY <2>2 DEF ReadHolders
<1>5. /\ ReadHolder(p)' <=> ReadHolder(p)
      /\ WriteHolder(p)' <=> WriteHolder(p)
  BY <1>1 DEF ReadHolder, WriteHolder
<1>6. m' \in Proc \cup {nobody}
  BY DEF IInv, Types
<1> QED
  BY <1>2, <1>3, <1>4, <1>5, <1>6, WalkInv

\* The steps under the mutex that change the counter or the flag: nobody else
\* is between a test and what follows from it.
LEMMA Alone ==
    ASSUME IInv, NEW p \in Proc, pc[p] \in Locked, NEW l \in {"entered", "left"}, Goto(p, l),
           UNCHANGED <<m, call>>, writer' \in BOOLEAN
    PROVE  /\ pc'[p] = l
           /\ \A q \in Proc : q # p => pc'[q] = pc[q]
           /\ Types' /\ LockedOwns' /\ CallMatches' /\ TestHolds'
<1>1. l \in Places /\ l \in Locked /\ l \notin ReadPlaces /\ l \notin WritePlaces
  BY DEF Places, Locked, ReadPlaces, WritePlaces
<1>2. pc' \in [Proc -> Places] /\ pc'[p] = l /\ \A q \in Proc : q # p => pc'[q] = pc[q]
  BY <1>1, Moved DEF IInv
<1>3. \A q \in Proc : q # p => pc[q] \notin Locked
  BY DEF IInv, LockedOwns
<1>4. Types'
  BY <1>2 DEF IInv, Types
<1>5. LockedOwns'
  BY <1>2 DEF IInv, LockedOwns
<1>6. CallMatches'
  BY <1>1, <1>2 DEF IInv, CallMatches
<1>7. TestHolds'
  BY <1>2, <1>3 DEF TestHolds, Locked
<1> QED
  BY <1>2, <1>4, <1>5, <1>6, <1>7

\* ++readers.
LEMMA ReadEnterInv ==
    ASSUME IInv, IsFiniteSet(Proc), NEW p \in Proc, pc[p] = "read_enter", Goto(p, "entered"),
           readers' = readers + 1, UNCHANGED <<m, writer, call>>
    PROVE  IInv'
<1>1. pc[p] \in Locked /\ writer' \in BOOLEAN /\ ~writer /\ Reads(call[p])
  BY DEF IInv, Types, TestHolds, CallMatches, ReadPlaces, Locked
<1>2. /\ pc'[p] = "entered" /\ \A q \in Proc : q # p => pc'[q] = pc[q]
      /\ Types' /\ LockedOwns' /\ CallMatches' /\ TestHolds'
  BY <1>1, Alone
<1>3. \A q \in Proc : WriteHolder(q)' <=> WriteHolder(q)
  BY <1>1, <1>2 DEF WriteHolder
<1>4. \A q \in Proc : ReadHolder(q)' <=> ReadHolder(q) \/ q = p
  BY <1>1, <1>2 DEF ReadHolder
<1>5. WriterKnown'
  BY <1>1, <1>3 DEF IInv, WriterKnown
<1>6. ReadHolders' = ReadHolders \cup {p}
  BY <1>4 DEF ReadHolders
<1>7. p \notin ReadHolders
  BY DEF ReadHolders, ReadHolder
<1>8. IsFiniteSet(ReadHolders)
  BY FS_Subset DEF ReadHolders
<1>9. ReadersKnown'
  BY <1>6, <1>7, <1>8, FS_AddElement DEF IInv, ReadersKnown
<1> QED
  BY <1>2, <1>5, <1>9 DEF IInv

\* --readers.
LEMMA ReadLeaveInv ==
    ASSUME IInv, IsFiniteSet(Proc), NEW p \in Proc, pc[p] = "read_leave", Goto(p, "left"),
           readers' = readers - 1, UNCHANGED <<m, writer, call>>
    PROVE  IInv'
<1>1. pc[p] \in Locked /\ writer' \in BOOLEAN /\ Reads(call[p])
  BY DEF IInv, Types, CallMatches, ReadPlaces, Locked
<1>2. /\ pc'[p] = "left" /\ \A q \in Proc : q # p => pc'[q] = pc[q]
      /\ Types' /\ LockedOwns' /\ CallMatches' /\ TestHolds'
  BY <1>1, Alone
<1>3. \A q \in Proc : WriteHolder(q)' <=> WriteHolder(q)
  BY <1>1, <1>2 DEF WriteHolder
<1>4. \A q \in Proc : ReadHolder(q)' <=> ReadHolder(q) /\ q # p
  BY <1>1, <1>2 DEF ReadHolder
<1>5. WriterKnown'
  BY <1>3, <1>4 DEF IInv, WriterKnown
<1>6. ReadHolders' = ReadHolders \ {p}
  BY <1>4 DEF ReadHolders
<1>7. p \in ReadHolders
  BY <1>1 DEF ReadHolders, ReadHolder
<1>8. IsFiniteSet(ReadHolders)
  BY FS_Subset DEF ReadHolders
<1>9. ReadersKnown'
  BY <1>6, <1>7, <1>8, FS_RemoveElement DEF IInv, ReadersKnown
<1> QED
  BY <1>2, <1>5, <1>9 DEF IInv

\* writer = true.
LEMMA WriteEnterInv ==
    ASSUME IInv, NEW p \in Proc, pc[p] = "write_enter", Goto(p, "entered"),
           writer' = TRUE, UNCHANGED <<m, readers, call>>
    PROVE  IInv'
<1>1. /\ pc[p] \in Locked /\ writer' \in BOOLEAN /\ ~writer /\ ~Reads(call[p])
      /\ \A q \in Proc : ~ReadHolder(q)
  BY DEF IInv, TestHolds, CallMatches, WritePlaces, Locked
<1>2. /\ pc'[p] = "entered" /\ \A q \in Proc : q # p => pc'[q] = pc[q]
      /\ Types' /\ LockedOwns' /\ CallMatches' /\ TestHolds'
  BY <1>1, Alone
<1>3. \A q \in Proc : ~WriteHolder(q)
  BY <1>1 DEF IInv, WriterKnown
<1>4. \A q \in Proc : WriteHolder(q)' <=> WriteHolder(q) \/ q = p
  BY <1>1, <1>2 DEF WriteHolder
<1>5. \A q \in Proc : ReadHolder(q)' <=> ReadHolder(q)
  BY <1>1, <1>2 DEF ReadHolder
<1>6. WriterKnown'
  BY <1>1, <1>3, <1>4, <1>5 DEF WriterKnown
<1>7. ReadHolders' = ReadHolders
  BY <1>5 DEF ReadHolders
<1>8. ReadersKnown'
  BY <1>7 DEF IInv, ReadersKnown
<1> QED
  BY <1>2, <1>6, <1>8 DEF IInv

\* writer = false.
LEMMA WriteLeaveInv ==
    ASSUME IInv, NEW p \in Proc, pc[p] = "write_leave", Goto(p, "left"),
           writer' = FALSE, UNCHANGED <<m, readers, call>>
    PROVE  IInv'
<1>1. pc[p] \in Locked /\ writer' \in BOOLEAN /\ ~Reads(call[p])
  BY DEF IInv, CallMatches, WritePlaces, Locked
<1>2. /\ pc'[p] = "left" /\ \A q \in Proc : q # p => pc'[q] = pc[q]
      /\ Types' /\ LockedOwns' /\ CallMatches' /\ TestHolds'
  BY <1>1, Alone
<1>3. WriteHolder(p)
  BY <1>1 DEF WriteHolder
<1>4. \A q \in Proc : WriteHolder(q) => q = p
  BY <1>3 DEF IInv, WriterKnown
<1>5. \A q \in Proc : WriteHolder(q)' <=> WriteHolder(q) /\ q # p
  BY <1>1, <1>2 DEF WriteHolder
<1>6. \A q \in Proc : ReadHolder(q)' <=> ReadHolder(q)
  BY <1>1, <1>2 DEF ReadHolder
<1>7. WriterKnown'
  BY <1>4, <1>5 DEF WriterKnown
<1>8. ReadHolders' = ReadHolders
  BY <1>6 DEF ReadHolders
<1>9. ReadersKnown'
  BY <1>8 DEF IInv, ReadersKnown
<1> QED
  BY <1>2, <1>7, <1>9 DEF IInv

-----------------------------------------------------------------------------
LEMMA StepInv ==
    ASSUME IInv, IsFiniteSet(Proc), nobody \notin Proc, NEW p \in Proc, Step(p)
    PROVE  IInv'
<1>1. CASE Lock(p) \/ Unlock(p)
  BY <1>1, CallInv
<1>2. CASE read_lock(p)
  <2>1. CASE m_lock(p, "read_lock", "read_test")
    BY <2>1, MLockInv
  <2>2. CASE m_unlock(p, "read_test", "read_wait") \/ m_unlock(p, "entered", "inside")
    BY <2>2, MUnlockInv
  <2>3. CASE wait(p, "read_wait", "read_asleep", "read_lock")
    BY <2>3, StayInv DEF wait, At, Places
  <2>4. CASE At(p, "read_test") /\ ~writer /\ Goto(p, "read_enter")
             /\ UNCHANGED <<m, readers, writer, write, call>>
    BY <2>4, StayInv DEF At, Places
  <2>5. CASE At(p, "read_enter") /\ readers' = readers + 1 /\ Goto(p, "entered")
             /\ UNCHANGED <<m, writer, write, call>>
    BY <2>5, ReadEnterInv DEF At
  <2> QED
    BY <1>2, <2>1, <2>2, <2>3, <2>4, <2>5 DEF read_lock
<1>3. CASE read_unlock(p)
  <2>1. CASE m_lock(p, "read_unlock", "read_leave")
    BY <2>1, MLockInv
  <2>2. CASE m_unlock(p, "left", "out")
    BY <2>2, MUnlockInv
  <2>3. CASE At(p, "read_leave") /\ readers' = readers - 1 /\ Goto(p, "left")
             /\ UNCHANGED <<m, writer, call>>
    BY <2>3, ReadLeaveInv DEF At
  <2> QED
    BY <1>3, <2>1, <2>2, <2>3 DEF read_unlock
<1>4. CASE write_lock(p)
  <2>1. CASE m_lock(p, "write_lock", "write_test")
    BY <2>1, MLockInv
  <2>2. CASE m_unlock(p, "write_test", "write_wait")
    BY <2>2, MUnlockInv
  <2>3. CASE wait(p, "write_wait", "write_asleep", "write_lock")
    BY <2>3, StayInv DEF wait, At, Places
  <2>4. CASE At(p, "write_test") /\ ~writer /\ readers = 0 /\ Goto(p, "write_enter")
             /\ UNCHANGED <<m, readers, writer, write, call>>
    BY <2>4, StayInv DEF At, Places
  <2>5. CASE At(p, "write_enter") /\ writer' = TRUE /\ Goto(p, "entered")
             /\ UNCHANGED <<m, readers, write, call>>
    BY <2>5, WriteEnterInv DEF At
  <2> QED
    BY <1>4, <2>1, <2>2, <2>3, <2>4, <2>5 DEF write_lock
<1>5. CASE write_unlock(p)
  <2>1. CASE m_lock(p, "write_unlock", "write_leave")
    BY <2>1, MLockInv
  <2>2. CASE At(p, "write_leave") /\ writer' = FALSE /\ Goto(p, "left")
             /\ UNCHANGED <<m, readers, call>>
    BY <2>2, WriteLeaveInv DEF At
  <2> QED
    BY <1>5, <2>1, <2>2 DEF write_unlock
<1> QED
  BY <1>1, <1>2, <1>3, <1>4, <1>5 DEF Step

LEMMA InitInv == Init => IInv
<1> SUFFICES ASSUME Init PROVE IInv
  OBVIOUS
<1>1. \A p \in Proc : pc[p] = "out"
  BY DEF Init
<1>2. \A p \in Proc : ~ReadHolder(p) /\ ~WriteHolder(p)
  BY <1>1 DEF ReadHolder, WriteHolder
<1>3. ReadersKnown
  BY <1>2, FS_EmptySet DEF Init, ReadersKnown, ReadHolders
<1>4. Types
  BY DEF Init, Types, Places
<1>5. LockedOwns /\ CallMatches /\ TestHolds
  BY <1>1 DEF LockedOwns, CallMatches, TestHolds, Locked, ReadPlaces, WritePlaces
<1>6. WriterKnown
  BY <1>2 DEF Init, WriterKnown
<1> QED
  BY <1>3, <1>4, <1>5, <1>6 DEF IInv

LEMMA NextInv ==
    ASSUME IsFiniteSet(Proc), nobody \notin Proc, IInv, [Next]_vars
    PROVE  IInv'
<1>1. CASE Next
  BY <1>1, StepInv DEF Next
<1>2. CASE UNCHANGED vars
  BY <1>2 DEF vars, IInv, Types, LockedOwns, CallMatches, TestHolds, WriterKnown,
              ReadersKnown, ReadHolders, ReadHolder, WriteHolder
<1> QED
  BY <1>1, <1>2

LEMMA Excludes == IInv => WriterExclusive
<1> SUFFICES ASSUME IInv, NEW p \in Inside, NEW q \in Inside, ~Reads(call[p])
             PROVE  p = q
  BY DEF WriterExclusive
<1>1. p \in Proc /\ q \in Proc /\ pc[p] = "inside" /\ pc[q] = "inside"
  BY DEF Inside, At
<1>2. WriteHolder(p) /\ (ReadHolder(q) \/ WriteHolder(q))
  BY <1>1 DEF WriteHolder, ReadHolder
<1> QED
  BY <1>1, <1>2 DEF IInv, WriterKnown

LEMMA CountsKnown ==
    ASSUME nobody \notin Proc, IInv
    PROVE  CountsExact
<1> SUFFICES ASSUME m = nobody PROVE CountsExact
  BY DEF CountsExact
<1>1. \A p \in Proc : pc[p] \notin {"entered", "read_leave", "write_leave"}
  BY DEF IInv, LockedOwns, Locked
<1>2. ReadHolders = {p \in Proc : pc[p] \in {"inside", "read_unlock"} /\ Reads(call[p])}
  BY <1>1 DEF ReadHolders, ReadHolder
<1>3. \A p \in Proc : WriteHolder(p) <=> pc[p] \in {"inside", "write_unlock"} /\ ~Reads(call[p])
  BY <1>1 DEF WriteHolder
<1> QED
  BY <1>2, <1>3 DEF IInv, WriterKnown, ReadersKnown, CountsExact

\* The counter and the flag tell at every moment who holds the lock.
THEOREM Invariant ==
    ASSUME IsFiniteSet(Proc), nobody \notin Proc
    PROVE  Spec => []IInv
<1>1. IInv /\ [Next]_vars => IInv'
  BY NextInv
<1> QED
  BY <1>1, InitInv, PTL DEF Spec

\* rw_lock.hpp: "There can be multiple readers, but only one writer", of the
\* processes that took the lock with write_lock, however they called it.
THEOREM Exclusion ==
    ASSUME IsFiniteSet(Proc), nobody \notin Proc
    PROVE  Spec => []WriterExclusive
BY Invariant, Excludes, PTL

\* While the mutex is free, the counter is the number of the readers inside and
\* the flag says whether a writer is.
THEOREM Counts ==
    ASSUME IsFiniteSet(Proc), nobody \notin Proc
    PROVE  Spec => []CountsExact
<1>1. IInv => CountsExact
  BY CountsKnown
<1> QED
  BY <1>1, Invariant, PTL
=============================================================================
