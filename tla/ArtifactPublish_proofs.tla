----------------------- MODULE ArtifactPublish_proofs -----------------------
(***************************************************************************)
(* For any number of writers, readers and processes, any interleaving and  *)
(* any number of crashes, as long as no two processes have one pid:        *)
(* concurrent writers never share a temporary file, the destination always *)
(* holds a whole artifact, and writing and reading it implement an atomic  *)
(* register.  A temporary is left only by a crash or by a removal that     *)
(* failed, and what is left is neither published nor read.                 *)
(***************************************************************************)
EXTENDS ArtifactPublish, SequenceTheorems, TLAPS

DistinctProcessIds ==
  \A p, q \in Processes : p # q => PidOf[p] # PidOf[q]

(* The temporary of a running write carries the pid of its process and a   *)
(* number that the process's counter has passed.                           *)
Numbered ==
  \A w \in Writers :
    Active(w) => \E s \in Nat :
                   /\ temporary[w] = <<PidOf[ProcessOf[w]], s>>
                   /\ s < sequence[ProcessOf[w]]

TemporaryInv ==
  /\ DOMAIN pc = Writers
  /\ DOMAIN temporary = Writers
  /\ sequence \in [Processes -> Nat]
  /\ Numbered
  /\ NoSharedTemporary

(* A step after which no writer is active that was not active before, and  *)
(* which leaves names and counters alone, keeps the invariant.             *)
LEMMA QuietStep ==
  ASSUME TemporaryInv, NEW w \in Writers, NEW label,
         UNCHANGED <<temporary, sequence>>, Moved(w, label),
         Active(w) \/ label \notin {"open", "write", "rename"}
  PROVE  TemporaryInv'
<1>1. \A v \in Writers : pc'[v] = IF v = w THEN label ELSE pc[v]
  BY DEF Moved, TemporaryInv
<1>2. \A v \in Writers : Active(v)' => Active(v)
  BY <1>1 DEF Active
<1>3. DOMAIN pc' = Writers
  BY DEF Moved, TemporaryInv
<1>4. Numbered'
  BY <1>2 DEF TemporaryInv, Numbered
<1>5. NoSharedTemporary'
  BY <1>2 DEF TemporaryInv, NoSharedTemporary
<1> QED
  BY <1>3, <1>4, <1>5 DEF TemporaryInv

LEMMA SameWriters ==
  ASSUME TemporaryInv, UNCHANGED <<pc, temporary, sequence>>
  PROVE  TemporaryInv'
BY DEF TemporaryInv, Numbered, NoSharedTemporary, Active

(* The new name differs from those of the same process, whose numbers are  *)
(* below the counter, and from those of the others, which have other pids. *)
LEMMA MakeNameKeeps ==
  ASSUME TemporaryInv, DistinctProcessIds, NEW w \in Writers, MakeName(w)
  PROVE  TemporaryInv'
<1> DEFINE p == ProcessOf[w]
<1>1. p \in Processes /\ sequence[p] \in Nat
  BY DEF Processes, TemporaryInv
<1>2. /\ \A v \in Writers : pc'[v] = IF v = w THEN "open" ELSE pc[v]
      /\ \A v \in Writers : temporary'[v] = IF v = w
                                            THEN <<PidOf[p], sequence[p]>>
                                            ELSE temporary[v]
      /\ \A q \in Processes : sequence'[q] = IF q = p THEN sequence[p] + 1
                                             ELSE sequence[q]
  BY DEF MakeName, Moved, TemporaryInv
<1>3. /\ DOMAIN pc' = Writers
      /\ DOMAIN temporary' = Writers
      /\ sequence' \in [Processes -> Nat]
  BY <1>1 DEF MakeName, Moved, TemporaryInv
<1>4. \A v \in Writers : Active(v)' /\ v # w => Active(v)
  BY <1>2 DEF Active
<1>5. \A v \in Writers : ProcessOf[v] \in Processes
  BY DEF Processes
<1>6. Numbered'
  <2> SUFFICES ASSUME NEW v \in Writers, Active(v)'
               PROVE  \E s \in Nat :
                        /\ temporary'[v] = <<PidOf[ProcessOf[v]], s>>
                        /\ s < sequence'[ProcessOf[v]]
    BY DEF Numbered
  <2>1. CASE v = w
    BY <2>1, <1>1, <1>2
  <2>2. CASE v # w
    <3>1. PICK s \in Nat : /\ temporary[v] = <<PidOf[ProcessOf[v]], s>>
                           /\ s < sequence[ProcessOf[v]]
      BY <2>2, <1>4 DEF TemporaryInv, Numbered
    <3>2. s < sequence'[ProcessOf[v]]
      BY <3>1, <1>1, <1>2, <1>5
    <3> QED
      BY <2>2, <1>2, <3>1, <3>2
  <2> QED
    BY <2>1, <2>2
<1>7. \A v \in Writers : Active(v)' /\ v # w => temporary'[v] # temporary'[w]
  <2> SUFFICES ASSUME NEW v \in Writers, Active(v)', v # w
               PROVE  temporary'[v] # temporary'[w]
    OBVIOUS
  <2>1. PICK s \in Nat : /\ temporary[v] = <<PidOf[ProcessOf[v]], s>>
                         /\ s < sequence[ProcessOf[v]]
    BY <1>4 DEF TemporaryInv, Numbered
  <2>2. CASE ProcessOf[v] = p
    BY <2>1, <2>2, <1>1, <1>2
  <2>3. CASE ProcessOf[v] # p
    <3>1. PidOf[ProcessOf[v]] # PidOf[p]
      BY <2>3, <1>1, <1>5 DEF DistinctProcessIds
    <3> QED
      BY <2>1, <3>1, <1>2
  <2> QED
    BY <2>2, <2>3
<1>8. NoSharedTemporary'
  <2> SUFFICES ASSUME NEW u \in Writers, NEW v \in Writers, u # v,
                      Active(u)', Active(v)'
               PROVE  temporary'[u] # temporary'[v]
    BY DEF NoSharedTemporary
  <2>1. CASE u = w \/ v = w
    BY <2>1, <1>7
  <2>2. CASE u # w /\ v # w
    BY <2>2, <1>2, <1>4 DEF TemporaryInv, NoSharedTemporary
  <2> QED
    BY <2>1, <2>2
<1> QED
  BY <1>3, <1>6, <1>8 DEF TemporaryInv

(* A crash sets a counter back, but no write of that process goes on.      *)
LEMMA CrashKeeps ==
  ASSUME TemporaryInv, NEW p \in Processes, Crash(p)
  PROVE  TemporaryInv'
<1>1. \A v \in Writers : Active(v)' => Active(v) /\ ProcessOf[v] # p
  BY DEF Crash, Active, TemporaryInv
<1>2. /\ DOMAIN pc' = Writers
      /\ temporary' = temporary
      /\ sequence' \in [Processes -> Nat]
      /\ \A q \in Processes : q # p => sequence'[q] = sequence[q]
  BY DEF Crash, TemporaryInv
<1>3. \A v \in Writers : ProcessOf[v] \in Processes
  BY DEF Processes
<1>4. Numbered'
  BY <1>1, <1>2, <1>3 DEF TemporaryInv, Numbered
<1>5. NoSharedTemporary'
  BY <1>1, <1>2 DEF TemporaryInv, NoSharedTemporary
<1> QED
  BY <1>2, <1>4, <1>5 DEF TemporaryInv

LEMMA WriteKeeps ==
  ASSUME TemporaryInv, DistinctProcessIds, NEW w \in Writers, Write(w)
  PROVE  TemporaryInv'
<1>1. CASE RefuseToSerialize(w)
  BY <1>1, QuietStep DEF RefuseToSerialize
<1>2. CASE MakeName(w)
  BY <1>2, MakeNameKeeps
<1>3. CASE OpenTemporary(w)
  BY <1>3, QuietStep DEF OpenTemporary, Active
<1>4. CASE OpenFails(w)
  BY <1>4, QuietStep DEF OpenFails
<1>5. CASE WriteBlock(w)
  BY <1>5, SameWriters DEF WriteBlock
<1>6. CASE WriteFails(w)
  BY <1>6, QuietStep DEF WriteFails, FailRemoving
<1>7. CASE FlushAndClose(w)
  BY <1>7, QuietStep DEF FlushAndClose, Active
<1>8. CASE Publish(w)
  BY <1>8, QuietStep DEF Publish
<1>9. CASE PublishFails(w)
  BY <1>9, QuietStep DEF PublishFails, FailRemoving
<1> QED
  BY <1>1, <1>2, <1>3, <1>4, <1>5, <1>6, <1>7, <1>8, <1>9 DEF Write

LEMMA ReadKeeps ==
  ASSUME TemporaryInv, NEW r \in Readers, Read(r)
  PROVE  TemporaryInv'
<1>1. UNCHANGED <<pc, temporary, sequence>>
  BY DEF Read, OpenDestination, ReadBlock, ReadStops, Parse
<1> QED
  BY <1>1, SameWriters

(* Writers of one destination, in any process, never have one temporary    *)
(* file at the same time: what unique_temporary_path is for.               *)
THEOREM TemporariesUnique ==
  ASSUME DistinctProcessIds
  PROVE  Spec => []NoSharedTemporary
<1>1. Init => TemporaryInv
  BY DEF Init, TemporaryInv, Numbered, NoSharedTemporary, Active
<1>2. TemporaryInv /\ [Next]_vars => TemporaryInv'
  <2> SUFFICES ASSUME TemporaryInv, [Next]_vars PROVE TemporaryInv'
    OBVIOUS
  <2>1. CASE Next
    BY <2>1, WriteKeeps, ReadKeeps, CrashKeeps DEF Next
  <2>2. CASE UNCHANGED vars
    BY <2>2, SameWriters DEF vars
  <2> QED
    BY <2>1, <2>2
<1>3. TemporaryInv => NoSharedTemporary
  BY DEF TemporaryInv
<1> QED
  BY <1>1, <1>2, <1>3, PTL DEF Spec
-----------------------------------------------------------------------------
(* getpid() is never zero, so no temporary is the destination.             *)
RealProcessIds == DistinctProcessIds /\ \A p \in Processes : PidOf[p] # 0

(* What a writer has put into its file so far.                             *)
Written(w, n) == [b \in 1..n |-> <<w, b>>]

Opened(w) == pc[w] \in {"write", "rename"}

BlockValues == (Writers \cup {0}) \X Nat

FileTypes ==
  /\ inodes \in Seq(Seq(BlockValues))
  /\ handle \in [Writers -> 1..Len(inodes) \cup {Absent}]
  /\ position \in [Writers -> 0..Blocks]

(* Every name leads to an inode of its own.                                *)
NamesApart ==
  /\ \A n \in DOMAIN names : names[n] \in 1..Len(inodes)
  /\ \A m, n \in DOMAIN names : m # n => names[m] # names[n]

(* The temporary of a writer that has opened it still leads to the inode   *)
(* it writes to, which holds what that writer has written and no more.     *)
HandlesOwned ==
  \A w \in Writers :
    Opened(w) => /\ temporary[w] \in DOMAIN names
                 /\ names[temporary[w]] = handle[w]
                 /\ inodes[handle[w]] = Written(w, position[w])

Progress ==
  \A w \in Writers :
    /\ pc[w] \in {"start", "open"} => position[w] = 0
    /\ pc[w] = "rename" => position[w] = Blocks

FilesInv ==
  /\ FileTypes
  /\ NamesApart
  /\ HandlesOwned
  /\ Progress
  /\ DestinationWhole

(* What a reader has taken is a whole artifact, what it has read of it is  *)
(* the beginning, and what its caller got is all of it or nothing.         *)
TakenFrom(r, file) ==
  \E w \in Writers :
    /\ file = Artifact(w)
    /\ \E k \in 0..Blocks : reading[r].blocks = Written(w, k)
    /\ output[r] \in {Absent, Artifact(w)}

Waiting(r) == /\ reading[r].inode = Absent
              /\ reading[r].pc \in {"start", "failed"}
              /\ output[r] = Absent

(* No temporary leads to the inode a reader has open.                      *)
Holding(r) == /\ reading[r].pc # "start"
              /\ reading[r].inode \in 1..Len(inodes)
              /\ \A n \in DOMAIN names \ {Destination} :
                   names[n] # reading[r].inode
              /\ TakenFrom(r, inodes[reading[r].inode])

ReadersSafe == \A r \in Readers : Waiting(r) \/ Holding(r)

-----------------------------------------------------------------------------
Reading == [pc : {"start", "read", "parse", "done", "failed"},
            inode : Nat \cup {Absent},
            blocks : Seq(BlockValues)]

ReaderTypes == reading \in [Readers -> Reading] /\ DOMAIN output = Readers

PublishInv == TemporaryInv /\ FilesInv /\ ReaderTypes /\ ReadersSafe

(* The step changes nothing that a reader sees or can come to see.         *)
Unseen ==
  /\ UNCHANGED <<reading, output>>
  /\ Destination \in DOMAIN names' <=> Destination \in DOMAIN names
  /\ Destination \in DOMAIN names =>
       inodes'[names'[Destination]] = inodes[names[Destination]]
  /\ \A r \in Readers : Holding(r) =>
       inodes'[reading[r].inode] = inodes[reading[r].inode]

LEMMA ActiveNames ==
  ASSUME TemporaryInv, RealProcessIds
  PROVE  \A w \in Writers : Active(w) => temporary[w] # Destination
<1> SUFFICES ASSUME NEW w \in Writers, Active(w)
             PROVE  temporary[w] # Destination
  OBVIOUS
<1>1. ProcessOf[w] \in Processes
  BY DEF Processes
<1>2. PICK s \in Nat : temporary[w] = <<PidOf[ProcessOf[w]], s>>
  BY DEF TemporaryInv, Numbered
<1>3. PidOf[ProcessOf[w]] # 0
  BY <1>1 DEF RealProcessIds
<1> QED
  BY <1>2, <1>3 DEF Destination

(* Nobody else has the inode of an open temporary: no other writer, not    *)
(* the destination, no reader.                                             *)
LEMMA HandleIsPrivate ==
  ASSUME PublishInv, RealProcessIds, NEW w \in Writers, Opened(w)
  PROVE  /\ temporary[w] \in DOMAIN names
         /\ names[temporary[w]] = handle[w]
         /\ handle[w] \in 1..Len(inodes)
         /\ \A v \in Writers : Opened(v) /\ v # w => handle[v] # handle[w]
         /\ \A n \in DOMAIN names : n # temporary[w] => names[n] # handle[w]
         /\ \A r \in Readers : Holding(r) => reading[r].inode # handle[w]
<1>1. Active(w) /\ \A v \in Writers : Opened(v) => Active(v)
  BY DEF Opened, Active
<1>2. temporary[w] # Destination
  BY <1>1, ActiveNames DEF PublishInv
<1>3. /\ temporary[w] \in DOMAIN names
      /\ names[temporary[w]] = handle[w]
      /\ handle[w] \in 1..Len(inodes)
  BY DEF PublishInv, FilesInv, HandlesOwned, NamesApart
<1>4. \A n \in DOMAIN names : n # temporary[w] => names[n] # handle[w]
  BY <1>3 DEF PublishInv, FilesInv, NamesApart
<1>5. ASSUME NEW v \in Writers, Opened(v), v # w
      PROVE  handle[v] # handle[w]
  <2>1. temporary[v] \in DOMAIN names /\ names[temporary[v]] = handle[v]
    BY <1>5 DEF PublishInv, FilesInv, HandlesOwned
  <2>2. temporary[v] # temporary[w]
    BY <1>1, <1>5 DEF PublishInv, TemporaryInv, NoSharedTemporary
  <2> QED
    BY <1>4, <2>1, <2>2
<1>6. \A r \in Readers : Holding(r) => reading[r].inode # handle[w]
  BY <1>2, <1>3 DEF Holding
<1> QED
  BY <1>3, <1>4, <1>5, <1>6

(* A step that touches no file and opens none.                             *)
LEMMA NoFileTouched ==
  ASSUME PublishInv, UNCHANGED <<names, inodes, handle, position>>,
         \A w \in Writers : Opened(w)' => Opened(w)
                                          /\ temporary'[w] = temporary[w],
         Progress'
  PROVE  FilesInv'
<1>1. FileTypes' /\ NamesApart'
  BY DEF PublishInv, FilesInv, FileTypes, NamesApart
<1>2. HandlesOwned'
  BY DEF PublishInv, FilesInv, HandlesOwned, Written
<1>3. DestinationWhole'
  BY DEF PublishInv, FilesInv, DestinationWhole, Genuine, Artifact,
         Destination
<1> QED
  BY <1>1, <1>2, <1>3 DEF FilesInv

(* What a reader has taken, spelled out after a step.                      *)
LEMMA StillTaken ==
  ASSUME NEW r \in Readers,
         \E w \in Writers :
           /\ inodes'[reading'[r].inode] = Artifact(w)
           /\ output'[r] \in {Absent, Artifact(w)}
           /\ \E k \in 0..Blocks : reading'[r].blocks = Written(w, k)
  PROVE  TakenFrom(r, inodes[reading[r].inode])'
BY DEF TakenFrom, Artifact, Written

(* A step that is no reader's, writes to no inode a reader has open and    *)
(* gives no new name to one.                                               *)
LEMMA ReadersKeep ==
  ASSUME PublishInv, UNCHANGED <<reading, output>>, Len(inodes') \in Nat,
         Len(inodes') >= Len(inodes),
         \A i \in 1..Len(inodes) :
           (\E r \in Readers : Holding(r) /\ reading[r].inode = i) =>
             /\ inodes'[i] = inodes[i]
             /\ \A n \in DOMAIN names' \ {Destination} :
                  names'[n] = i => n \in DOMAIN names /\ names[n] = i
  PROVE  ReadersSafe'
<1> SUFFICES ASSUME NEW r \in Readers
             PROVE  Waiting(r)' \/ Holding(r)'
  BY DEF ReadersSafe
<1>1. Len(inodes) \in Nat
  BY DEF PublishInv, FilesInv, FileTypes
<1>2. CASE Waiting(r)
  BY <1>2 DEF Waiting
<1>3. CASE Holding(r)
  <2>1. /\ reading[r].inode \in 1..Len(inodes)
        /\ inodes'[reading[r].inode] = inodes[reading[r].inode]
    BY <1>3 DEF Holding
  <2>2. /\ reading[r].inode \in 1..Len(inodes')
        /\ \A n \in DOMAIN names' \ {Destination} :
             names'[n] # reading[r].inode
    BY <1>1, <1>3, <2>1 DEF Holding, Destination
  <2>3. PICK w \in Writers, k \in 0..Blocks :
          /\ inodes[reading[r].inode] = Artifact(w)
          /\ output[r] \in {Absent, Artifact(w)}
          /\ reading[r].blocks = Written(w, k)
    BY <1>3 DEF Holding, TakenFrom
  <2>4. reading' = reading /\ output' = output
    OBVIOUS
  <2>5. /\ inodes'[reading'[r].inode] = Artifact(w)
        /\ output'[r] \in {Absent, Artifact(w)}
        /\ reading'[r].blocks = Written(w, k)
    BY <2>1, <2>3, <2>4
  <2>6. TakenFrom(r, inodes[reading[r].inode])'
    BY <2>5, StillTaken
  <2> QED
    BY <1>3, <2>2, <2>4, <2>6 DEF Holding, Destination
<1> QED
  BY <1>2, <1>3 DEF PublishInv, ReadersSafe

LEMMA ReadersUntouched ==
  ASSUME PublishInv, UNCHANGED <<names, inodes, reading, output>>
  PROVE  ReadersSafe'
<1>1. Len(inodes) \in Nat
  BY DEF PublishInv, FilesInv, FileTypes
<1> QED
  BY <1>1, ReadersKeep

(* A failure after the temporary was opened, whether or not it is removed. *)
LEMMA FailRemovingKeeps ==
  ASSUME PublishInv, RealProcessIds, NEW w \in Writers, Opened(w),
         FailRemoving(w),
         UNCHANGED <<inodes, temporary, handle, position, reading, output>>
  PROVE  FilesInv' /\ ReadersSafe' /\ Unseen
<1>1. \A v \in Writers : Opened(v)' => Opened(v) /\ v # w
  BY DEF FailRemoving, Moved, Opened, PublishInv, TemporaryInv
<1>2. /\ DOMAIN names' \subseteq DOMAIN names
      /\ \A n \in DOMAIN names' : names'[n] = names[n]
      /\ \A n \in DOMAIN names : n # temporary[w] => n \in DOMAIN names'
  BY DEF FailRemoving, Unlinked
<1>3. FileTypes' /\ NamesApart'
  BY <1>2 DEF PublishInv, FilesInv, FileTypes, NamesApart
<1>4. HandlesOwned'
  <2> SUFFICES ASSUME NEW v \in Writers, Opened(v)'
               PROVE  /\ temporary[v] \in DOMAIN names'
                      /\ names'[temporary[v]] = handle[v]
                      /\ inodes[handle[v]] = Written(v, position[v])
    BY DEF HandlesOwned, Written
  <2>1. temporary[v] # temporary[w]
    BY <1>1 DEF Opened, Active, PublishInv, TemporaryInv, NoSharedTemporary
  <2> QED
    BY <2>1, <1>1, <1>2 DEF PublishInv, FilesInv, HandlesOwned
<1>5. Progress'
  BY DEF FailRemoving, Moved, Progress, PublishInv, TemporaryInv, FilesInv
<1>6. DestinationWhole'
  BY <1>2 DEF PublishInv, FilesInv, DestinationWhole, Genuine, Artifact,
              Destination
<1>7. ReadersSafe'
  BY <1>2, ReadersKeep DEF PublishInv, ReadersSafe
<1>8. temporary[w] # Destination
  BY ActiveNames DEF Opened, Active, PublishInv
<1>9. Unseen
  BY <1>2, <1>8 DEF Unseen, Destination
<1> QED
  BY <1>3, <1>4, <1>5, <1>6, <1>7, <1>9 DEF FilesInv

(* The next block goes to the end of what the writer has written.          *)
LEMMA WriteAppends ==
  ASSUME NEW w \in Writers, NEW n \in Nat, n < Blocks
  PROVE  Overwritten(Written(w, n), n + 1, <<w, n + 1>>) = Written(w, n + 1)
<1>1. Len(Written(w, n)) = n
  BY DEF Written
<1>2. Max({n + 1, n}) = n + 1
  <2>1. \A x \in {n + 1, n} : (\A y \in {n + 1, n} : x >= y) <=> x = n + 1
    OBVIOUS
  <2> QED
    BY <2>1 DEF Max
<1>3. Filled(Written(w, n), n + 1) =
        [b \in 1..(n + 1) |-> IF b <= n THEN <<w, b>> ELSE <<0, 0>>]
  BY <1>1 DEF Filled, Written
<1>4. Overwritten(Written(w, n), n + 1, <<w, n + 1>>) =
        [Filled(Written(w, n), n + 1) EXCEPT ![n + 1] = <<w, n + 1>>]
  BY <1>1, <1>2 DEF Overwritten
<1> DEFINE file == Filled(Written(w, n), n + 1)
<1>5. [file EXCEPT ![n + 1] = <<w, n + 1>>] =
        [b \in 1..(n + 1) |-> IF b = n + 1 THEN <<w, n + 1>> ELSE file[b]]
  BY <1>3
<1>6. \A b \in 1..(n + 1) :
        (IF b = n + 1 THEN <<w, n + 1>> ELSE file[b]) = <<w, b>>
  BY <1>3
<1> HIDE DEF file
<1>7. [file EXCEPT ![n + 1] = <<w, n + 1>>] = Written(w, n + 1)
  BY <1>5, <1>6 DEF Written
<1> QED
  BY <1>4, <1>7 DEF file

LEMMA WrittenIsBlocks ==
  ASSUME NEW w \in Writers, NEW n \in Nat
  PROVE  Written(w, n) \in Seq(BlockValues) /\ Len(Written(w, n)) = n
BY DEF Written, BlockValues

LEMMA WriteBlockKeeps ==
  ASSUME PublishInv, RealProcessIds, NEW w \in Writers, WriteBlock(w)
  PROVE  FilesInv' /\ ReadersSafe' /\ Unseen
<1> DEFINE i == handle[w]
           n == position[w]
<1>1. Opened(w) /\ n \in Nat /\ n < Blocks /\ n + 1 \in 0..Blocks
  BY BlocksAssumption
  DEF WriteBlock, Opened, PublishInv, FilesInv, FileTypes
<1>2. /\ i \in 1..Len(inodes)
      /\ \A v \in Writers : Opened(v) /\ v # w => handle[v] # i
      /\ \A m \in DOMAIN names : m # temporary[w] => names[m] # i
      /\ \A r \in Readers : Holding(r) => reading[r].inode # i
  BY <1>1, HandleIsPrivate
<1>3. inodes[i] = Written(w, n)
  BY <1>1 DEF PublishInv, FilesInv, HandlesOwned
<1>4. inodes' = [inodes EXCEPT ![i] = Written(w, n + 1)]
  BY <1>1, <1>3, WriteAppends DEF WriteBlock
<1>5. /\ Len(inodes') = Len(inodes)
      /\ inodes' \in Seq(Seq(BlockValues))
      /\ \A j \in 1..Len(inodes) :
           inodes'[j] = IF j = i THEN Written(w, n + 1) ELSE inodes[j]
  <2>1. inodes \in Seq(Seq(BlockValues))
    BY DEF PublishInv, FilesInv, FileTypes
  <2>2. Written(w, n + 1) \in Seq(BlockValues)
    BY <1>1, WrittenIsBlocks
  <2> QED
    BY <1>2, <1>4, <2>1, <2>2, ExceptSeq
<1>6. /\ position' \in [Writers -> 0..Blocks]
      /\ \A v \in Writers : position'[v] = IF v = w THEN n + 1 ELSE position[v]
  BY <1>1 DEF WriteBlock, PublishInv, FilesInv, FileTypes
<1>7. FileTypes' /\ NamesApart'
  BY <1>5, <1>6 DEF WriteBlock, PublishInv, FilesInv, FileTypes, NamesApart,
                    BlockValues
<1>8. HandlesOwned'
  <2> SUFFICES ASSUME NEW v \in Writers, Opened(v)
               PROVE  /\ temporary[v] \in DOMAIN names
                      /\ names[temporary[v]] = handle[v]
                      /\ inodes'[handle[v]] = Written(v, position'[v])
    BY DEF HandlesOwned, WriteBlock, Opened, Written
  <2>1. /\ temporary[v] \in DOMAIN names
        /\ names[temporary[v]] = handle[v]
        /\ handle[v] \in 1..Len(inodes)
        /\ inodes[handle[v]] = Written(v, position[v])
    BY DEF PublishInv, FilesInv, HandlesOwned, NamesApart
  <2> QED
    BY <2>1, <1>2, <1>5, <1>6
<1>9. Progress'
  BY <1>6 DEF WriteBlock, PublishInv, FilesInv, Progress
<1>10. Destination \in DOMAIN names =>
         inodes'[names[Destination]] = inodes[names[Destination]]
  <2>1. Destination # temporary[w]
    BY <1>1, ActiveNames DEF PublishInv, Opened, Active
  <2>2. Destination \in DOMAIN names => names[Destination] \in 1..Len(inodes)
    BY DEF PublishInv, FilesInv, NamesApart
  <2> QED
    BY <2>1, <2>2, <1>2, <1>5
<1>11. DestinationWhole'
  BY <1>10 DEF WriteBlock, PublishInv, FilesInv, DestinationWhole, Genuine,
               Artifact, Destination
<1>12. ReadersSafe'
  <2>1. /\ UNCHANGED <<reading, output, names>>
        /\ Len(inodes') = Len(inodes) /\ Len(inodes) \in Nat
    BY <1>5 DEF WriteBlock, PublishInv, FilesInv, FileTypes
  <2>2. ASSUME NEW j \in 1..Len(inodes), NEW r \in Readers,
               Holding(r), reading[r].inode = j
        PROVE  inodes'[j] = inodes[j]
    BY <2>2, <1>2, <1>5
  <2> QED
    BY <2>1, <2>2, ReadersKeep
<1>13. Unseen
  BY <1>2, <1>5, <1>10 DEF Unseen, WriteBlock, Holding, Destination
<1> QED
  BY <1>7, <1>8, <1>9, <1>11, <1>12, <1>13 DEF FilesInv

(* Opening empties the inode the temporary's name leads to, which a crash  *)
(* has left behind, or makes a new one.                                    *)
LEMMA OpenTemporaryKeeps ==
  ASSUME PublishInv, RealProcessIds, NEW w \in Writers, OpenTemporary(w)
  PROVE  FilesInv' /\ ReadersSafe' /\ Unseen
<1> DEFINE t == temporary[w]
           old == t \in DOMAIN names
           i == IF old THEN names[t] ELSE Len(inodes) + 1
<1>1. /\ Active(w)
      /\ t # Destination
      /\ Len(inodes) \in Nat
      /\ inodes \in Seq(Seq(BlockValues))
  BY ActiveNames
  DEF OpenTemporary, Active, PublishInv, FilesInv, FileTypes
<1>2. /\ <<>> \in Seq(BlockValues)
      /\ Len(Written(w, 0)) = 0
      /\ Written(w, 0) = <<>>
  BY WrittenIsBlocks DEF Written
<1>3. /\ inodes' \in Seq(Seq(BlockValues))
      /\ Len(inodes') \in Nat
      /\ Len(inodes') >= Len(inodes)
      /\ i \in 1..Len(inodes')
      /\ inodes'[i] = <<>>
      /\ \A j \in 1..Len(inodes) : j # i => inodes'[j] = inodes[j]
  <2>1. CASE old
    <3>1. names[t] \in 1..Len(inodes)
      BY <2>1 DEF PublishInv, FilesInv, NamesApart
    <3>2. inodes' = [inodes EXCEPT ![i] = <<>>]
      BY <2>1 DEF OpenTemporary
    <3> QED
      BY <2>1, <1>1, <1>2, <3>1, <3>2, ExceptSeq
  <2>2. CASE ~ old
    <3>1. inodes' = Append(inodes, <<>>)
      BY <2>2 DEF OpenTemporary
    <3> QED
      BY <2>2, <1>1, <1>2, <3>1, AppendProperties
  <2> QED
    BY <2>1, <2>2
<1>4. /\ DOMAIN names' = DOMAIN names \cup {t}
      /\ \A n \in DOMAIN names' : names'[n] = IF n = t THEN i ELSE names[n]
  BY DEF OpenTemporary
<1>5. \A n \in DOMAIN names : /\ names[n] \in 1..Len(inodes)
                              /\ n # t => names[n] # i
  BY <1>1 DEF PublishInv, FilesInv, NamesApart
<1>6. \A v \in Writers : /\ handle'[v] = IF v = w THEN i ELSE handle[v]
                         /\ pc'[v] = IF v = w THEN "write" ELSE pc[v]
  BY DEF OpenTemporary, Moved, PublishInv, TemporaryInv, FilesInv, FileTypes
<1>7. FileTypes'
  <2>1. handle' = [handle EXCEPT ![w] = i]
    BY DEF OpenTemporary
  <2>2. handle \in [Writers -> 1..Len(inodes') \cup {Absent}]
    BY <1>1, <1>3 DEF PublishInv, FilesInv, FileTypes
  <2>3. handle' \in [Writers -> 1..Len(inodes') \cup {Absent}]
    BY <2>1, <2>2, <1>3
  <2>4. position' = position /\ position \in [Writers -> 0..Blocks]
    BY DEF OpenTemporary, PublishInv, FilesInv, FileTypes
  <2> QED
    BY <1>3, <2>3, <2>4 DEF FileTypes, BlockValues
<1>8. NamesApart'
  <2>1. \A n \in DOMAIN names' : names'[n] \in 1..Len(inodes')
    BY <1>1, <1>3, <1>4, <1>5
  <2>2. ASSUME NEW m \in DOMAIN names', NEW n \in DOMAIN names', m # n
        PROVE  names'[m] # names'[n]
    <3>1. CASE m = t \/ n = t
      BY <1>4, <1>5, <2>2, <3>1
    <3>2. CASE m # t /\ n # t
      BY <1>4, <2>2, <3>2 DEF PublishInv, FilesInv, NamesApart
    <3> QED
      BY <3>1, <3>2
  <2> QED
    BY <2>1, <2>2 DEF NamesApart
<1>9. HandlesOwned'
  <2> SUFFICES ASSUME NEW v \in Writers, Opened(v)'
               PROVE  /\ temporary[v] \in DOMAIN names'
                      /\ names'[temporary[v]] = handle'[v]
                      /\ inodes'[handle'[v]] = Written(v, position[v])
    BY DEF HandlesOwned, OpenTemporary, Written
  <2>1. CASE v = w
    BY <2>1, <1>2, <1>3, <1>4, <1>6
    DEF OpenTemporary, PublishInv, FilesInv, Progress
  <2>2. CASE v # w
    <3>1. Opened(v) /\ Active(v)
      BY <2>2, <1>6 DEF Opened, Active
    <3>2. temporary[v] # t
      BY <2>2, <3>1, <1>1 DEF PublishInv, TemporaryInv, NoSharedTemporary
    <3>3. /\ temporary[v] \in DOMAIN names
          /\ names[temporary[v]] = handle[v]
          /\ inodes[handle[v]] = Written(v, position[v])
      BY <3>1 DEF PublishInv, FilesInv, HandlesOwned
    <3> QED
      BY <2>2, <3>2, <3>3, <1>3, <1>4, <1>5, <1>6
  <2> QED
    BY <2>1, <2>2
<1>10. Progress'
  BY <1>6 DEF OpenTemporary, PublishInv, FilesInv, Progress
<1>11. /\ Destination \in DOMAIN names' <=> Destination \in DOMAIN names
       /\ Destination \in DOMAIN names =>
            /\ names'[Destination] = names[Destination]
            /\ inodes'[names[Destination]] = inodes[names[Destination]]
  BY <1>1, <1>3, <1>4, <1>5
<1>12. DestinationWhole'
  BY <1>11 DEF PublishInv, FilesInv, DestinationWhole, Genuine, Artifact,
               Destination
<1>13. ReadersSafe'
  <2>1. ASSUME NEW j \in 1..Len(inodes), NEW r \in Readers,
               Holding(r), reading[r].inode = j
        PROVE  /\ inodes'[j] = inodes[j]
               /\ \A n \in DOMAIN names' \ {Destination} :
                    names'[n] = j => n \in DOMAIN names /\ names[n] = j
    <3>1. j # i
      BY <2>1, <1>1 DEF Holding
    <3> QED
      BY <3>1, <1>3, <1>4
  <2> QED
    BY <2>1, <1>3, ReadersKeep DEF OpenTemporary
<1>14. \A r \in Readers : Holding(r) =>
         inodes'[reading[r].inode] = inodes[reading[r].inode]
  <2> SUFFICES ASSUME NEW r \in Readers, Holding(r)
               PROVE  inodes'[reading[r].inode] = inodes[reading[r].inode]
    OBVIOUS
  <2>1. reading[r].inode \in 1..Len(inodes) /\ reading[r].inode # i
    BY <1>1 DEF Holding
  <2> QED
    BY <2>1, <1>3
<1>15. Unseen
  BY <1>11, <1>14 DEF Unseen, OpenTemporary, Destination
<1> QED
  BY <1>7, <1>8, <1>9, <1>10, <1>12, <1>13, <1>15 DEF FilesInv

(* What a rename puts at the destination is all its writer has to write.   *)
LEMMA PublishKeeps ==
  ASSUME PublishInv, RealProcessIds, NEW w \in Writers, Publish(w)
  PROVE  /\ FilesInv' /\ ReadersSafe'
         /\ Destination \in DOMAIN names'
         /\ inodes'[names'[Destination]] = Artifact(w)
<1> DEFINE t == temporary[w]
<1>1. /\ Opened(w) /\ Active(w)
      /\ t # Destination
  BY ActiveNames DEF Publish, Opened, Active, PublishInv
<1>2. /\ t \in DOMAIN names
      /\ names[t] = handle[w]
      /\ handle[w] \in 1..Len(inodes)
      /\ \A v \in Writers : Opened(v) /\ v # w => handle[v] # handle[w]
      /\ \A r \in Readers : Holding(r) => reading[r].inode # handle[w]
  BY <1>1, HandleIsPrivate
<1>3. inodes[handle[w]] = Artifact(w)
  BY <1>1 DEF Publish, PublishInv, FilesInv, HandlesOwned, Progress, Written,
              Artifact
<1>4. /\ DOMAIN names' = (DOMAIN names \cup {Destination}) \ {t}
      /\ \A n \in DOMAIN names' :
           names'[n] = IF n = Destination THEN names[t] ELSE names[n]
  BY DEF Publish
<1>5. /\ Destination \in DOMAIN names'
      /\ inodes'[names'[Destination]] = Artifact(w)
  BY <1>1, <1>2, <1>3, <1>4 DEF Publish, Destination
<1>6. FileTypes'
  BY DEF Publish, PublishInv, FilesInv, FileTypes, BlockValues
<1>7. NamesApart'
  BY <1>1, <1>2, <1>4 DEF Publish, PublishInv, FilesInv, NamesApart
<1>8. \A v \in Writers : pc'[v] = IF v = w THEN "published" ELSE pc[v]
  BY DEF Publish, Moved, PublishInv, TemporaryInv
<1>9. HandlesOwned'
  <2> SUFFICES ASSUME NEW v \in Writers, Opened(v)'
               PROVE  /\ temporary[v] \in DOMAIN names'
                      /\ names'[temporary[v]] = handle[v]
                      /\ inodes[handle[v]] = Written(v, position[v])
    BY DEF HandlesOwned, Publish, Written
  <2>1. Opened(v) /\ Active(v) /\ v # w
    BY <1>8 DEF Opened, Active
  <2>2. temporary[v] # t /\ temporary[v] # Destination
    BY <2>1, <1>1, ActiveNames
    DEF PublishInv, TemporaryInv, NoSharedTemporary
  <2> QED
    BY <2>1, <2>2, <1>4 DEF PublishInv, FilesInv, HandlesOwned
<1>10. Progress'
  BY <1>8 DEF Publish, PublishInv, FilesInv, Progress
<1>11. DestinationWhole'
  BY <1>5 DEF DestinationWhole, Genuine, Artifact, Destination
<1>12. ReadersSafe'
  <2>1. ASSUME NEW j \in 1..Len(inodes), NEW r \in Readers,
               Holding(r), reading[r].inode = j
        PROVE  /\ inodes'[j] = inodes[j]
               /\ \A n \in DOMAIN names' \ {Destination} :
                    names'[n] = j => n \in DOMAIN names /\ names[n] = j
    BY <1>4 DEF Publish
  <2>2. Len(inodes') = Len(inodes) /\ Len(inodes) \in Nat
    BY DEF Publish, PublishInv, FilesInv, FileTypes
  <2> QED
    BY <2>1, <2>2, ReadersKeep DEF Publish
<1> QED
  BY <1>5, <1>6, <1>7, <1>9, <1>10, <1>11, <1>12 DEF FilesInv
-----------------------------------------------------------------------------
(* One reader's step leaves the others where they are.                     *)
LEMMA OtherReaders ==
  ASSUME PublishInv, NEW r \in Readers, UNCHANGED <<names, inodes>>,
         Waiting(r)' \/ Holding(r)',
         \A q \in Readers : q # r => /\ reading'[q] = reading[q]
                                     /\ output'[q] = output[q]
  PROVE  ReadersSafe'
<1> SUFFICES ASSUME NEW q \in Readers, q # r
             PROVE  Waiting(q)' \/ Holding(q)'
  BY DEF ReadersSafe
<1>1. CASE Waiting(q)
  BY <1>1 DEF Waiting
<1>2. CASE Holding(q)
  <2>1. PICK w \in Writers, k \in 0..Blocks :
          /\ inodes[reading[q].inode] = Artifact(w)
          /\ output[q] \in {Absent, Artifact(w)}
          /\ reading[q].blocks = Written(w, k)
    BY <1>2 DEF Holding, TakenFrom
  <2>2. /\ reading'[q] = reading[q] /\ output'[q] = output[q]
        /\ inodes' = inodes
    OBVIOUS
  <2>3. /\ inodes'[reading'[q].inode] = Artifact(w)
        /\ output'[q] \in {Absent, Artifact(w)}
        /\ reading'[q].blocks = Written(w, k)
    BY <2>1, <2>2
  <2>4. TakenFrom(q, inodes[reading[q].inode])'
    BY <2>3, StillTaken
  <2> QED
    BY <2>2, <2>4, <1>2 DEF Holding, Destination
<1> QED
  BY <1>1, <1>2 DEF PublishInv, ReadersSafe

LEMMA OpenDestinationKeeps ==
  ASSUME PublishInv, NEW r \in Readers, OpenDestination(r)
  PROVE  ReaderTypes' /\ ReadersSafe'
<1>1. /\ Waiting(r) /\ output' = output
      /\ UNCHANGED <<names, inodes>>
      /\ reading[r] \in Reading
  BY DEF OpenDestination, PublishInv, ReadersSafe, Holding, ReaderTypes
<1>2. CASE Destination \in DOMAIN names
  <2>1. reading' = [reading EXCEPT ![r] = [pc |-> "read",
                                           inode |-> names[Destination],
                                           blocks |-> <<>>]]
    BY <1>2 DEF OpenDestination
  <2>2. /\ names[Destination] \in 1..Len(inodes)
        /\ Len(inodes) \in Nat
        /\ \A n \in DOMAIN names \ {Destination} :
             names[n] # names[Destination]
    BY <1>2 DEF PublishInv, FilesInv, NamesApart, FileTypes
  <2>3. PICK w \in Writers : inodes[names[Destination]] = Artifact(w)
    BY <1>2 DEF PublishInv, FilesInv, DestinationWhole, Genuine
  <2>4. reading'[r] = [pc |-> "read", inode |-> names[Destination],
                       blocks |-> <<>>]
    BY <2>1 DEF PublishInv, ReaderTypes
  <2>5. <<>> \in Seq(BlockValues) /\ \E k \in 0..Blocks : <<>> = Written(w, k)
    <3>1. Written(w, 0) = <<>> /\ 0 \in 0..Blocks
      BY BlocksAssumption DEF Written
    <3> QED
      BY <3>1
  <2>6. TakenFrom(r, inodes[reading[r].inode])'
    <3>1. /\ reading'[r].inode = names[Destination]
          /\ reading'[r].blocks = <<>>
          /\ inodes'[names[Destination]] = Artifact(w)
          /\ output'[r] = Absent
      BY <2>3, <2>4, <1>1 DEF Waiting
    <3>2. PICK k \in 0..Blocks : <<>> = Written(w, k)
      BY <2>5
    <3> QED
      BY <3>1, <3>2 DEF TakenFrom, Artifact, Written
  <2>7. Holding(r)'
    BY <2>2, <2>4, <2>6, <1>1 DEF Holding, Destination
  <2>8. ReaderTypes'
    BY <2>1, <2>2, <2>5, <1>1
    DEF PublishInv, ReaderTypes, Reading, BlockValues
  <2>9. \A q \in Readers : q # r => reading'[q] = reading[q]
    BY <2>1 DEF PublishInv, ReaderTypes
  <2> QED
    BY <2>7, <2>8, <2>9, <1>1, OtherReaders
<1>3. CASE Destination \notin DOMAIN names
  <2>1. reading' = [reading EXCEPT ![r] = [@ EXCEPT !.pc = "failed"]]
    BY <1>3 DEF OpenDestination
  <2>2. /\ reading'[r].pc = "failed"
        /\ reading'[r].inode = reading[r].inode
        /\ ReaderTypes'
        /\ \A q \in Readers : q # r => reading'[q] = reading[q]
    BY <2>1, <1>1 DEF PublishInv, ReaderTypes, Reading, BlockValues
  <2>3. Waiting(r)'
    BY <2>2, <1>1 DEF Waiting
  <2> QED
    BY <2>2, <2>3, <1>1, OtherReaders
<1> QED
  BY <1>2, <1>3

(* A reader that has opened the file goes on in it.                        *)
Continues(r, label, blocks) ==
  /\ label # "start"
  /\ reading[r].pc \in {"read", "parse"}
  /\ reading' = [reading EXCEPT
                   ![r] = [@ EXCEPT !.pc = label, !.blocks = blocks]]
  /\ \A w \in Writers, k \in 0..Blocks :
       inodes[reading[r].inode] = Artifact(w)
         /\ reading[r].blocks = Written(w, k)
       => \E l \in 0..Blocks : blocks = Written(w, l)

Labels == {"read", "parse", "done", "failed"}

LEMMA GoesOn ==
  ASSUME PublishInv, NEW r \in Readers, UNCHANGED <<names, inodes, output>>,
         \E label \in Labels : \E blocks : Continues(r, label, blocks)
  PROVE  ReaderTypes' /\ ReadersSafe'
<1> PICK label \in Labels : \E blocks : Continues(r, label, blocks)
  OBVIOUS
<1> PICK blocks : Continues(r, label, blocks)
  OBVIOUS
<1> USE DEF Continues, Labels
<1>1. Holding(r) /\ reading[r] \in Reading
  BY DEF PublishInv, ReadersSafe, Waiting, ReaderTypes
<1>2. /\ reading'[r] = [reading[r] EXCEPT !.pc = label, !.blocks = blocks]
      /\ \A q \in Readers : q # r => reading'[q] = reading[q]
  <2>1. reading \in [Readers -> Reading]
    BY DEF PublishInv, ReaderTypes
  <2>2. reading' = [reading EXCEPT ![r] = [reading[r] EXCEPT !.pc = label,
                                                     !.blocks = blocks]]
    OBVIOUS
  <2> QED
    BY <2>1, <2>2
<1>3. /\ reading'[r].pc = label
      /\ reading'[r].inode = reading[r].inode
      /\ reading'[r].blocks = blocks
  <2>1. DOMAIN reading[r] = {"pc", "inode", "blocks"}
    BY <1>1 DEF Reading
  <2> HIDE DEF Continues, Labels
  <2> QED
    BY <1>2, <2>1
<1>4. PICK w \in Writers, l \in 0..Blocks :
        /\ inodes[reading[r].inode] = Artifact(w)
        /\ output[r] \in {Absent, Artifact(w)}
        /\ blocks = Written(w, l)
  BY <1>1 DEF Holding, TakenFrom
<1>5. blocks \in Seq(BlockValues)
  BY <1>4, WrittenIsBlocks, BlocksAssumption
<1>6. ReaderTypes'
  BY <1>1, <1>5 DEF PublishInv, ReaderTypes, Reading, BlockValues
<1>7. TakenFrom(r, inodes[reading[r].inode])'
  BY <1>3, <1>4 DEF TakenFrom, Artifact, Written
<1>8. Holding(r)'
  BY <1>1, <1>3, <1>7 DEF Holding, Destination
<1> QED
  BY <1>2, <1>6, <1>8, OtherReaders

LEMMA ReadBlockKeeps ==
  ASSUME PublishInv, NEW r \in Readers, ReadBlock(r)
  PROVE  ReaderTypes' /\ ReadersSafe'
<1> DEFINE blocks == reading[r].blocks
           next == Len(blocks) + 1
           file == inodes[reading[r].inode]
<1>1. reading[r] \in Reading /\ reading[r].pc = "read"
  BY DEF ReadBlock, PublishInv, ReaderTypes
<1>2. CASE next <= Len(file)
  <2>1. reading' = [reading EXCEPT
                      ![r] = [@ EXCEPT !.pc = "read",
                                       !.blocks = Append(blocks, file[next])]]
    BY <1>1, <1>2 DEF ReadBlock, PublishInv, ReaderTypes, Reading
  <2>2. ASSUME NEW w \in Writers, NEW k \in 0..Blocks,
               file = Artifact(w), blocks = Written(w, k)
        PROVE  \E l \in 0..Blocks : Append(blocks, file[next]) = Written(w, l)
    <3>1. Len(file) = Blocks /\ next = k + 1 /\ k \in Nat
      BY <2>2, BlocksAssumption DEF Artifact, Written
    <3>2. k + 1 \in 0..Blocks /\ file[next] = <<w, k + 1>>
      BY <2>2, <3>1, <1>2, BlocksAssumption DEF Artifact
    <3>3. Append(Written(w, k), <<w, k + 1>>) = Written(w, k + 1)
      BY <3>1 DEF Written
    <3> QED
      BY <2>2, <3>2, <3>3
  <2> HIDE DEF next, file
  <2>3. Continues(r, "read", Append(blocks, file[next]))
    BY <2>1, <2>2, <1>1 DEF Continues, file
  <2> QED
    BY <2>3, GoesOn DEF ReadBlock, Labels
<1>3. CASE ~ (next <= Len(file))
  <2>1. reading' = [reading EXCEPT
                      ![r] = [@ EXCEPT !.pc = "parse", !.blocks = blocks]]
    BY <1>1, <1>3 DEF ReadBlock, PublishInv, ReaderTypes, Reading
  <2>2. Continues(r, "parse", blocks)
    BY <2>1, <1>1 DEF Continues
  <2> QED
    BY <2>2, GoesOn DEF ReadBlock, Labels
<1> QED
  BY <1>2, <1>3

LEMMA ReadStopsKeeps ==
  ASSUME PublishInv, NEW r \in Readers, ReadStops(r)
  PROVE  ReaderTypes' /\ ReadersSafe'
<1>1. reading[r] \in Reading /\ reading[r].pc = "read"
  BY DEF ReadStops, PublishInv, ReaderTypes
<1>2. reading' = [reading EXCEPT ![r] = [@ EXCEPT !.pc = "parse",
                                           !.blocks = reading[r].blocks]]
  BY <1>1 DEF ReadStops, PublishInv, ReaderTypes, Reading
<1>3. Continues(r, "parse", reading[r].blocks)
  BY <1>1, <1>2 DEF Continues
<1> QED
  BY <1>3, GoesOn DEF ReadStops, Labels

(* Blocks that make a whole artifact are all of the one that was taken.    *)
LEMMA WholeIsTaken ==
  ASSUME NEW w \in Writers, NEW k \in 0..Blocks, Genuine(Written(w, k))
  PROVE  Written(w, k) = Artifact(w)
<1>1. PICK u \in Writers : Written(w, k) = Artifact(u)
  BY DEF Genuine
<1>2. Len(Written(w, k)) = k /\ Len(Artifact(u)) = Blocks
  BY BlocksAssumption DEF Written, Artifact
<1> QED
  BY <1>1, <1>2 DEF Written, Artifact

LEMMA ParseKeeps ==
  ASSUME PublishInv, NEW r \in Readers, Parse(r)
  PROVE  /\ ReaderTypes' /\ ReadersSafe'
         /\ Holding(r)
         /\ output' = output
            \/ output' = [output EXCEPT ![r] = inodes[reading[r].inode]]
<1> DEFINE blocks == reading[r].blocks
<1>1. /\ reading[r] \in Reading /\ reading[r].pc = "parse"
      /\ Holding(r)
      /\ UNCHANGED <<names, inodes>>
  BY DEF Parse, PublishInv, ReaderTypes, ReadersSafe, Waiting
<1>2. CASE ~ Genuine(blocks)
  <2>1. reading' = [reading EXCEPT ![r] = [@ EXCEPT !.pc = "failed",
                                             !.blocks = blocks]]
    BY <1>1, <1>2 DEF Parse, PublishInv, ReaderTypes, Reading
  <2>2. output' = output
    BY <1>2 DEF Parse
  <2>3. Continues(r, "failed", blocks)
    BY <2>1, <1>1 DEF Continues
  <2> QED
    BY <2>2, <2>3, <1>1, GoesOn DEF Labels
<1>3. CASE Genuine(blocks)
  <2>1. /\ reading' = [reading EXCEPT ![r].pc = "done"]
        /\ output' = [output EXCEPT ![r] = blocks]
    BY <1>3 DEF Parse
  <2>2. PICK w \in Writers, k \in 0..Blocks :
          /\ inodes[reading[r].inode] = Artifact(w)
          /\ blocks = Written(w, k)
    BY <1>1 DEF Holding, TakenFrom
  <2>3. blocks = Artifact(w)
    BY <1>3, <2>2, WholeIsTaken
  <2>4. /\ reading'[r].pc = "done"
        /\ reading'[r].inode = reading[r].inode
        /\ reading'[r].blocks = blocks
        /\ ReaderTypes'
        /\ output'[r] = blocks
        /\ \A q \in Readers : q # r => /\ reading'[q] = reading[q]
                                       /\ output'[q] = output[q]
    BY <2>1, <1>1 DEF PublishInv, ReaderTypes, Reading, BlockValues
  <2>5. TakenFrom(r, inodes[reading[r].inode])'
    <3>1. inodes'[reading'[r].inode] = Artifact(w)
      BY <2>2, <2>4, <1>1
    <3>2. output'[r] = Artifact(w) /\ reading'[r].blocks = Written(w, k)
      BY <2>2, <2>3, <2>4
    <3> QED
      BY <3>1, <3>2, StillTaken
  <2>6. Holding(r)'
    BY <2>4, <2>5, <1>1 DEF Holding, Destination
  <2>7. output' = [output EXCEPT ![r] = inodes[reading[r].inode]]
    BY <2>1, <2>2, <2>3
  <2> QED
    BY <2>4, <2>6, <2>7, <1>1, OtherReaders
<1> QED
  BY <1>2, <1>3
-----------------------------------------------------------------------------
(* What the abstract register sees of a state.                             *)
Value == IF Destination \in DOMAIN names
         THEN Held(inodes[names[Destination]]) ELSE Absent

Outcome == [w \in Writers |->
              IF pc[w] \in {"failed", "uncleaned", "crashed"} THEN "failed"
              ELSE IF pc[w] = "published" THEN "published" ELSE "none"]

Taken == [r \in Readers |-> IF reading[r].inode = Absent THEN Absent
                            ELSE Held(inodes[reading[r].inode])]

Delivered == [r \in Readers |-> IF output[r] = Absent THEN Absent
                                ELSE Held(output[r])]

(* The model value that stands for nothing is no number and no artifact.   *)
AbsentApart == /\ Absent \notin Nat
               /\ Absent \notin Writers
               /\ \A w \in Writers : Artifact(w) # Absent

LEMMA HeldIsWriter ==
  ASSUME NEW w \in Writers
  PROVE  Genuine(Artifact(w)) /\ Held(Artifact(w)) = w
<1>1. Genuine(Artifact(w))
  BY DEF Genuine
<1>2. 1 \in 1..Blocks
  BY BlocksAssumption
<1>3. Artifact(w)[1] = <<w, 1>>
  BY <1>2 DEF Artifact
<1> QED
  BY <1>1, <1>3 DEF Held

(* Steps that change no file a reader can come to see.                     *)
LEMMA UnseenKeepsView ==
  ASSUME PublishInv, Unseen
  PROVE  UNCHANGED <<Value, Taken, Delivered>>
<1>1. Value' = Value
  BY DEF Unseen, Value, Held, Genuine, Artifact, Destination
<1>2. Delivered' = Delivered
  BY DEF Unseen, Delivered, Held, Genuine, Artifact
<1>3. ASSUME NEW r \in Readers
      PROVE  (IF reading[r].inode = Absent THEN Absent
              ELSE Held(inodes[reading[r].inode]))' =
             (IF reading[r].inode = Absent THEN Absent
              ELSE Held(inodes[reading[r].inode]))
  <2>1. CASE Holding(r)
    BY <2>1 DEF Unseen, Held, Genuine, Artifact
  <2>2. CASE Waiting(r)
    BY <2>2 DEF Unseen, Waiting
  <2> QED
    BY <2>1, <2>2 DEF PublishInv, ReadersSafe
<1>4. Taken' = Taken
  BY <1>3 DEF Taken
<1> QED
  BY <1>1, <1>2, <1>4

Quiet == {"start", "open", "write", "rename"}

(* A writer that has not ended and does not end is not seen to move.       *)
LEMMA QuietWriter ==
  ASSUME PublishInv, Unseen, NEW w \in Writers, pc[w] \in Quiet,
         \A v \in Writers : pc'[v] = IF v = w THEN pc'[w] ELSE pc[v],
         pc'[w] \in Quiet
  PROVE  UNCHANGED <<Value, Outcome, Taken, Delivered>>
<1>1. Outcome' = Outcome
  BY DEF Outcome, Quiet
<1> QED
  BY <1>1, UnseenKeepsView

(* One writer fails, or those of a process die.                            *)
LEMMA FailedWriters ==
  ASSUME PublishInv, Unseen, NEW S \in SUBSET Writers,
         \A w \in S : /\ pc[w] \in Quiet
                      /\ pc'[w] \in {"failed", "uncleaned", "crashed"},
         \A w \in Writers \ S : pc'[w] = pc[w]
  PROVE  Register!GiveUp(S)
<1>1. \A w \in S : Outcome[w] = "none"
  BY DEF Outcome, Quiet
<1>2. Outcome' = [w \in Writers |-> IF w \in S THEN "failed" ELSE Outcome[w]]
  BY DEF Outcome
<1>3. UNCHANGED <<Value, Taken, Delivered>>
  BY UnseenKeepsView
<1> QED
  BY <1>1, <1>2, <1>3
  DEF Register!GiveUp, Value, Outcome, Taken, Delivered

(* A step of a writer that opens, writes and removes nothing.              *)
LEMMA IdleStep ==
  ASSUME PublishInv, NEW w \in Writers, NEW label, Moved(w, label),
         UNCHANGED <<names, inodes, handle, position, reading, output>>,
         label \in {"open", "rename", "failed"},
         label = "open" => pc[w] = "start",
         label = "rename" => pc[w] = "write" /\ position[w] = Blocks,
         \A v \in Writers : v # w \/ label = "rename" =>
           temporary'[v] = temporary[v]
  PROVE  FilesInv' /\ ReaderTypes' /\ ReadersSafe' /\ Unseen
<1>1. \A v \in Writers : pc'[v] = IF v = w THEN label ELSE pc[v]
  BY DEF Moved, PublishInv, TemporaryInv
<1>2. \A v \in Writers : Opened(v)' => Opened(v)
                                       /\ temporary'[v] = temporary[v]
  BY <1>1 DEF Opened
<1>3. Progress'
  BY <1>1 DEF PublishInv, FilesInv, Progress
<1>4. FilesInv'
  BY <1>2, <1>3, NoFileTouched
<1>5. ReaderTypes' /\ ReadersSafe'
  BY ReadersUntouched DEF PublishInv, ReaderTypes, Reading, BlockValues
<1>6. Unseen
  BY DEF Unseen, Destination
<1> QED
  BY <1>4, <1>5, <1>6

(* Every step of a writer keeps the invariant; the register sees a rename  *)
(* as its one change of value, a failure as giving up, the rest not at all.*)
LEMMA WriterImplements ==
  ASSUME PublishInv, RealProcessIds, NEW w \in Writers, Write(w)
  PROVE  /\ FilesInv' /\ ReaderTypes' /\ ReadersSafe'
         /\ \/ Register!Publish(w)
            \/ Register!GiveUp({w})
            \/ UNCHANGED <<Value, Outcome, Taken, Delivered>>
<1>1. \A label : Moved(w, label) =>
        \A v \in Writers : pc'[v] = IF v = w THEN label ELSE pc[v]
  BY DEF Moved, PublishInv, TemporaryInv
<1>2. UNCHANGED reading /\ UNCHANGED output => ReaderTypes'
  BY DEF PublishInv, ReaderTypes, Reading, BlockValues
<1>3. CASE RefuseToSerialize(w) \/ OpenFails(w)
  <2>1. Moved(w, "failed") /\ pc[w] \in Quiet
    BY <1>3 DEF RefuseToSerialize, OpenFails, Quiet
  <2>2. FilesInv' /\ ReaderTypes' /\ ReadersSafe' /\ Unseen
    BY <1>3, <2>1, IdleStep DEF RefuseToSerialize, OpenFails
  <2>3. Register!GiveUp({w})
    BY <1>1, <2>1, <2>2, FailedWriters
  <2> QED
    BY <2>2, <2>3
<1>4. CASE MakeName(w)
  <2>1. Moved(w, "open") /\ pc[w] = "start"
    BY <1>4 DEF MakeName
  <2>2. FilesInv' /\ ReaderTypes' /\ ReadersSafe' /\ Unseen
    BY <1>4, <2>1, IdleStep DEF MakeName, PublishInv, TemporaryInv
  <2> QED
    BY <1>1, <2>1, <2>2, QuietWriter DEF Quiet
<1>5. CASE OpenTemporary(w)
  <2>1. Moved(w, "write") /\ pc[w] = "open"
    BY <1>5 DEF OpenTemporary
  <2>2. FilesInv' /\ ReadersSafe' /\ Unseen
    BY <1>5, OpenTemporaryKeeps
  <2> QED
    BY <1>1, <1>2, <2>1, <2>2, QuietWriter DEF Quiet, Unseen
<1>6. CASE WriteBlock(w)
  <2>1. pc' = pc /\ pc[w] = "write"
    BY <1>6 DEF WriteBlock
  <2>2. FilesInv' /\ ReadersSafe' /\ Unseen
    BY <1>6, WriteBlockKeeps
  <2> QED
    BY <1>2, <2>1, <2>2, QuietWriter DEF Quiet, Unseen
<1>7. CASE WriteFails(w) \/ PublishFails(w)
  <2>1. /\ Moved(w, "failed") \/ Moved(w, "uncleaned")
        /\ pc[w] \in Quiet /\ Opened(w)
    BY <1>7 DEF WriteFails, PublishFails, FailRemoving, Quiet, Opened
  <2>2. FilesInv' /\ ReadersSafe' /\ Unseen
    BY <1>7, <2>1, FailRemovingKeeps DEF WriteFails, PublishFails
  <2>3. Register!GiveUp({w})
    BY <1>1, <2>1, <2>2, FailedWriters
  <2> QED
    BY <1>2, <2>2, <2>3 DEF Unseen
<1>8. CASE FlushAndClose(w)
  <2>1. Moved(w, "rename") /\ pc[w] = "write"
    BY <1>8 DEF FlushAndClose
  <2>2. FilesInv' /\ ReaderTypes' /\ ReadersSafe' /\ Unseen
    BY <1>8, <2>1, IdleStep DEF FlushAndClose
  <2> QED
    BY <1>1, <2>1, <2>2, QuietWriter DEF Quiet
<1>9. CASE Publish(w)
  <2>1. /\ FilesInv' /\ ReadersSafe'
        /\ Destination \in DOMAIN names'
        /\ inodes'[names'[Destination]] = Artifact(w)
    BY <1>9, PublishKeeps
  <2>2. Value' = w
    BY <2>1, HeldIsWriter DEF Value, Held, Genuine, Artifact, Destination
  <2>3. Outcome[w] = "none"
    BY <1>9 DEF Publish, Outcome
  <2>4. Outcome' = [Outcome EXCEPT ![w] = "published"]
    BY <1>1, <1>9 DEF Publish, Outcome
  <2>5. UNCHANGED <<Taken, Delivered>>
    BY <1>9 DEF Publish, Taken, Delivered, Held, Genuine, Artifact
  <2>6. Register!Publish(w)
    BY <2>2, <2>3, <2>4, <2>5
    DEF Register!Publish, Value, Outcome, Taken, Delivered
  <2> QED
    BY <1>2, <1>9, <2>1, <2>6 DEF Publish
<1> QED
  BY <1>3, <1>4, <1>5, <1>6, <1>7, <1>8, <1>9 DEF Write

LEMMA CrashImplements ==
  ASSUME PublishInv, NEW p \in Processes, Crash(p)
  PROVE  /\ FilesInv' /\ ReaderTypes' /\ ReadersSafe'
         /\ \E S \in SUBSET Writers : Register!GiveUp(S)
<1> PICK S \in SUBSET Writers :
      S = {w \in Writers : ProcessOf[w] = p /\ Active(w)}
  OBVIOUS
<1>1. \A w \in Writers : pc'[w] = IF w \in S THEN "crashed" ELSE pc[w]
  BY DEF Crash
<1>2. Progress'
  BY <1>1 DEF Crash, PublishInv, FilesInv, Progress
<1>3. FilesInv'
  BY <1>1, <1>2, NoFileTouched DEF Crash, Opened
<1>4. ReaderTypes' /\ ReadersSafe'
  BY ReadersUntouched
  DEF Crash, PublishInv, ReaderTypes, Reading, BlockValues
<1>5. Unseen
  BY DEF Crash, Unseen, Destination
<1>6. \A w \in S : pc[w] \in Quiet /\ pc'[w] = "crashed"
  BY <1>1 DEF Active, Quiet
<1>7. Register!GiveUp(S)
  BY <1>1, <1>5, <1>6, FailedWriters
<1> QED
  BY <1>3, <1>4, <1>7

(* A reader opening the file takes what is at the destination; one that    *)
(* has parsed it delivers what it took, whatever is there by then.         *)
LEMMA ReaderImplements ==
  ASSUME PublishInv, AbsentApart, NEW r \in Readers, Read(r)
  PROVE  /\ FilesInv' /\ ReaderTypes' /\ ReadersSafe'
         /\ \/ Register!Take(r)
            \/ Register!Deliver(r)
            \/ UNCHANGED <<Value, Outcome, Taken, Delivered>>
<1>1. UNCHANGED <<names, inodes, pc, temporary, handle, position>>
  BY DEF Read, OpenDestination, ReadBlock, ReadStops, Parse
<1>2. FilesInv'
  BY <1>1, NoFileTouched DEF Opened, PublishInv, FilesInv, Progress
<1>3. UNCHANGED <<Value, Outcome>>
  BY <1>1 DEF Value, Outcome, Held, Genuine, Artifact, Destination
<1>4. /\ reading \in [Readers -> Reading]
      /\ DOMAIN output = Readers
      /\ Len(inodes) \in Nat
  BY DEF PublishInv, ReaderTypes, FilesInv, FileTypes
<1>5. ASSUME UNCHANGED output,
             \A q \in Readers : reading'[q].inode = reading[q].inode
      PROVE  UNCHANGED <<Value, Outcome, Taken, Delivered>>
  BY <1>1, <1>3, <1>5 DEF Taken, Delivered, Held, Genuine, Artifact
<1>6. CASE OpenDestination(r) /\ Destination \in DOMAIN names
  <2>1. /\ Waiting(r)
        /\ reading' = [reading EXCEPT ![r] = [pc |-> "read",
                                             inode |-> names[Destination],
                                             blocks |-> <<>>]]
        /\ output' = output
    BY <1>6 DEF OpenDestination, PublishInv, ReadersSafe, Holding
  <2>2. PICK w \in Writers : inodes[names[Destination]] = Artifact(w)
    BY <1>6 DEF PublishInv, FilesInv, DestinationWhole, Genuine
  <2>3. Value = w /\ Value # Absent
    BY <1>6, <2>2, HeldIsWriter DEF Value, AbsentApart
  <2>4. names[Destination] # Absent
    BY <1>4, <1>6 DEF AbsentApart, PublishInv, FilesInv, NamesApart
  <2>5. Taken[r] = Absent
    BY <2>1 DEF Taken, Waiting
  <2>6. Taken' = [Taken EXCEPT ![r] = Value]
    <3>1. Value = Held(inodes[names[Destination]])
      BY <1>6 DEF Value
    <3>2. Taken' = [q \in Readers |->
                      IF reading'[q].inode = Absent THEN Absent
                      ELSE Held(inodes[reading'[q].inode])]
      BY <1>1 DEF Taken, Held, Genuine, Artifact
    <3>3. /\ reading'[r].inode = names[Destination]
          /\ \A q \in Readers : q # r => reading'[q] = reading[q]
      BY <2>1, <1>4
    <3> QED
      BY <3>1, <3>2, <3>3, <2>4 DEF Taken
  <2>7. Delivered' = Delivered
    BY <2>1 DEF Delivered, Held, Genuine, Artifact
  <2>8. Register!Take(r)
    BY <1>3, <2>3, <2>5, <2>6, <2>7
    DEF Register!Take, Value, Outcome, Taken, Delivered
  <2> QED
    BY <1>2, <1>6, <2>8, OpenDestinationKeeps
<1>7. CASE OpenDestination(r) /\ Destination \notin DOMAIN names
  <2>1. /\ reading' = [reading EXCEPT ![r] = [@ EXCEPT !.pc = "failed"]]
        /\ output' = output
    BY <1>7 DEF OpenDestination
  <2>2. \A q \in Readers : reading'[q].inode = reading[q].inode
    BY <2>1, <1>4 DEF Reading
  <2> QED
    BY <1>2, <1>5, <1>7, <2>1, <2>2, OpenDestinationKeeps
<1>8. CASE ReadBlock(r) \/ ReadStops(r)
  <2>1. output' = output
    BY <1>8 DEF ReadBlock, ReadStops
  <2>2. \A q \in Readers : reading'[q].inode = reading[q].inode
    <3>1. CASE ReadStops(r)
      BY <3>1, <1>4 DEF ReadStops, Reading
    <3>2. CASE ReadBlock(r)
      <4> DEFINE next == Len(reading[r].blocks) + 1
                 file == inodes[reading[r].inode]
      <4>1. CASE next <= Len(file)
        <5>1. reading' = [reading EXCEPT
                            ![r] = [@ EXCEPT !.blocks =
                                      Append(reading[r].blocks, file[next])]]
          BY <3>2, <4>1 DEF ReadBlock
        <5> QED
          BY <5>1, <1>4 DEF Reading
      <4>2. CASE ~ (next <= Len(file))
        <5>1. reading' = [reading EXCEPT ![r] = [@ EXCEPT !.pc = "parse"]]
          BY <3>2, <4>2 DEF ReadBlock
        <5> QED
          BY <5>1, <1>4 DEF Reading
      <4> QED
        BY <4>1, <4>2
    <3> QED
      BY <1>8, <3>1, <3>2
  <2> QED
    BY <1>2, <1>5, <1>8, <2>1, <2>2, ReadBlockKeeps, ReadStopsKeeps
<1>9. CASE Parse(r)
  <2>1. /\ ReaderTypes' /\ ReadersSafe' /\ Holding(r)
        /\ output' = output
           \/ output' = [output EXCEPT ![r] = inodes[reading[r].inode]]
    BY <1>9, ParseKeeps
  <2>2. \A q \in Readers : reading'[q].inode = reading[q].inode
    <3>1. CASE Genuine(reading[r].blocks)
      <4>1. reading' = [reading EXCEPT ![r].pc = "done"]
        BY <1>9, <3>1 DEF Parse
      <4> QED
        BY <4>1, <1>4 DEF Reading
    <3>2. CASE ~ Genuine(reading[r].blocks)
      <4>1. reading' = [reading EXCEPT ![r].pc = "failed"]
        BY <1>9, <3>2 DEF Parse
      <4> QED
        BY <4>1, <1>4 DEF Reading
    <3> QED
      BY <3>1, <3>2
  <2>3. CASE output' = output
    BY <1>2, <1>5, <2>1, <2>2, <2>3
  <2>4. CASE output' = [output EXCEPT ![r] = inodes[reading[r].inode]]
    <3>1. PICK w \in Writers : inodes[reading[r].inode] = Artifact(w)
      BY <2>1 DEF Holding, TakenFrom
    <3>2. reading[r].inode # Absent
      BY <2>1, <1>4 DEF Holding, AbsentApart
    <3>3. Taken[r] = w /\ Taken[r] # Absent
      BY <3>1, <3>2, HeldIsWriter DEF Taken, AbsentApart
    <3>4. Taken' = Taken
      BY <1>1, <2>2 DEF Taken, Held, Genuine, Artifact
    <3>5. Delivered' = [q \in Readers |-> IF output'[q] = Absent THEN Absent
                                          ELSE Held(output'[q])]
      BY DEF Delivered, Held, Genuine, Artifact
    <3>6. /\ output'[r] = Artifact(w)
          /\ \A q \in Readers : q # r => output'[q] = output[q]
      BY <2>4, <3>1, <1>4
    <3>7. Delivered' = [Delivered EXCEPT ![r] = w]
      BY <3>5, <3>6, HeldIsWriter DEF Delivered, AbsentApart
    <3>8. Register!Deliver(r)
      BY <1>3, <3>3, <3>4, <3>7
      DEF Register!Deliver, Value, Outcome, Taken, Delivered
    <3> QED
      BY <1>2, <2>1, <3>8
  <2> QED
    BY <2>1, <2>3, <2>4
<1> QED
  BY <1>6, <1>7, <1>8, <1>9 DEF Read

LEMMA StepImplements ==
  ASSUME PublishInv, RealProcessIds, AbsentApart, [Next]_vars
  PROVE  /\ PublishInv'
         /\ Register!RegisterNext
            \/ UNCHANGED <<Value, Outcome, Taken, Delivered>>
<1> DistinctProcessIds
  BY DEF RealProcessIds
<1>1. ASSUME NEW w \in Writers, Write(w)
      PROVE  /\ PublishInv'
             /\ Register!RegisterNext
                \/ UNCHANGED <<Value, Outcome, Taken, Delivered>>
  <2>1. TemporaryInv'
    BY <1>1, WriteKeeps DEF PublishInv
  <2> QED
    BY <1>1, <2>1, WriterImplements DEF PublishInv, Register!RegisterNext
<1>2. ASSUME NEW r \in Readers, Read(r)
      PROVE  /\ PublishInv'
             /\ Register!RegisterNext
                \/ UNCHANGED <<Value, Outcome, Taken, Delivered>>
  <2>1. TemporaryInv'
    BY <1>2, ReadKeeps DEF PublishInv
  <2> QED
    BY <1>2, <2>1, ReaderImplements DEF PublishInv, Register!RegisterNext
<1>3. ASSUME NEW p \in Processes, Crash(p)
      PROVE  PublishInv' /\ Register!RegisterNext
  <2>1. TemporaryInv'
    BY <1>3, CrashKeeps DEF PublishInv
  <2> QED
    BY <1>3, <2>1, CrashImplements DEF PublishInv, Register!RegisterNext
<1>4. CASE UNCHANGED vars
  <2>1. TemporaryInv'
    BY <1>4, SameWriters DEF vars, PublishInv
  <2>2. FilesInv'
    BY <1>4, NoFileTouched DEF vars, Opened, PublishInv, FilesInv, Progress
  <2>3. ReaderTypes' /\ ReadersSafe'
    BY <1>4, ReadersUntouched
    DEF vars, PublishInv, ReaderTypes, Reading, BlockValues
  <2>4. Unseen
    BY <1>4 DEF vars, Unseen, Destination
  <2>5. Outcome' = Outcome
    BY <1>4 DEF vars, Outcome
  <2> QED
    BY <2>1, <2>2, <2>3, <2>4, <2>5, UnseenKeepsView DEF PublishInv
<1> QED
  BY <1>1, <1>2, <1>3, <1>4 DEF Next

LEMMA InitImplements ==
  ASSUME Init
  PROVE  PublishInv /\ Register!RegisterInit
<1>1. TemporaryInv
  BY DEF Init, TemporaryInv, Numbered, NoSharedTemporary, Active
<1>2. DOMAIN names = {} /\ Len(inodes) = 0 /\ inodes \in Seq(Seq(BlockValues))
  BY DEF Init
<1>3. FilesInv
  BY <1>2, BlocksAssumption
  DEF Init, FilesInv, FileTypes, NamesApart, HandlesOwned, Opened, Progress,
      DestinationWhole
<1>4. ReaderTypes /\ ReadersSafe
  BY DEF Init, ReaderTypes, Reading, ReadersSafe, Waiting
<1>5. Register!RegisterInit
  BY <1>2 DEF Init, Register!RegisterInit
<1> QED
  BY <1>1, <1>3, <1>4, <1>5 DEF PublishInv

(* The destination holds a whole artifact at every moment: whatever write  *)
(* fails, whoever dies and however many write at once.                     *)
THEOREM DestinationAlwaysWhole ==
  ASSUME RealProcessIds, AbsentApart
  PROVE  Spec => []DestinationWhole
<1>1. Init => PublishInv
  BY InitImplements
<1>2. PublishInv /\ [Next]_vars => PublishInv'
  BY StepImplements
<1>3. PublishInv => DestinationWhole
  BY DEF PublishInv, FilesInv
<1> QED
  BY <1>1, <1>2, <1>3, PTL DEF Spec

(* write_artifact and read_artifact implement an atomic register of whole  *)
(* artifacts.                                                              *)
THEOREM PublishingImplementsRegister ==
  ASSUME RealProcessIds, AbsentApart
  PROVE  Spec => ImplementsRegister
<1>1. Init => PublishInv /\ Register!RegisterInit
  BY InitImplements
<1>2. PublishInv /\ [Next]_vars => PublishInv'
  BY StepImplements
<1>3. PublishInv /\ [Next]_vars =>
        [Register!RegisterNext]_(Register!registerVars)
  BY StepImplements
  DEF Register!registerVars, Value, Outcome, Taken, Delivered
<1> QED
  BY <1>1, <1>2, <1>3, PTL DEF Spec, ImplementsRegister, Register!RegisterSpec

(* A temporary that no call is using was left by a crash or by a removal   *)
(* that failed, whatever the pids are.                                     *)
LeftoversAccounted == \A n \in DOMAIN names \ {Destination} : Accounted(n)

WritersKnown == DOMAIN pc = Writers /\ DOMAIN temporary = Writers

(* A step that gives no new name and moves no writer to where its          *)
(* temporary would have to be gone.                                        *)
LEMMA SameLeftovers ==
  ASSUME LeftoversAccounted, DOMAIN names' \subseteq DOMAIN names,
         \A w \in Writers :
           pc[w] \in {"write", "rename", "crashed", "uncleaned"} =>
             /\ temporary'[w] = temporary[w]
             /\ \/ pc'[w] \in {"write", "rename", "crashed", "uncleaned"}
                \/ temporary[w] \notin DOMAIN names'
  PROVE  LeftoversAccounted'
BY DEF LeftoversAccounted, Accounted, Destination

LEMMA WriteAccounts ==
  ASSUME LeftoversAccounted, WritersKnown, NEW w \in Writers, Write(w)
  PROVE  LeftoversAccounted' /\ WritersKnown'
<1>1. CASE RefuseToSerialize(w) \/ OpenFails(w) \/ WriteBlock(w)
             \/ FlushAndClose(w) \/ MakeName(w)
  BY <1>1, SameLeftovers
  DEF RefuseToSerialize, OpenFails, WriteBlock, FlushAndClose, MakeName, Moved,
      WritersKnown
<1>2. CASE OpenTemporary(w)
  <2>1. DOMAIN names' \subseteq DOMAIN names \cup {temporary[w]}
    BY <1>2 DEF OpenTemporary
  <2> QED
    BY <1>2, <2>1 DEF OpenTemporary, Moved, LeftoversAccounted, Accounted,
                      WritersKnown, Destination
<1>3. CASE WriteFails(w) \/ PublishFails(w)
  <2>1. FailRemoving(w) /\ temporary' = temporary
    BY <1>3 DEF WriteFails, PublishFails
  <2>2. /\ DOMAIN names' \subseteq DOMAIN names
        /\ pc'[w] = "uncleaned" \/ temporary[w] \notin DOMAIN names'
        /\ \A v \in Writers \ {w} : pc'[v] = pc[v]
        /\ WritersKnown'
    BY <2>1 DEF FailRemoving, Unlinked, Moved, WritersKnown
  <2> QED
    BY <2>1, <2>2, SameLeftovers
<1>4. CASE Publish(w)
  BY <1>4 DEF Publish, Moved, LeftoversAccounted, Accounted, WritersKnown,
              Destination
<1> QED
  BY <1>1, <1>2, <1>3, <1>4 DEF Write

LEMMA NextAccounts ==
  LeftoversAccounted /\ WritersKnown /\ [Next]_vars =>
    LeftoversAccounted' /\ WritersKnown'
<1> SUFFICES ASSUME LeftoversAccounted, WritersKnown, [Next]_vars
             PROVE  LeftoversAccounted' /\ WritersKnown'
  OBVIOUS
<1>1. ASSUME NEW w \in Writers, Write(w)
      PROVE  LeftoversAccounted' /\ WritersKnown'
  BY <1>1, WriteAccounts
<1>2. ASSUME NEW r \in Readers, Read(r)
      PROVE  LeftoversAccounted' /\ WritersKnown'
  BY <1>2, SameLeftovers
  DEF Read, OpenDestination, ReadBlock, ReadStops, Parse, WritersKnown
<1>3. ASSUME NEW p \in Processes, Crash(p)
      PROVE  LeftoversAccounted' /\ WritersKnown'
  BY <1>3, SameLeftovers DEF Crash, Active, WritersKnown
<1>4. CASE UNCHANGED vars
  BY <1>4, SameLeftovers DEF vars, WritersKnown
<1> QED
  BY <1>1, <1>2, <1>3, <1>4 DEF Next

(* What write_artifact leaves beside the destination, by a crash or by a   *)
(* removal that failed, is a file of its own that was never published.     *)
THEOREM LeftoversStayApart ==
  ASSUME RealProcessIds, AbsentApart
  PROVE  Spec => []LeftoversApart
<1>1. Init => PublishInv /\ LeftoversAccounted /\ WritersKnown
  <2>1. Init => LeftoversAccounted /\ WritersKnown
    BY DEF Init, LeftoversAccounted, WritersKnown
  <2> QED
    BY <2>1, InitImplements
<1>2. PublishInv /\ LeftoversAccounted /\ WritersKnown /\ [Next]_vars =>
        PublishInv' /\ LeftoversAccounted' /\ WritersKnown'
  BY StepImplements, NextAccounts
<1>3. PublishInv /\ LeftoversAccounted => LeftoversApart
  <2> SUFFICES ASSUME PublishInv, LeftoversAccounted,
                      NEW n \in DOMAIN names \ {Destination}
               PROVE  /\ Accounted(n)
                      /\ \A m \in DOMAIN names \ {n} : names[m] # names[n]
                      /\ \A r \in Readers : reading[r].inode # names[n]
    BY DEF LeftoversApart
  <2>1. Accounted(n)
    BY DEF LeftoversAccounted
  <2>2. \A m \in DOMAIN names \ {n} : names[m] # names[n]
    BY DEF PublishInv, FilesInv, NamesApart
  <2>3. names[n] # Absent
    <3>1. names[n] \in 1..Len(inodes) /\ Len(inodes) \in Nat
      BY DEF PublishInv, FilesInv, FileTypes, NamesApart
    <3> QED
      BY <3>1 DEF AbsentApart
  <2>4. \A r \in Readers : reading[r].inode # names[n]
    BY <2>3 DEF PublishInv, ReadersSafe, Waiting, Holding
  <2> QED
    BY <2>1, <2>2, <2>4
<1> QED
  BY <1>1, <1>2, <1>3, PTL DEF Spec
=============================================================================
