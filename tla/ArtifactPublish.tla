-------------------------- MODULE ArtifactPublish --------------------------
(***************************************************************************)
(* write_artifact and read_artifact (lib/Compiler/Artifact.cpp) on one     *)
(* destination path: several threads of several processes write and read   *)
(* it while processes crash and the file system fails.                     *)
(*                                                                         *)
(* A file is an inode that holds a sequence of blocks; an artifact is the  *)
(* Blocks blocks of its writer.  A name leads to an inode, and an open     *)
(* file keeps its inode when the name moves.                               *)
(***************************************************************************)
EXTENDS Integers, Sequences, FiniteSetsExt

CONSTANTS
  Writers,   (* the calls of write_artifact, a set of naturals             *)
  Readers,   (* the calls of read_artifact                                 *)
  ProcessOf, (* the process a writer runs in                               *)
  PidOf,     (* getpid() of each process                                   *)
  Blocks,    (* blocks of a serialized artifact                            *)
  Absent     (* no artifact, no inode                                      *)

ASSUME BlocksAssumption == Blocks \in Nat \ {0}

Processes == {ProcessOf[w] : w \in Writers}

VARIABLES
  names,    (* directory: inode of each name that exists                   *)
  inodes,   (* blocks of each inode ever created                           *)
  pc,       (* where each writer is                                        *)
  temporary,(* the temporary name each writer has made up                  *)
  handle,   (* the inode each writer has open                              *)
  position, (* blocks each writer has written                              *)
  sequence, (* the in-process counter of unique_temporary_path             *)
  reading,  (* [pc, inode, blocks] of each reader                          *)
  output    (* what the caller of each reader got                          *)

vars == <<names, inodes, pc, temporary, handle, position, sequence, reading,
          output>>

Destination == <<0, 0>>

Artifact(w) == [b \in 1..Blocks |-> <<w, b>>]

(* The writer is between choosing its temporary and its last step.         *)
Active(w) == pc[w] \in {"open", "write", "rename"}

Moved(w, label) == pc' = [pc EXCEPT ![w] = label]
Unlinked(name) == [n \in DOMAIN names \ {name} |-> names[n]]
-----------------------------------------------------------------------------
(* serialize_artifact refuses, before any file is touched.                 *)
RefuseToSerialize(w) ==
  /\ pc[w] = "start"
  /\ Moved(w, "failed")
  /\ UNCHANGED <<names, inodes, temporary, handle, position, sequence,
                 reading, output>>

(* Fault: the counter is not advanced.                                     *)
MakeSameName(w) ==
  /\ pc[w] = "start"
  /\ temporary' = [temporary EXCEPT
                     ![w] = <<PidOf[ProcessOf[w]], sequence[ProcessOf[w]]>>]
  /\ Moved(w, "open")
  /\ UNCHANGED <<names, inodes, handle, position, sequence, reading, output>>

(* unique_temporary_path: pid and an atomic counter of the process.        *)
MakeName(w) ==
  /\ pc[w] = "start"
  /\ temporary' = [temporary EXCEPT
                     ![w] = <<PidOf[ProcessOf[w]], sequence[ProcessOf[w]]>>]
  /\ sequence' = [sequence EXCEPT ![ProcessOf[w]] = @ + 1]
  /\ Moved(w, "open")
  /\ UNCHANGED <<names, inodes, handle, position, reading, output>>

(* std::ios::trunc: an existing file of that name is emptied.              *)
OpenTemporary(w) ==
  /\ pc[w] = "open"
  /\ IF temporary[w] \in DOMAIN names
     THEN /\ handle' = [handle EXCEPT ![w] = names[temporary[w]]]
          /\ inodes' = [inodes EXCEPT ![names[temporary[w]]] = <<>>]
          /\ UNCHANGED names
     ELSE /\ handle' = [handle EXCEPT ![w] = Len(inodes) + 1]
          /\ inodes' = Append(inodes, <<>>)
          /\ names' = [n \in DOMAIN names \cup {temporary[w]} |->
                         IF n = temporary[w] THEN Len(inodes) + 1
                         ELSE names[n]]
  /\ Moved(w, "write")
  /\ UNCHANGED <<temporary, position, sequence, reading, output>>

OpenFails(w) ==
  /\ pc[w] = "open"
  /\ Moved(w, "failed")
  /\ UNCHANGED <<names, inodes, temporary, handle, position, sequence,
                 reading, output>>

(* Each writer writes at its own offset of the inode it has open; a file   *)
(* that another open has emptied is filled up to that offset first.        *)
Filled(blocks, n) == [b \in 1..n |-> IF b <= Len(blocks) THEN blocks[b]
                                     ELSE <<0, 0>>]

Overwritten(blocks, n, block) ==
  [Filled(blocks, Max({n, Len(blocks)})) EXCEPT ![n] = block]

WriteBlock(w) ==
  /\ pc[w] = "write"
  /\ position[w] < Blocks
  /\ position' = [position EXCEPT ![w] = @ + 1]
  /\ inodes' = [inodes EXCEPT ![handle[w]] =
                  Overwritten(@, position[w] + 1, <<w, position[w] + 1>>)]
  /\ UNCHANGED <<names, pc, temporary, handle, sequence, reading, output>>

(* Fault: a write that failed goes on to the rename.                       *)
WriteFailsUnseen(w) ==
  /\ pc[w] = "write"
  /\ Moved(w, "rename")
  /\ UNCHANGED <<names, inodes, temporary, handle, position, sequence,
                 reading, output>>

(* The call fails and removes its temporary.  The error of that removal is *)
(* ignored: the caller is told of the same failure, and the file may stay. *)
FailRemoving(w) ==
  \/ Moved(w, "failed") /\ names' = Unlinked(temporary[w])
  \/ Moved(w, "uncleaned") /\ UNCHANGED names

(* A write or the flush fails.                                             *)
WriteFails(w) ==
  /\ pc[w] = "write"
  /\ FailRemoving(w)
  /\ UNCHANGED <<inodes, temporary, handle, position, sequence, reading,
                 output>>

FlushAndClose(w) ==
  /\ pc[w] = "write"
  /\ position[w] = Blocks
  /\ Moved(w, "rename")
  /\ UNCHANGED <<names, inodes, temporary, handle, position, sequence,
                 reading, output>>

(* std::filesystem::rename replaces the destination at one moment.         *)
Publish(w) ==
  /\ pc[w] = "rename"
  /\ temporary[w] \in DOMAIN names
  /\ names' = [n \in (DOMAIN names \cup {Destination}) \ {temporary[w]} |->
                 IF n = Destination THEN names[temporary[w]] ELSE names[n]]
  /\ Moved(w, "published")
  /\ UNCHANGED <<inodes, temporary, handle, position, sequence, reading,
                 output>>

(* Fault: the temporary of a failed rename is not removed.                 *)
PublishFailsKeeping(w) ==
  /\ pc[w] = "rename"
  /\ Moved(w, "failed")
  /\ UNCHANGED <<names, inodes, temporary, handle, position, sequence,
                 reading, output>>

PublishFails(w) ==
  /\ pc[w] = "rename"
  /\ FailRemoving(w)
  /\ UNCHANGED <<inodes, temporary, handle, position, sequence, reading,
                 output>>

Write(w) ==
  \/ RefuseToSerialize(w)
  \/ MakeName(w)
  \/ OpenTemporary(w)
  \/ OpenFails(w)
  \/ WriteBlock(w)
  \/ WriteFails(w)
  \/ FlushAndClose(w)
  \/ Publish(w)
  \/ PublishFails(w)
-----------------------------------------------------------------------------
(* Fault: a reader waits for a destination that does not exist yet.        *)
OpenWhenThere(r) ==
  /\ reading[r].pc = "start"
  /\ Destination \in DOMAIN names
  /\ reading' = [reading EXCEPT ![r] = [pc |-> "read",
                                        inode |-> names[Destination],
                                        blocks |-> <<>>]]
  /\ UNCHANGED <<names, inodes, pc, temporary, handle, position, sequence,
                 output>>

(* read_artifact: open, read to the end, then parse_artifact.              *)
OpenDestination(r) ==
  /\ reading[r].pc = "start"
  /\ reading' = [reading EXCEPT ![r] =
                   IF Destination \in DOMAIN names
                   THEN [pc |-> "read", inode |-> names[Destination],
                         blocks |-> <<>>]
                   ELSE [@ EXCEPT !.pc = "failed"]]
  /\ UNCHANGED <<names, inodes, pc, temporary, handle, position, sequence,
                 output>>

ReadBlock(r) ==
  /\ reading[r].pc = "read"
  /\ LET next == Len(reading[r].blocks) + 1
         file == inodes[reading[r].inode]
     IN reading' = [reading EXCEPT ![r] =
                      IF next <= Len(file)
                      THEN [@ EXCEPT !.blocks =
                              Append(reading[r].blocks, file[next])]
                      ELSE [@ EXCEPT !.pc = "parse"]]
  /\ UNCHANGED <<names, inodes, pc, temporary, handle, position, sequence,
                 output>>

(* The read may fail: the bytes end early, unnoticed by the istreambuf     *)
(* iterators, and parse_artifact has to find out.                          *)
ReadStops(r) ==
  /\ reading[r].pc = "read"
  /\ reading' = [reading EXCEPT ![r].pc = "parse"]
  /\ UNCHANGED <<names, inodes, pc, temporary, handle, position, sequence,
                 output>>

(* The payload size and the checksum pass for a whole artifact only.       *)
Genuine(blocks) == \E w \in Writers : blocks = Artifact(w)

(* Fault: the caller's output is filled before the checks.                 *)
ParseInPlace(r) ==
  /\ reading[r].pc = "parse"
  /\ output' = [output EXCEPT ![r] = reading[r].blocks]
  /\ reading' = [reading EXCEPT ![r].pc = "done"]
  /\ UNCHANGED <<names, inodes, pc, temporary, handle, position, sequence>>

Parse(r) ==
  /\ reading[r].pc = "parse"
  /\ IF Genuine(reading[r].blocks)
     THEN /\ output' = [output EXCEPT ![r] = reading[r].blocks]
          /\ reading' = [reading EXCEPT ![r].pc = "done"]
     ELSE /\ reading' = [reading EXCEPT ![r].pc = "failed"]
          /\ UNCHANGED output
  /\ UNCHANGED <<names, inodes, pc, temporary, handle, position, sequence>>

Read(r) == OpenDestination(r) \/ ReadBlock(r) \/ ReadStops(r) \/ Parse(r)
-----------------------------------------------------------------------------
(* A process dies with all its writers and is started again: the pid may   *)
(* come back, the counter starts from zero, temporaries stay behind.       *)
Crash(p) ==
  /\ \E w \in Writers : ProcessOf[w] = p /\ Active(w)
  /\ pc' = [w \in Writers |-> IF ProcessOf[w] = p /\ Active(w)
                               THEN "crashed" ELSE pc[w]]
  /\ sequence' = [sequence EXCEPT ![p] = 0]
  /\ UNCHANGED <<names, inodes, temporary, handle, position, reading, output>>

Init ==
  /\ names = <<>>
  /\ inodes = <<>>
  /\ pc = [w \in Writers |-> "start"]
  /\ temporary = [w \in Writers |-> Destination]
  /\ handle = [w \in Writers |-> Absent]
  /\ position = [w \in Writers |-> 0]
  /\ sequence = [p \in Processes |-> 0]
  /\ reading = [r \in Readers |-> [pc |-> "start", inode |-> Absent,
                                   blocks |-> <<>>]]
  /\ output = [r \in Readers |-> Absent]

Next ==
  \/ \E w \in Writers : Write(w)
  \/ \E r \in Readers : Read(r)
  \/ \E p \in Processes : Crash(p)

(* A thread that can go on does so, until its process dies.                *)
Spec ==
  /\ Init
  /\ [][Next]_vars
  /\ \A w \in Writers : WF_vars(Write(w))
  /\ \A r \in Readers : WF_vars(Read(r))
-----------------------------------------------------------------------------
Ended == {"published", "failed", "uncleaned", "crashed"}

(* What is at the destination is a whole artifact, whatever failed before  *)
(* and whoever still has a file open.                                      *)
DestinationWhole ==
  Destination \in DOMAIN names => Genuine(inodes[names[Destination]])

(* "Two concurrent writes to the same destination do not share a temporary *)
(* file" (docs/artifact-format.en.md).                                     *)
NoSharedTemporary ==
  \A v, w \in Writers :
    v # w /\ Active(v) /\ Active(w) => temporary[v] # temporary[w]

(* A call that returns leaves its temporary only when the file system      *)
(* refuses to remove it: any other belongs to a call that is under way or  *)
(* was left by a crash.                                                    *)
Accounted(n) ==
  \E w \in Writers :
    /\ temporary[w] = n
    /\ pc[w] \in {"write", "rename", "crashed", "uncleaned"}

(* And what is left is nobody's artifact: no other name leads to that      *)
(* file, the destination included, and no reader has it open.              *)
LeftoversApart ==
  \A n \in DOMAIN names \ {Destination} :
    /\ Accounted(n)
    /\ \A m \in DOMAIN names \ {n} : names[m] # names[n]
    /\ \A r \in Readers : reading[r].inode # names[n]

(* Every call ends, unless its process dies.                               *)
CallsEnd ==
  /\ \A w \in Writers : <>(pc[w] \in Ended)
  /\ \A r \in Readers : <>(reading[r].pc \in {"done", "failed"})
-----------------------------------------------------------------------------
(* The artifact that some blocks are; -1 is no artifact.                   *)
Held(blocks) == IF Genuine(blocks) THEN blocks[1][1] ELSE -1

Register == INSTANCE PublishedArtifact
  WITH value   <- IF Destination \in DOMAIN names
                  THEN Held(inodes[names[Destination]]) ELSE Absent,
       outcome <- [w \in Writers |->
                     IF pc[w] \in {"failed", "uncleaned", "crashed"}
                     THEN "failed"
                     ELSE IF pc[w] = "published" THEN "published" ELSE "none"],
       taken   <- [r \in Readers |->
                     IF reading[r].inode = Absent THEN Absent
                     ELSE Held(inodes[reading[r].inode])],
       output  <- [r \in Readers |->
                     IF output[r] = Absent THEN Absent ELSE Held(output[r])]

(* The destination is an atomic register: it changes at the rename of a    *)
(* successful write and at no other step, and a reader returns what was    *)
(* there when it opened the file, even if it is replaced while it reads.   *)
ImplementsRegister == Register!RegisterSpec
=============================================================================
