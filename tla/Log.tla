--------------------------------- MODULE Log ---------------------------------
(***************************************************************************)
(* The logger of src/base/log.c: threads emit lines, under one mutex, to a *)
(* file with one archive and to a copy of stderr; a sink that fails once   *)
(* is never written again, and the file is rotated before the line that    *)
(* would make it too long.                                                 *)
(*                                                                         *)
(* A line is a number and a byte is the number of its line, so a file is   *)
(* the sequence of the lines its bytes belong to.  A step is one system    *)
(* call of the thread that holds the mutex, because the process may end    *)
(* after any of them; the next logger then finds the directory as it was   *)
(* left.  The directory is the logger's alone, as log.h asks.              *)
(***************************************************************************)
EXTENDS Integers, Sequences, FiniteSets, SequencesExt

CONSTANTS
  Threads,
  LineSizes,   \* the lengths a formatted line may have
  MaxBytes,    \* max_file_size_bytes
  OldBytes,    \* what vireo.log holds before the first logger
  MaxLines, MaxLoggers, MaxFaults   \* bounds of the model

VARIABLES
  names,    \* the directory: the file behind vireo.log and vireo.log.1, 0 if none
  files,    \* for each file its bytes and how many of them were synced
  tty,      \* the bytes that stderr has received
  logger,   \* the object, or its absence
  open,     \* the descriptors the process has open
  stray,    \* history: a descriptor was closed that was not open
  emit,     \* the call of the thread that holds the mutex
  ret,      \* what each thread's last call returned
  lines,    \* history: size and logger of every line
  stream,   \* history: every byte written to a file
  promised, \* history: how much of stream the last good flush covered
  loggers, faults

vars == <<names, files, tty, logger, open, stray, emit, ret, lines, stream, promised,
          loggers, faults>>

NoLogger == [live |-> FALSE]
NoCall == [at |-> "idle"]
Stuck == [at |-> "stuck"]      \* the unlock failed
FileFd(f) == <<"file", f>>

Init ==
  /\ names = [current |-> 1, archive |-> 0]
  /\ files = <<[bytes |-> [i \in 1..OldBytes |-> 0], synced |-> OldBytes]>>
  /\ tty = <<>> /\ logger = NoLogger /\ open = {} /\ stray = FALSE
  /\ emit = NoCall /\ ret = [t \in Threads |-> [result |-> "NONE"]]
  /\ lines = <<>> /\ stream = [i \in 1..OldBytes |-> 0] /\ promised = OldBytes
  /\ loggers = 0 /\ faults = 0

Fault == faults < MaxFaults /\ faults' = faults + 1

close_fds(fds) == open' = open \ fds /\ stray' = (stray \/ ~(fds \subseteq open))

------------------------------------------------------------------------------
(* create and destroy: no other thread uses the logger.                     *)

Owned(l) ==
  IF ~l.live THEN {}
  ELSE {fd \in {FileFd(l.file_fd), <<"stderr">>, <<"directory">>} :
          CASE fd = <<"stderr">> -> l.stderr # "DISABLED"
            [] OTHER -> l.file # "DISABLED"}

\* open_file creates the file when the directory has none of that name.
OpenedCurrent == IF names.current = 0 THEN Len(files) + 1 ELSE names.current

\* At least one sink must be wanted.
validate_options(file, stderr) == file \/ stderr

Created(file, stderr) ==
  [live |-> TRUE, id |-> loggers + 1,
   file |-> IF file THEN "HEALTHY" ELSE "DISABLED",
   stderr |-> IF stderr THEN "HEALTHY" ELSE "DISABLED",
   file_fd |-> IF file THEN OpenedCurrent ELSE 0]

create(file, stderr) ==
  /\ ~logger.live /\ loggers < MaxLoggers /\ validate_options(file, stderr)
  /\ logger' = Created(file, stderr)
  /\ loggers' = loggers + 1
  /\ open' = open \cup Owned(logger')
  /\ names' = IF file THEN [names EXCEPT !.current = OpenedCurrent] ELSE names
  /\ files' = IF file /\ names.current = 0
              THEN Append(files, [bytes |-> <<>>, synced |-> 0]) ELSE files
  /\ UNCHANGED <<tty, stray, emit, ret, lines, stream, promised, faults>>

(* A step of the acquisition fails: rollback closes what was acquired, in   *)
(* any case without leaving a logger; a file that was created stays.        *)
create_fails(file, stderr) ==
  /\ ~logger.live /\ loggers < MaxLoggers /\ validate_options(file, stderr)
  /\ Fault
  /\ \/ UNCHANGED <<names, files>>
     \/ /\ file /\ names.current = 0
        /\ names' = [names EXCEPT !.current = OpenedCurrent]
        /\ files' = Append(files, [bytes |-> <<>>, synced |-> 0])
  /\ UNCHANGED <<tty, logger, open, stray, emit, ret, lines, stream, promised, loggers>>

(* Whatever sync, close or the mutex say, everything is released once.      *)
destroy ==
  /\ logger.live /\ emit.at \in {"idle", "stuck"}
  /\ close_fds(Owned(logger))
  /\ \/ /\ logger.file # "DISABLED"
        /\ files' = [files EXCEPT ![logger.file_fd].synced = Len(files[logger.file_fd].bytes)]
        /\ UNCHANGED faults
     \/ logger.file = "DISABLED" /\ UNCHANGED <<files, faults>>
     \/ logger.file # "DISABLED" /\ Fault /\ UNCHANGED files
  /\ logger' = NoLogger /\ emit' = NoCall
  /\ UNCHANGED <<names, tty, ret, lines, stream, promised, loggers>>

(* External: the process ends between two system calls.                     *)
Crash ==
  /\ logger.live /\ Fault
  /\ logger' = NoLogger /\ emit' = NoCall /\ open' = {}
  /\ UNCHANGED <<names, files, tty, stray, ret, lines, stream, promised, loggers>>

------------------------------------------------------------------------------
(* emit: lock, one line, first the file, then stderr, unlock.               *)

Sinks == {s \in {"file", "stderr"} : logger[s] # "DISABLED"}

At(step) == emit.at = step

lock(t, size) ==
  /\ logger.live /\ At("idle") /\ Len(lines) < MaxLines
  /\ lines' = Append(lines, [size |-> size, logger |-> logger.id])
  /\ emit' = [at |-> IF logger.file = "HEALTHY" THEN "size" ELSE "stderr", thread |-> t,
              line |-> Len(lines) + 1, offset |-> 0, new |-> 0]
  /\ UNCHANGED <<names, files, tty, logger, open, stray, ret, stream, promised, loggers,
                 faults>>

(* A lock, clock, thread number or format that fails leaves before any      *)
(* sink is touched; the unlock on the way out may fail as well.             *)
emit_refused(t) ==
  /\ logger.live /\ At("idle") /\ Fault
  /\ ret' = [ret EXCEPT ![t] = [result |-> "FAILED"]]
  /\ emit' \in {NoCall, Stuck}
  /\ UNCHANGED <<names, files, tty, logger, open, stray, lines, stream, promised, loggers>>

Goto(step) == emit' = [emit EXCEPT !.at = step]

Quiet == UNCHANGED <<names, files, tty, open, stray, ret, lines, stream, promised, loggers>>

(* The file sink has failed for good; stderr still gets the line.           *)
FailFile == logger' = [logger EXCEPT !.file = "FAILED"] /\ Goto("stderr")

Current == files[logger.file_fd]

fits == Len(Current.bytes) + lines[emit.line].size <= MaxBytes

(* The size and the attributes of the open file decide whether to rotate.   *)
prepare_file ==
  /\ At("size")
  /\ \/ /\ lines[emit.line].size <= MaxBytes
        /\ Goto(IF fits THEN "write" ELSE "entries")
        /\ UNCHANGED <<logger, faults>>
     \/ lines[emit.line].size > MaxBytes /\ FailFile /\ UNCHANGED faults
     \/ Fault /\ FailFile
  /\ Quiet

(* vireo.log must still name the open file; the archive is regular or       *)
(* missing.                                                                 *)
check_entries ==
  /\ At("entries")
  /\ \/ names.current = logger.file_fd /\ Goto("sync") /\ UNCHANGED <<logger, faults>>
     \/ names.current # logger.file_fd /\ FailFile /\ UNCHANGED faults
     \/ Fault /\ FailFile
  /\ Quiet

sync_file ==
  /\ At("sync")
  /\ \/ /\ files' = [files EXCEPT ![logger.file_fd].synced = Len(Current.bytes)]
        /\ Goto("rename") /\ UNCHANGED <<logger, faults>>
     \/ Fault /\ FailFile /\ UNCHANGED files
  /\ UNCHANGED <<names, tty, open, stray, ret, lines, stream, promised, loggers>>

rename_file ==
  /\ At("rename")
  /\ \/ /\ names' = [current |-> 0, archive |-> names.current]
        /\ Goto("open") /\ UNCHANGED <<logger, faults>>
     \/ Fault /\ FailFile /\ UNCHANGED names
  /\ UNCHANGED <<files, tty, open, stray, ret, lines, stream, promised, loggers>>

open_new_file ==
  /\ At("open")
  /\ \/ /\ names' = [names EXCEPT !.current = Len(files) + 1]
        /\ files' = Append(files, [bytes |-> <<>>, synced |-> 0])
        /\ open' = open \cup {FileFd(Len(files) + 1)}
        /\ emit' = [emit EXCEPT !.at = "check", !.new = Len(files) + 1]
        /\ UNCHANGED <<logger, faults>>
     \/ Fault /\ FailFile /\ UNCHANGED <<names, files, open>>
  /\ UNCHANGED <<tty, stray, ret, lines, stream, promised, loggers>>

(* Mutant: the old descriptor stays in the logger.                          *)
check_new_fileKeeps ==
  /\ At("check")
  /\ \/ Goto("close") /\ UNCHANGED <<logger, open, stray, faults>>
     \/ Fault /\ FailFile /\ close_fds({FileFd(emit.new)})
  /\ UNCHANGED <<names, files, tty, ret, lines, stream, promised, loggers>>

(* The new descriptor is the thread's until it has passed; then it is the   *)
(* logger's and the old one is left to close.                               *)
check_new_file ==
  /\ At("check")
  /\ \/ /\ logger' = [logger EXCEPT !.file_fd = emit.new]
        /\ emit' = [emit EXCEPT !.at = "close", !.new = logger.file_fd]
        /\ UNCHANGED <<open, stray, faults>>
     \/ Fault /\ FailFile /\ close_fds({FileFd(emit.new)})
  /\ UNCHANGED <<names, files, tty, ret, lines, stream, promised, loggers>>

(* A failing close has released the descriptor as well.                     *)
close_old_file ==
  /\ At("close")
  /\ close_fds({FileFd(emit.new)})
  /\ \/ Goto("write") /\ UNCHANGED <<logger, faults>>
     \/ Fault /\ FailFile
  /\ UNCHANGED <<names, files, tty, ret, lines, stream, promised, loggers>>

(* n bytes of the line were accepted; what is left is tried again.          *)
Progress(n, last) ==
  emit' = IF emit.offset + n < lines[emit.line].size
          THEN [emit EXCEPT !.offset = @ + n]
          ELSE [emit EXCEPT !.offset = 0, !.at = last]

Rest == 1..(lines[emit.line].size - emit.offset)
Bytes(n) == [i \in 1..n |-> emit.line]

write_file ==
  /\ At("write")
  /\ \/ \E n \in Rest :
          /\ files' = [files EXCEPT ![logger.file_fd].bytes = @ \o Bytes(n)]
          /\ stream' = stream \o Bytes(n)
          /\ Progress(n, "stderr")
          /\ UNCHANGED <<logger, faults>>
     \/ /\ Fault
        /\ logger' = [logger EXCEPT !.file = "FAILED"]
        /\ emit' = [emit EXCEPT !.offset = 0, !.at = "stderr"]
        /\ UNCHANGED <<files, stream>>
  /\ UNCHANGED <<names, tty, open, stray, ret, lines, promised, loggers>>

write_stderr ==
  /\ At("stderr")
  /\ \/ /\ logger.stderr = "HEALTHY"
        /\ \E n \in Rest : tty' = tty \o Bytes(n) /\ Progress(n, "unlock")
        /\ UNCHANGED <<logger, faults>>
     \/ /\ logger.stderr = "HEALTHY" /\ Fault
        /\ logger' = [logger EXCEPT !.stderr = "FAILED"]
        /\ Goto("unlock") /\ UNCHANGED tty
     \/ logger.stderr # "HEALTHY" /\ Goto("unlock") /\ UNCHANGED <<logger, tty, faults>>
  /\ UNCHANGED <<names, files, open, stray, ret, lines, stream, promised, loggers>>

(* A sink that failed, in this call or earlier, is reported every time.     *)
Verdict == IF \E s \in Sinks : logger[s] = "FAILED" THEN "IO" ELSE "OK"

Returned(verdict) == [result |-> verdict, line |-> emit.line, sinks |-> Sinks]

unlock ==
  /\ At("unlock")
  /\ \/ /\ ret' = [ret EXCEPT ![emit.thread] = Returned(Verdict)]
        /\ emit' = NoCall /\ UNCHANGED faults
     \/ /\ Fault /\ emit' = Stuck
        /\ ret' = [ret EXCEPT ![emit.thread] =
                     Returned(IF Verdict = "OK" THEN "INTERNAL" ELSE Verdict)]
  /\ UNCHANGED <<names, files, tty, logger, open, stray, lines, stream, promised, loggers>>

(* flush: the healthy file is synced; a failure is remembered as a sink's.  *)
(* It answers OK when no sink has failed and the unlock works.              *)
flush ==
  /\ logger.live /\ At("idle")
  /\ \/ /\ logger.file = "HEALTHY"
        /\ files' = [files EXCEPT ![logger.file_fd].synced = Len(Current.bytes)]
        /\ \/ promised' = Len(stream) /\ UNCHANGED <<emit, faults>>
           \/ Fault /\ emit' = Stuck /\ UNCHANGED promised
        /\ UNCHANGED logger
     \/ /\ logger.file = "HEALTHY" /\ Fault
        /\ logger' = [logger EXCEPT !.file = "FAILED"]
        /\ UNCHANGED <<files, promised, emit>>
     \/ logger.file # "HEALTHY" /\ UNCHANGED <<files, promised, logger, emit, faults>>
  /\ UNCHANGED <<names, tty, open, stray, ret, lines, stream, loggers>>

Next ==
  \/ \E file, stderr \in BOOLEAN : create(file, stderr) \/ create_fails(file, stderr)
  \/ destroy \/ Crash \/ flush
  \/ \E t \in Threads : emit_refused(t) \/ \E size \in LineSizes : lock(t, size)
  \/ prepare_file \/ check_entries \/ sync_file \/ rename_file \/ open_new_file
  \/ check_new_file \/ close_old_file \/ write_file \/ write_stderr \/ unlock

Spec == Init /\ [][Next]_vars

------------------------------------------------------------------------------
BytesOf(name) == IF names[name] = 0 THEN <<>> ELSE files[names[name]].bytes

Count(line, bytes) == Cardinality({i \in DOMAIN bytes : bytes[i] = line})

(* log.h on rotation: the archive followed by the current file is always    *)
(* the tail of everything that was ever written, and neither grows beyond   *)
(* the limit unless it was longer before the first logger.                  *)
HistoryKept ==
  /\ IsSuffix(BytesOf("archive") \o BytesOf("current"), stream)
  /\ \A f \in DOMAIN files :
       Len(files[f].bytes) <= MaxBytes \/ (f = 1 /\ Len(files[f].bytes) = OldBytes)

(* A line that a sink took in part is the last one it takes from that       *)
(* logger, so that no later line hides in a torn one; and OK means that     *)
(* every sink of the logger has the whole line.                             *)
LinesWhole ==
  /\ \A bytes \in {stream, tty} : \A i, j \in DOMAIN bytes :
       bytes[i] # 0 /\ bytes[i] < bytes[j] /\ lines[bytes[i]].logger = lines[bytes[j]].logger
         => Count(bytes[i], bytes) = lines[bytes[i]].size
  /\ \A t \in Threads : ret[t].result = "OK" =>
       \A s \in ret[t].sinks :
         Count(ret[t].line, IF s = "file" THEN stream ELSE tty) = lines[ret[t].line].size

(* Each descriptor is owned by the logger or by the rotation in progress    *)
(* and is closed once, whichever call of the rotation fails.                *)
DescriptorsOwned ==
  /\ ~stray
  /\ open = Owned(logger) \cup (IF emit.at \in {"check", "close"} THEN {FileFd(emit.new)} ELSE {})

(* fdatasync: the archive is on the disk before it gets its name, and what  *)
(* a successful flush covered stays so.                                     *)
FlushDurable ==
  LET Unsynced(name) ==
        IF names[name] = 0 THEN 0
        ELSE Len(files[names[name]].bytes) - files[names[name]].synced
  IN Unsynced("archive") = 0 /\ Unsynced("current") <= Len(stream) - promised

LogSound == HistoryKept /\ LinesWhole /\ DescriptorsOwned /\ FlushDurable
==============================================================================
