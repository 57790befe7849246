------------------------------- MODULE FsTest -------------------------------
(***************************************************************************)
(* The kernel's file system tests (test/fstest.c): write, read back and    *)
(* remove a file; many readers of one file; a file per thread; one file    *)
(* written in strides by every thread; files created and removed in turn;  *)
(* and printfile.  The driver (thread 0) runs tests one after another.     *)
(*                                                                         *)
(* The file system is external: a directory of files that keep what is     *)
(* written, whose operations may fail or stop short at most MaxFails       *)
(* times.  A line of the test file is its number, as rotate makes it.      *)
(***************************************************************************)
EXTENDS Integers, Sequences, FiniteSets, FiniteSetsExt

CONSTANTS FThreads,           \* NTHREADS: threads 1..FThreads
          NCHUNKS, NCREATES,
          FTests,             \* the tests that the driver may run
          MaxRuns, MaxFails   \* bounds: tests run but printfile, operations that fail

ASSUME FsTestConstants ==
    /\ FThreads \in Nat \ {0} /\ NCHUNKS \in Nat \ {0} /\ NCREATES \in Nat \ {0}
    /\ FTests \subseteq {"fstest", "readstress", "writestress", "writestress2", "createstress",
                         "printfile"}

FT == 0..FThreads
SHARED == <<0, 0>>           \* the name with no suffix
NOFILE == 0

VARIABLES
    dir,        \* names to files
    fdata,      \* contents: a sequence of lines for every file
    fopen,      \* handles open on each file
    threadsem,
    ftest,      \* the driver's test
    todo,       \* the calls each thread has left to make
    call,       \* how far it is in fstest_write, _read or _remove
    fret,       \* the result of its last call
    fails, reported,   \* operations that failed; whether a test said so
    fruns, fsPrinted

fsVars == <<dir, fdata, fopen, threadsem, ftest, todo, call, fret, fails, reported, fruns,
            fsPrinted>>

NoCall == [op |-> "none", at |-> "none"]

FsTestInit ==
    /\ dir = [n \in {SHARED} |-> NOFILE] /\ fdata = <<>> /\ fopen = <<>>
    /\ threadsem = 0 /\ ftest = "none" /\ todo = [t \in FT |-> <<>>]
    /\ call = [t \in FT |-> NoCall] /\ fret = [t \in FT |-> "ok"]
    /\ fails = 0 /\ reported = FALSE /\ fruns = 0 /\ fsPrinted = <<>>

-----------------------------------------------------------------------------
(* The three calls.                                                        *)
Named(n) == IF n \in DOMAIN dir THEN dir[n] ELSE NOFILE
SetName(n, f) ==
    dir' = [m \in DOMAIN dir \cup {n} |-> IF m = n THEN f ELSE dir[m]]

FAt(t, op, at) == call[t].op = op /\ call[t].at = at
FStepTo(t, at) == call' = [call EXCEPT ![t].at = at]

FReturn(t, r) ==
    /\ call' = [call EXCEPT ![t] = NoCall] /\ fret' = [fret EXCEPT ![t] = r]
    /\ reported' = (reported \/ r = "fail")

(* An operation of the file system fails or falls short (external).        *)
(* Each test after the first leaves one failure fewer.                     *)
Failing == fails + fruns <= MaxFails /\ fails' = fails + 1

(* A file with neither a name nor a handle, for a new one.                 *)
FreshFile ==
    Min({f \in 1..(Len(fdata) + 1) :
            f \in DOMAIN fdata => fopen[f] = 0 /\ \A n \in DOMAIN dir : dir[n] # f})

(* vfs_open for writing: O_CREAT, and O_TRUNC when the file is not shared. *)
WriteOpen(t) ==
    /\ FAt(t, "write", "open")
    /\ LET c == call[t]
           f == Named(c.name)
           g == IF f = NOFILE THEN FreshFile ELSE f
       IN \/ /\ SetName(c.name, g)
             /\ IF g = Len(fdata) + 1
                THEN fdata' = Append(fdata, <<>>) /\ fopen' = Append(fopen, 1)
                ELSE /\ fdata' = [fdata EXCEPT ![g] = IF f = NOFILE \/ c.size = 1 THEN <<>> ELSE @]
                     /\ fopen' = [fopen EXCEPT ![g] = @ + 1]
             /\ call' = [call EXCEPT ![t].at = "lines", ![t].fh = g]
             /\ UNCHANGED <<fret, fails, reported>>
          \/ /\ Failing /\ FReturn(t, "fail") /\ UNCHANGED <<dir, fdata, fopen>>
    /\ UNCHANGED <<threadsem, ftest, todo, fruns, fsPrinted>>

(* A write at a line's offset fills the gap before it, if any.             *)
PutLine(s, i) ==
    [k \in 1..Max({Len(s), i + 1}) |-> IF k = i + 1 THEN i ELSE IF k <= Len(s) THEN s[k] ELSE -1]

(* Fault: a stride off by one.                                             *)
MineNext(c) == {i \in c.i..(NCHUNKS - 1) : i % c.size = (c.pos + 1) % c.size /\ i > 0}

Mine(c) == {i \in c.i..(NCHUNKS - 1) : i % c.size = c.pos}

(* The next line of this thread's stride; after an error or a short write  *)
(* the handle is closed and the file removed.                              *)
WriteLine(t) ==
    /\ FAt(t, "write", "lines") /\ Mine(call[t]) # {}
    /\ LET c == call[t]
           i == Min(Mine(c))
       IN \/ /\ fdata' = [fdata EXCEPT ![c.fh] = PutLine(@, i)]
             /\ call' = [call EXCEPT ![t].i = i + 1]
             /\ UNCHANGED fails
          \/ Failing /\ FStepTo(t, "closebad") /\ UNCHANGED fdata
    /\ UNCHANGED <<dir, fopen, threadsem, ftest, todo, fret, reported, fruns, fsPrinted>>

(* Fault: a failed write leaves the file open.                             *)
CloseFileKeeps(t) ==
    /\ IF FAt(t, "write", "closebad") THEN UNCHANGED fopen
       ELSE fopen' = [fopen EXCEPT ![call[t].fh] = @ - 1]
    /\ IF FAt(t, "write", "closebad")
       THEN FStepTo(t, "removebad") /\ UNCHANGED <<fret, reported>>
       ELSE FReturn(t, IF call[t].at = "closebad" THEN "fail" ELSE "ok")

CloseFile(t) ==
    /\ fopen' = [fopen EXCEPT ![call[t].fh] = @ - 1]
    /\ IF FAt(t, "write", "closebad")
       THEN FStepTo(t, "removebad") /\ UNCHANGED <<fret, reported>>
       ELSE FReturn(t, IF call[t].at = "closebad" THEN "fail" ELSE "ok")

Close(t) ==
    /\ \/ FAt(t, "write", "lines") /\ Mine(call[t]) = {}
       \/ FAt(t, "read", "lines") /\ call[t].i = NCHUNKS
       \/ call[t].op \in {"write", "read"} /\ call[t].at = "closebad"
    /\ CloseFile(t)
    /\ UNCHANGED <<dir, fdata, threadsem, ftest, todo, fails, fruns, fsPrinted>>

(* vfs_remove on the error path; its own result is ignored.                *)
RemoveBad(t) ==
    /\ FAt(t, "write", "removebad")
    /\ \/ SetName(call[t].name, NOFILE) /\ UNCHANGED fails
       \/ Failing /\ UNCHANGED dir
    /\ FReturn(t, "fail")
    /\ UNCHANGED <<fdata, fopen, threadsem, ftest, todo, fruns, fsPrinted>>

ReadOpen(t) ==
    /\ FAt(t, "read", "open")
    /\ LET f == Named(call[t].name)
       IN \/ /\ f # NOFILE
             /\ fopen' = [fopen EXCEPT ![f] = @ + 1]
             /\ call' = [call EXCEPT ![t].at = "lines", ![t].fh = f]
             /\ UNCHANGED <<fret, fails, reported>>
          \/ /\ IF f = NOFILE THEN UNCHANGED fails ELSE Failing
             /\ FReturn(t, "fail") /\ UNCHANGED fopen
    /\ UNCHANGED <<dir, fdata, threadsem, ftest, todo, fruns, fsPrinted>>

(* A read error, a short read and a line that does not match all end it.   *)
ReadLine(t) ==
    /\ FAt(t, "read", "lines") /\ call[t].i < NCHUNKS
    /\ LET c == call[t]
           s == fdata[c.fh]
           good == c.i < Len(s) /\ s[c.i + 1] = c.i
       IN \/ /\ call' = [call EXCEPT ![t].i = IF good THEN @ + 1 ELSE @,
                                    ![t].at = IF good THEN @ ELSE "closebad"]
             /\ UNCHANGED fails
          \/ Failing /\ FStepTo(t, "closebad")
    /\ UNCHANGED <<dir, fdata, fopen, threadsem, ftest, todo, fret, reported, fruns,
                   fsPrinted>>

RemoveFile(t) ==
    /\ FAt(t, "remove", "open")
    /\ LET n == call[t].name
       IN \/ Named(n) # NOFILE /\ SetName(n, NOFILE) /\ FReturn(t, "ok") /\ UNCHANGED fails
          \/ /\ IF Named(n) = NOFILE THEN UNCHANGED fails ELSE Failing
             /\ FReturn(t, "fail") /\ UNCHANGED dir
    /\ UNCHANGED <<fdata, fopen, threadsem, ftest, todo, fruns, fsPrinted>>

(* printfile: copy a file to the console, up to two lines at a time, until *)
(* a read comes back short.  The file may not be there, or fail to open.   *)
PrintNoFile(t) ==
    /\ FAt(t, "print", "open")
    /\ IF Named(call[t].name) = NOFILE THEN UNCHANGED <<fails, reported>>
       ELSE Failing /\ reported' = TRUE
    /\ call' = [call EXCEPT ![t] = NoCall]
    /\ UNCHANGED <<dir, fdata, fopen, threadsem, ftest, todo, fret, fruns, fsPrinted>>

(* Then "con:" is opened; when that fails the file is closed again.        *)
PrintOpen(t) ==
    LET f == Named(call[t].name)
    IN  /\ FAt(t, "print", "open") /\ f # NOFILE
        /\ fopen' = [fopen EXCEPT ![f] = @ + 1] /\ fsPrinted' = <<>>
        /\ \/ call' = [call EXCEPT ![t].at = "lines", ![t].fh = f] /\ UNCHANGED <<fails, reported>>
           \/ /\ Failing /\ reported' = TRUE
              /\ call' = [call EXCEPT ![t].at = "closebad", ![t].fh = f]
        /\ UNCHANGED <<dir, fdata, threadsem, ftest, todo, fret, fruns>>

PrintLines(t) ==
    /\ FAt(t, "print", "lines")
    /\ LET c == call[t]
           got == SubSeq(fdata[c.fh], c.i + 1, Min({c.i + 2, Len(fdata[c.fh])}))
       IN \/ /\ fsPrinted' = fsPrinted \o got
             /\ call' = [call EXCEPT ![t].i = @ + Len(got),
                                    ![t].at = IF Len(got) < 2 THEN "closebad" ELSE @]
             /\ UNCHANGED <<fails, reported>>
          \/ Failing /\ reported' = TRUE /\ FStepTo(t, "closebad") /\ UNCHANGED fsPrinted
    /\ UNCHANGED <<dir, fdata, fopen, threadsem, ftest, todo, fret, fruns>>

PrintClose(t) ==
    /\ FAt(t, "print", "closebad")
    /\ fopen' = [fopen EXCEPT ![call[t].fh] = @ - 1]
    /\ FReturn(t, "ok")
    /\ UNCHANGED <<dir, fdata, threadsem, ftest, todo, fails, fruns, fsPrinted>>

-----------------------------------------------------------------------------
(* The tests: what each thread, and the driver, calls in turn.  A failed   *)
(* call goes straight to the end: V(threadsem) for a thread.               *)
Trio(n) == << <<"write", n>>, <<"read", n>>, <<"remove", n>> >>

readstress_thread == << <<"read", SHARED>> >>
writestress_thread(t) == Trio(<<t, 0>>)
writestress2_thread == << <<"write", SHARED>> >>
createstress_thread(t) ==
    [k \in 1..(3 * NCREATES) |-> Trio(<<t, ((k - 1) \div 3) + 1>>)[((k - 1) % 3) + 1]]

ThreadScript(t) ==
    CASE ftest = "readstress" -> readstress_thread
      [] ftest = "writestress" -> writestress_thread(t)
      [] ftest = "writestress2" -> writestress2_thread
      [] ftest = "createstress" -> createstress_thread(t)

ForkAndWait == << <<"fork", SHARED>>, <<"wait", SHARED>> >>

dofstest == Trio(SHARED)
doreadstress == << <<"write", SHARED>> >> \o ForkAndWait \o << <<"remove", SHARED>> >>
dowritestress == ForkAndWait
dowritestress2 ==
    << <<"create", SHARED>> >> \o ForkAndWait \o << <<"read", SHARED>>, <<"remove", SHARED>> >>
docreatestress == ForkAndWait

DriverScript(test) ==
    CASE test = "fstest" -> dofstest
      [] test = "readstress" -> doreadstress
      [] test = "writestress" -> dowritestress
      [] test = "writestress2" -> dowritestress2
      [] test = "createstress" -> docreatestress
      [] test = "printfile" -> << <<"print", SHARED>> >>

FsStartTest ==
    /\ call[0] = NoCall /\ todo[0] = <<>> /\ fruns < MaxRuns /\ fails + fruns <= MaxFails
    /\ \E test \in FTests :
          /\ fruns' = IF test = "printfile" THEN fruns ELSE fruns + 1
          /\ ftest' = test /\ todo' = [todo EXCEPT ![0] = DriverScript(test)]
    /\ fret' = [fret EXCEPT ![0] = "ok"]
    /\ UNCHANGED <<dir, fdata, fopen, threadsem, call, fails, reported, fsPrinted>>

FsIdle(t) == call[t] = NoCall /\ todo[t] # <<>>

(* The next call; writestress2's own opening of the file writes no line.   *)
NextCall(t) ==
    /\ FsIdle(t) /\ fret[t] = "ok"
    /\ LET op == Head(todo[t])[1]
           strided == ftest = "writestress2" /\ t # 0
       IN /\ op \in {"write", "create", "read", "remove", "print"}
          /\ call' = [call EXCEPT ![t] =
                 [op |-> IF op = "create" THEN "write" ELSE op, at |-> "open",
                  name |-> Head(todo[t])[2], fh |-> NOFILE,
                  size |-> IF strided THEN FThreads ELSE 1,
                  pos |-> IF strided THEN t - 1 ELSE 0,
                  i |-> IF op = "create" THEN NCHUNKS ELSE 0]]
    /\ todo' = [todo EXCEPT ![t] = Tail(@)]
    /\ UNCHANGED <<dir, fdata, fopen, threadsem, ftest, fret, fails, reported, fruns, fsPrinted>>

(* A call failed: the rest of the test is skipped.                         *)
GiveUp(t) ==
    /\ FsIdle(t) /\ fret[t] = "fail" /\ Head(todo[t])[1] # "V"
    /\ todo' = [todo EXCEPT ![t] = IF t = 0 THEN <<>> ELSE << <<"V", SHARED>> >>]
    /\ UNCHANGED <<dir, fdata, fopen, threadsem, ftest, call, fret, fails, reported, fruns,
                   fsPrinted>>

ForkThreads ==
    /\ FsIdle(0) /\ fret[0] = "ok" /\ Head(todo[0])[1] = "fork"
    /\ todo' = [t \in FT |-> IF t = 0 THEN Tail(todo[0])
                              ELSE ThreadScript(t) \o << <<"V", SHARED>> >>]
    /\ fret' = [t \in FT |-> "ok"]
    /\ UNCHANGED <<dir, fdata, fopen, threadsem, ftest, call, fails, reported, fruns, fsPrinted>>

ForkPanics ==
    /\ FsIdle(0) /\ fret[0] = "ok" /\ Head(todo[0])[1] = "fork"
    /\ Failing /\ ftest' = "panic"
    /\ UNCHANGED <<dir, fdata, fopen, threadsem, todo, call, fret, reported, fruns, fsPrinted>>

(* Fault: a thread whose call failed does not V.                           *)
ThreadVIfOk(t) ==
    /\ FsIdle(t) /\ Head(todo[t])[1] = "V"
    /\ threadsem' = IF fret[t] = "ok" THEN threadsem + 1 ELSE threadsem
    /\ todo' = [todo EXCEPT ![t] = <<>>]
    /\ UNCHANGED <<dir, fdata, fopen, ftest, call, fret, fails, reported, fruns, fsPrinted>>

FsThreadV(t) ==
    /\ FsIdle(t) /\ Head(todo[t])[1] = "V"
    /\ threadsem' = threadsem + 1
    /\ todo' = [todo EXCEPT ![t] = <<>>]
    /\ UNCHANGED <<dir, fdata, fopen, ftest, call, fret, fails, reported, fruns, fsPrinted>>

(* P(threadsem), NTHREADS times.                                           *)
WaitThreads ==
    /\ FsIdle(0) /\ fret[0] = "ok" /\ Head(todo[0])[1] = "wait"
    /\ threadsem = FThreads /\ threadsem' = 0
    /\ todo' = [todo EXCEPT ![0] = Tail(@)]
    /\ UNCHANGED <<dir, fdata, fopen, ftest, call, fret, fails, reported, fruns, fsPrinted>>

FsThreadStep(t) ==
    \/ WriteOpen(t) \/ WriteLine(t) \/ Close(t) \/ RemoveBad(t) \/ ReadOpen(t) \/ ReadLine(t)
    \/ RemoveFile(t) \/ PrintNoFile(t) \/ PrintOpen(t) \/ PrintLines(t) \/ PrintClose(t)
    \/ NextCall(t) \/ GiveUp(t) \/ FsThreadV(t)

FsTestNext ==
    /\ ftest # "panic"
    /\ \/ FsStartTest \/ ForkThreads \/ ForkPanics \/ WaitThreads
       \/ \E t \in FT : FsThreadStep(t)

-----------------------------------------------------------------------------
(* A test is believed: once the driver is done, a test has complained      *)
(* exactly if an operation failed, every handle has been closed, every     *)
(* thread has been waited for and, without a failure, no file is left.     *)
(* What printfile shows is the file, in order and once.                    *)
VerdictSound ==
    /\ FAt(0, "print", "closebad") => fsPrinted = SubSeq(fdata[call[0].fh], 1, call[0].i)
    /\ (call[0] = NoCall /\ todo[0] = <<>>) =>
        /\ \A f \in DOMAIN fopen : fopen[f] = 0
        /\ threadsem = 0 /\ \A t \in FT : call[t] = NoCall /\ todo[t] = <<>>
        /\ fails > 0 => reported
        /\ reported => fails > 0
        /\ ~ reported => \A n \in DOMAIN dir : dir[n] = NOFILE

(* Every test comes to an end: no thread is waited for that has gone.      *)
FsTestsOver == ftest = "panic" \/ (call[0] = NoCall /\ todo[0] = <<>>)
=============================================================================
