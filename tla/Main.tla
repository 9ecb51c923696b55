-------------------------------- MODULE Main --------------------------------
(***************************************************************************)
(* main() up to its loop: the command line, udprelay_init() (Startup), and *)
(* xdaemon(), after which there are two processes.  The parent writes the  *)
(* pid file and exits, which is what the caller sees; the child puts       *)
(* /dev/null on its standard descriptors and goes on to the loop, where    *)
(* Udprelayd takes over.  Until the handlers are installed a signal kills  *)
(* the process, and it kills the parent at any time.                       *)
(***************************************************************************)
EXTENDS Startup

VARIABLES opts,    \* what the command line asks for
          at,      \* where the process is that becomes the daemon
          parent,  \* where xdaemon()'s parent is
          shell,   \* the exit status the caller has got
          pidFile, \* what the pid file holds; "old" is what was there, if anything
          table    \* the daemon's descriptors, from fork() on

mainVars == <<opts, at, parent, shell, pidFile, table>>

Standard == 0 .. 2

(* The program is started with any options.                                *)
MainInit ==
  /\ Init
  /\ opts \in [usage : BOOLEAN, conf : BOOLEAN, detach : BOOLEAN, pidFile : BOOLEAN]
  /\ at = "options" /\ parent = "none" /\ shell = "running"
  /\ pidFile = "old"
  /\ table = <<>>

(* getopt_long(): help, or an option there is not, prints the usage.       *)
Options ==
  /\ at = "options"
  /\ \/ opts.usage /\ at' = "exited" /\ shell' = "success"
     \/ ~opts.usage /\ ~opts.conf /\ at' = "exited" /\ shell' = "failure"
     \/ ~opts.usage /\ opts.conf /\ at' = "init" /\ UNCHANGED shell
  /\ UNCHANGED <<opts, parent, pidFile, table>> /\ UNCHANGED vars

Initialise == at = "init" /\ Next /\ UNCHANGED mainVars

InitFails == /\ at = "init" /\ pc = "failed"
             /\ at' = "exited" /\ shell' = "failure"
             /\ UNCHANGED <<opts, parent, pidFile, table>> /\ UNCHANGED vars

Descriptors == [d \in open \cup taken |-> IF d \in open THEN "socket" ELSE "other"]

(* Without -d, and when fork() fails (nobody looks), main() goes on alone. *)
StayInForeground == /\ at = "init" /\ pc = "ready"
                    /\ at' = "handlers" /\ table' = Descriptors
                    /\ UNCHANGED <<opts, parent, shell, pidFile>> /\ UNCHANGED vars

(* Mutant of Fork: the daemon is detached before it is initialised.        *)
ForkEarly == /\ at = "init" /\ opts.detach
             /\ at' = "child" /\ table' = Descriptors
             /\ parent' = IF opts.pidFile THEN "fopen" ELSE "exit"
             /\ UNCHANGED <<opts, shell, pidFile>> /\ UNCHANGED vars

Fork == /\ at = "init" /\ pc = "ready" /\ opts.detach
        /\ at' = "child" /\ table' = Descriptors
        /\ parent' = IF opts.pidFile THEN "fopen" ELSE "exit"
        /\ UNCHANGED <<opts, shell, pidFile>> /\ UNCHANGED vars

-----------------------------------------------------------------------------
(* The parent.                                                             *)

(* fopen() empties the file, or fails.                                     *)
OpenPidFile == /\ parent = "fopen"
               /\ \/ parent' = "fprintf" /\ pidFile' = "empty"
                  \/ parent' = "exit" /\ UNCHANGED pidFile
               /\ UNCHANGED <<opts, at, shell, table>> /\ UNCHANGED vars

(* The child's number is written out by fclose(), unless the disk is full. *)
WritePidFile == /\ parent = "fprintf"
                /\ parent' = "exit" /\ pidFile' \in {"child", "broken"}
                /\ UNCHANGED <<opts, at, shell, table>> /\ UNCHANGED vars

ParentExits == /\ parent = "exit"
               /\ parent' = "gone" /\ shell' = "success"
               /\ UNCHANGED <<opts, at, pidFile, table>> /\ UNCHANGED vars

-----------------------------------------------------------------------------
(* The child, or the only process.                                         *)

(* Mutant of Detach: everything above the standard descriptors is closed.  *)
DetachClosing == /\ at = "child" /\ at' = "handlers"
                 /\ table' = [d \in Standard |-> "null"]
                 /\ UNCHANGED <<opts, parent, shell, pidFile>> /\ UNCHANGED vars

(* open() of /dev/null gives a descriptor, dup2() puts it over the standard*)
(* ones, whatever they were, and the first one is closed; without /dev/null*)
(* none of this has an effect.                                             *)
Detach ==
  /\ at = "child" /\ at' = "handlers"
  /\ \/ UNCHANGED table
     \/ table' = [d \in (DOMAIN table \cup Standard) \ {FreeFd} |->
                    IF d \in Standard THEN "null" ELSE table[d]]
  /\ UNCHANGED <<opts, parent, shell, pidFile>> /\ UNCHANGED vars

InstallHandlers == /\ at = "handlers" /\ at' = "loop"
                   /\ UNCHANGED <<opts, parent, shell, pidFile, table>> /\ UNCHANGED vars

(* SIGTERM or SIGINT before the handlers are there.  The two processes are *)
(* signalled one by one; a signal to both is two steps.                    *)
Kill == /\ at \in {"options", "init", "child", "handlers"}
        /\ at' = "killed"
        /\ shell' = IF parent = "none" THEN "failure" ELSE shell
        /\ UNCHANGED <<opts, parent, pidFile, table>> /\ UNCHANGED vars

(* The parent never installs a handler: it can be killed from fork() to its*)
(* exit(), with the pid file as old, empty or written as it is by then.    *)
KillParent == /\ parent \in {"fopen", "fprintf", "exit"}
              /\ parent' = "killed" /\ shell' = "failure"
              /\ UNCHANGED <<opts, at, pidFile, table>> /\ UNCHANGED vars

MainNext == \/ Options \/ Initialise \/ InitFails \/ StayInForeground \/ Fork
            \/ OpenPidFile \/ WritePidFile \/ ParentExits
            \/ Detach \/ InstallHandlers \/ Kill \/ KillParent

MainSpec == MainInit /\ [][MainNext]_<<vars, mainVars>>

-----------------------------------------------------------------------------

MainTypeOK ==
  /\ TypeOK
  /\ opts \in [usage : BOOLEAN, conf : BOOLEAN, detach : BOOLEAN, pidFile : BOOLEAN]
  /\ at \in {"options", "init", "child", "handlers", "loop", "exited", "killed"}
  /\ parent \in {"none", "fopen", "fprintf", "exit", "gone", "killed"}
  /\ shell \in {"running", "success", "failure"}
  /\ pidFile \in {"old", "empty", "child", "broken"}
  /\ DOMAIN table \subseteq Nat
  /\ \A d \in DOMAIN table : table[d] \in {"socket", "other", "null"}

(* What the exit status tells the caller, however parent and child take    *)
(* their turns and whichever of them a signal kills.  Success, other than  *)
(* for the usage, means that every interface has been opened and that the  *)
(* parent is done with the pid file.  A failure means that there is no     *)
(* daemon and the pid file is untouched, but for one case: the parent was  *)
(* killed, then the interfaces are open, and child and pid file may have   *)
(* come to anything.  No pid file is written without a fork(), that is, if *)
(* it fails or was not asked for, none stays empty but under a killed      *)
(* parent, and whoever waits for a daemon in the foreground is not told of *)
(* its end before it comes.                                                *)
StatusTellsOutcome ==
  /\ shell = "success" /\ ~opts.usage
       => pc = "ready" /\ parent = "gone" /\ pidFile # "empty"
  /\ shell = "failure"
       => \/ at \in {"exited", "killed"} /\ parent = "none" /\ pidFile = "old"
          \/ pc = "ready" /\ parent = "killed"
  /\ parent = "killed" => shell = "failure" /\ opts.detach
  /\ pidFile # "old" => pc = "ready" /\ parent # "none" /\ opts.detach /\ opts.pidFile
  /\ pidFile = "empty" => parent \in {"fprintf", "killed"}
  /\ at \in {"handlers", "loop"} => pc = "ready" /\ (parent = "none" => shell = "running")

(* Detaching costs the daemon none of its sockets and leaves no descriptor *)
(* behind, if the program was started with all standard descriptors open.  *)
(* (Otherwise a socket may get one of these numbers and is lost.)          *)
DetachKeepsSockets ==
  at \in {"handlers", "loop"} /\ Standard \subseteq taken =>
    {d \in DOMAIN table : table[d] = "socket"} = {made[i].fd : i \in DOMAIN made}
      /\ DOMAIN table = open \cup taken
=============================================================================
