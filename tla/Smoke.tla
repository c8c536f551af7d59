------------------------------- MODULE Smoke -------------------------------
(***************************************************************************)
(* tools/qemu_smoke.py and the guest it drives, over one serial line: the  *)
(* harness waits for a prompt, types a command, and looks for its markers  *)
(* in what comes back.  The guest boots as in Boot; what it writes after   *)
(* that is seen only if descriptor 1 is the console.                       *)
(*                                                                         *)
(* A command is a number, the last one is `exit'.  What the guest writes   *)
(* is a sequence of tokens: the prompt, a message, the echo of a typed     *)
(* line, the output of a command.  A token that arrives in two chunks      *)
(* counts when the second one is there.                                    *)
(*                                                                         *)
(* The test asks for some markers, each a piece of text, and not for one   *)
(* per command: a marker is here the set of the tokens its text is part    *)
(* of.  `pwd' has none; those of `echo' are part of the typed line too,    *)
(* and come back as its echo; those of `issue' and the paths of `ls' are   *)
(* in what PID 1 or an earlier command wrote.                              *)
(***************************************************************************)
EXTENDS Boot, Sequences, SequencesExt

CONSTANTS
    N,              \* commands
    Marks           \* the required markers

VARIABLES
    guest,          \* "down": no shell; else what the shell does
    wire, tty,      \* typed, and received by the console of the guest
    out,            \* written by the guest, not yet read by the harness
    done,           \* history: the commands that ran to their end
    failed,         \* history: the commands that failed
    garbled,        \* history: a message fell into a prompt
    qemu,           \* qemu runs
    late,           \* the deadline has passed
    pc, seen, prompts, last_prompt_seen_at, sent, verdict   \* the harness

line == <<wire, tty, out>>
shell == <<guest, done, failed, garbled>>
harness == <<pc, seen, prompts, last_prompt_seen_at, sent, verdict>>
smokeVars == <<vars, line, shell, harness, qemu, late>>

Prompt == [kind |-> "prompt", of |-> 0]
Spawning == [kind |-> "spawning", of |-> 0]
Noise == [kind |-> "noise", of |-> 0]
Echo(c) == [kind |-> "echo", of |-> c]
Output(c) == [kind |-> "output", of |-> c]

(* The list of commands ends with the exit, and only the exit itself       *)
(* writes its marker, "[8CL:msh] exiting".                                 *)
ASSUME SmokeAssumption == N \in Nat \ {0} /\ {Output(N)} \in Marks

SmokeInit ==
    /\ Init
    /\ guest = "down" /\ wire = <<>> /\ tty = <<>> /\ out = <<>>
    /\ done = <<>> /\ failed = {} /\ garbled = FALSE /\ qemu = TRUE /\ late = FALSE
    /\ pc = "loop" /\ seen = {} /\ prompts = 0 /\ last_prompt_seen_at = 0
    /\ sent = 0 /\ verdict = "none"

Write(token) == out' = IF fds[1] = "console" THEN Append(out, token) ELSE out

----------------------------------------------------------------------------
(* The guest. *)

GuestBoots ==
    /\ qemu /\ at # "supervise_msh"
    /\ Next
    /\ UNCHANGED <<line, shell, harness, qemu, late>>

(* PID 1 starts a shell, the first one or the next. *)
Spawn ==
    /\ qemu /\ at = "supervise_msh" /\ guest = "down"
    /\ guest' = "prompt" /\ Write(Spawning)
    /\ UNCHANGED <<vars, wire, tty, done, failed, garbled, harness, qemu, late>>

(* A message of the kernel may fall into the middle of the prompt. *)
WritePrompt ==
    /\ qemu /\ guest = "prompt"
    /\ guest' = "read"
    /\ \/ Write(Prompt) /\ UNCHANGED garbled
       \/ Write(Noise) /\ garbled' = TRUE
    /\ UNCHANGED <<vars, wire, tty, done, failed, harness, qemu, late>>

(* External: the console echoes a line when it arrives. *)
Receive ==
    /\ qemu /\ wire # <<>>
    /\ wire' = Tail(wire) /\ tty' = Append(tty, Head(wire))
    /\ Write(Echo(Head(wire)))
    /\ UNCHANGED <<vars, shell, harness, qemu, late>>

ReadLine ==
    /\ qemu /\ guest = "read" /\ tty # <<>> /\ fds[0] = "console"
    /\ guest' = "run"
    /\ UNCHANGED <<vars, line, done, failed, garbled, harness, qemu, late>>

(* A command writes its output, or a message that it failed. *)
RunCommand ==
    /\ qemu /\ guest = "run"
    /\ tty' = Tail(tty) /\ done' = Append(done, Head(tty))
    /\ \/ Write(Output(Head(tty))) /\ UNCHANGED failed
       \/ Head(tty) # N /\ Write(Noise) /\ failed' = failed \cup {Head(tty)}
    /\ guest' = IF Head(tty) = N THEN "down" ELSE "prompt"
    /\ UNCHANGED <<vars, wire, garbled, harness, qemu, late>>

(* A panic, or qemu itself. *)
QemuExits ==
    /\ qemu /\ qemu' = FALSE
    /\ UNCHANGED <<vars, line, shell, harness, late>>

Deadline ==
    /\ ~late /\ late' = TRUE
    /\ UNCHANGED <<vars, line, shell, harness, qemu>>

----------------------------------------------------------------------------
(* The harness. *)

world == <<vars, shell, qemu, late>>

(* Mutant: the deadline is not looked at. *)
LoopWhileItRuns ==
    /\ pc = "loop"
    /\ pc' = IF ~qemu THEN "finally" ELSE "select"
    /\ UNCHANGED <<world, line, seen, prompts, last_prompt_seen_at, sent, verdict>>

Loop ==
    /\ pc = "loop"
    /\ pc' = IF late \/ ~qemu THEN "finally" ELSE "select"
    /\ UNCHANGED <<world, line, seen, prompts, last_prompt_seen_at, sent, verdict>>

(* output.count("msh>"), over what has arrived. *)
PromptsIn(tokens) == Cardinality({j \in DOMAIN tokens : tokens[j] = Prompt})

(* select and read: a chunk, or nothing for a quarter of a second, or an   *)
(* error once qemu is gone.                                                *)
ReadChunk ==
    /\ pc = "select" /\ out # <<>>
    /\ \E n \in 1 .. Len(out) :
           LET chunk == SubSeq(out, 1, n) IN
           /\ out' = SubSeq(out, n + 1, Len(out))
           /\ seen' = seen \cup ToSet(chunk)
           /\ prompts' = prompts + PromptsIn(chunk)
    /\ pc' = "send"
    /\ UNCHANGED <<world, wire, tty, last_prompt_seen_at, sent, verdict>>

ReadNothing ==
    /\ pc = "select" /\ out = <<>>
    /\ pc' = IF qemu THEN "send" ELSE "finally"
    /\ UNCHANGED <<world, line, seen, prompts, last_prompt_seen_at, sent, verdict>>

(* all(m in output for m in required) *)
Required == \A m \in Marks : m \cap seen # {}

(* Mutant: the count of the prompts is not kept. *)
SendForOldPrompt ==
    /\ pc = "send"
    /\ IF sent < N /\ prompts > last_prompt_seen_at
       THEN sent' = sent + 1 /\ wire' = Append(wire, sent + 1) ELSE UNCHANGED <<sent, wire>>
    /\ pc' = IF sent' >= N /\ Required THEN "finally" ELSE "loop"
    /\ UNCHANGED <<world, tty, out, seen, prompts, last_prompt_seen_at, verdict>>

(* Mutant: a command for every second prompt. *)
SendForSecondPrompt ==
    /\ pc = "send"
    /\ IF sent < N /\ prompts > last_prompt_seen_at
       THEN /\ last_prompt_seen_at' = prompts + 1
            /\ sent' = sent + 1 /\ wire' = Append(wire, sent + 1)
       ELSE UNCHANGED <<last_prompt_seen_at, sent, wire>>
    /\ pc' = IF sent' >= N /\ Required THEN "finally" ELSE "loop"
    /\ UNCHANGED <<world, tty, out, seen, prompts, verdict>>

(* One command per newly observed prompt; done when all were sent and all  *)
(* markers are there.                                                      *)
Send ==
    /\ pc = "send"
    /\ IF sent < N /\ prompts > last_prompt_seen_at
       THEN /\ last_prompt_seen_at' = prompts
            /\ sent' = sent + 1 /\ wire' = Append(wire, sent + 1)
       ELSE UNCHANGED <<last_prompt_seen_at, sent, wire>>
    /\ pc' = IF sent' >= N /\ Required THEN "finally" ELSE "loop"
    /\ UNCHANGED <<world, tty, out, seen, prompts, verdict>>

(* Mutant: having sent everything counts. *)
FinishOnceSent ==
    /\ pc = "finally"
    /\ pc' = "done" /\ qemu' = FALSE
    /\ verdict' = IF sent = N THEN "passed" ELSE "failed"
    /\ UNCHANGED <<vars, line, shell, late, seen, prompts, last_prompt_seen_at, sent>>

(* terminate, then the markers once more. *)
Finish ==
    /\ pc = "finally"
    /\ pc' = "done" /\ qemu' = FALSE
    /\ verdict' = IF Required THEN "passed" ELSE "failed"
    /\ UNCHANGED <<vars, line, shell, late, seen, prompts, last_prompt_seen_at, sent>>

Guest == GuestBoots \/ Spawn \/ WritePrompt \/ Receive \/ ReadLine \/ RunCommand
Harness == Loop \/ ReadChunk \/ ReadNothing \/ Send \/ Finish

Ended == pc = "done" /\ UNCHANGED smokeVars

SmokeNext == Guest \/ QemuExits \/ Deadline \/ Harness \/ Ended

(* Both programs run on.  Neither the deadline nor the end of qemu is      *)
(* certain: a session may be over before them.                             *)
SmokeSpec ==
    /\ SmokeInit /\ [][SmokeNext]_smokeVars
    /\ WF_smokeVars(Guest) /\ WF_smokeVars(Harness)

----------------------------------------------------------------------------
(* Whatever fails, the boot goes on to the shell ("continuing in cursed    *)
(* mode"), with every mount tried and reported, unless the deadline passes *)
(* or qemu exits by itself.                                                *)
BootReachesShell ==
    \/ <>(at = "supervise_msh" /\ \A t \in Targets : reported[t] # "nothing")
    \/ <>(late \/ (~qemu /\ verdict = "none"))

(* "Send one command per newly observed prompt": a command is typed only   *)
(* when the one before it has ended, so that none can read the next one as *)
(* its input, however late or in whatever pieces the output arrives.       *)
NoTypeAhead == sent <= Len(done) + 1

(* The two never wait for each other: when the shell waits for a line, and *)
(* nothing is under way in either direction, every command has been sent,  *)
(* whether or not commands before it failed; only a garbled prompt, or a   *)
(* descriptor 1 that is not the console, leaves them so until the          *)
(* deadline.                                                               *)
NoStandoff ==
    ~(/\ guest = "read" /\ line = <<<<>>, <<>>, <<>>>> /\ pc = "loop" /\ sent < N
      /\ fds[1] = "console" /\ ~garbled)

(* What "boot smoke passed" says of the session: the boot claimed the      *)
(* console, and every command was read, in order, and ended, the exit too; *)
(* and a command with a marker that nothing but its own output contains    *)
(* did not fail.  Of the others (`pwd', `echo', `issue') it does not say   *)
(* that they worked.                                                       *)
PassMeansSession ==
    verdict = "passed" =>
        /\ fds[0] = "console" /\ fds[1] = "console"
        /\ done = [c \in 1 .. N |-> c]
        /\ \A c \in failed : {Output(c)} \notin Marks

(* After the deadline, or the end of qemu, the test ends, whatever the     *)
(* guest is doing and however much it still writes.                        *)
SmokeEnds == (late \/ ~qemu) ~> (verdict # "none")
=============================================================================
