---------------------------- MODULE SmokeProofs ----------------------------
(***************************************************************************)
(* The boot smoke test keeps in step with the guest, for any number of     *)
(* commands, any division of the output into chunks, any garbled prompts,  *)
(* failing commands, deadline and end of qemu.                             *)
(***************************************************************************)
EXTENDS Smoke, FiniteSetTheorems, TLAPS

(* A step that takes longer than the usual limits is given more time, so   *)
(* that what is proved does not depend on how fast the machine is.         *)
USE SMT, Zenon, SMTT(60), ZenonT(60)

USE SmokeAssumption

Token == [kind : {"prompt", "spawning", "noise", "echo", "output"}, of : Nat]
Up == at = "supervise_msh"

TypeInv ==
    /\ guest \in {"down", "prompt", "read", "run"}
    /\ wire \in Seq(Nat) /\ tty \in Seq(Nat) /\ done \in Seq(Nat) /\ out \in Seq(Token)
    /\ prompts \in Nat /\ last_prompt_seen_at \in Nat /\ sent \in Nat

(* Before the boot has come to its end nothing is written or typed. *)
BootInv ==
    ~Up => /\ guest = "down" /\ done = <<>> /\ tty = <<>> /\ wire = <<>> /\ out = <<>>
           /\ seen = {} /\ prompts = 0 /\ sent = 0

(* The commands that ran, the lines received and the lines on the wire are *)
(* together the commands typed, in order.                                  *)
LinesInv ==
    /\ Len(done) + Len(tty) + Len(wire) = sent /\ sent <= N
    /\ \A j \in 1 .. Len(done) : done[j] = j
    /\ \A j \in 1 .. Len(tty) : tty[j] = Len(done) + j
    /\ \A j \in 1 .. Len(wire) : wire[j] = Len(done) + Len(tty) + j
    /\ guest = "run" => tty # <<>>

(* A prompt is written for each line that is read: those the harness has   *)
(* counted and those still in the output are at most the commands that     *)
(* ended and the one that is read or runs, and no fewer unless one was     *)
(* garbled or cannot be seen.                                              *)
Pending == IF guest \in {"read", "run"} THEN 1 ELSE 0

PromptInv ==
    /\ prompts + PromptsIn(out) <= Len(done) + Pending
    /\ ~garbled /\ fds[1] = "console" => prompts + PromptsIn(out) = Len(done) + Pending

(* One command per prompt, so the mark of the last prompt is the number of *)
(* commands; at the head of the loop no prompt waits for its command.      *)
HarnessInv ==
    /\ last_prompt_seen_at = sent /\ sent <= prompts
    /\ pc \in {"loop", "select"} /\ sent < N => prompts = sent

(* What was seen was written to the console, and an output by a command    *)
(* that has ended without failing.                                         *)
SeenInv ==
    /\ seen # {} \/ out # <<>> => fds[1] = "console"
    /\ guest = "run" \/ done # <<>> => fds[0] = "console"
    /\ \A c \in failed : c \in Nat /\ c <= Len(done)
    /\ \A c \in Nat : Output(c) \in seen => c <= Len(done) /\ c \notin failed
    /\ \A j \in 1 .. Len(out), c \in Nat :
           out[j] = Output(c) => c <= Len(done) /\ c \notin failed
    /\ pc = "done" => ~qemu
    /\ verdict # "none" => pc = "done"
    /\ PassMeansSession

IInv == TypeInv /\ BootInv /\ LinesInv /\ PromptInv /\ HarnessInv /\ SeenInv

(***************************************************************************)
(* Prompts in a piece of output                                            *)
(***************************************************************************)

PromptPlaces(s) == {j \in DOMAIN s : s[j] = Prompt}

LEMMA PlacesFinite ==
    ASSUME NEW s \in Seq(Token)
    PROVE  IsFiniteSet(PromptPlaces(s)) /\ PromptsIn(s) = Cardinality(PromptPlaces(s))
           /\ PromptsIn(s) \in Nat
<1>1. IsFiniteSet(1 .. Len(s))  BY FS_Interval
<1>2. PromptPlaces(s) \in SUBSET (1 .. Len(s))  BY DEF PromptPlaces
<1>3. IsFiniteSet(PromptPlaces(s))  BY <1>1, <1>2, FS_Subset
<1>. QED BY <1>3, FS_CardinalityType DEF PromptsIn, PromptPlaces

LEMMA PromptsNone == PromptsIn(<<>>) = 0
<1>1. {j \in DOMAIN <<>> : <<>>[j] = Prompt} = {}  OBVIOUS
<1>. QED BY <1>1, FS_EmptySet DEF PromptsIn

LEMMA PromptsAppend ==
    ASSUME NEW s \in Seq(Token), NEW t \in Token
    PROVE  PromptsIn(Append(s, t)) = PromptsIn(s) + (IF t = Prompt THEN 1 ELSE 0)
<1>. DEFINE r == Append(s, t)
<1>1. r \in Seq(Token) /\ DOMAIN r = 1 .. Len(s) + 1 /\ DOMAIN s = 1 .. Len(s) /\ Len(s) \in Nat
  OBVIOUS
<1>2. r[Len(s) + 1] = t /\ \A j \in 1 .. Len(s) : r[j] = s[j]  OBVIOUS
<1>. HIDE DEF r
<1>5. PromptsIn(r) = Cardinality(PromptPlaces(r))  BY <1>1, PlacesFinite
<1>6. /\ IsFiniteSet(PromptPlaces(s)) /\ PromptsIn(s) = Cardinality(PromptPlaces(s))
      /\ PromptsIn(s) \in Nat
  BY PlacesFinite
<1>3. CASE t = Prompt
  <2>1. PromptPlaces(r) = PromptPlaces(s) \cup {Len(s) + 1} /\ Len(s) + 1 \notin PromptPlaces(s)
    BY <1>1, <1>2, <1>3 DEF PromptPlaces
  <2>2. Cardinality(PromptPlaces(r)) = Cardinality(PromptPlaces(s)) + 1
    BY <1>6, <2>1, FS_AddElement
  <2>. QED BY <1>3, <1>5, <1>6, <2>2 DEF r
<1>4. CASE t # Prompt
  <2>1. PromptPlaces(r) = PromptPlaces(s)  BY <1>1, <1>2, <1>4 DEF PromptPlaces
  <2>. QED BY <1>4, <1>5, <1>6, <2>1 DEF r
<1>. QED BY <1>3, <1>4

(* The head and the rest of the output have the prompts of the whole.      *)
LEMMA PromptsSplit ==
    ASSUME NEW s \in Seq(Token), NEW n \in 1 .. Len(s)
    PROVE  /\ SubSeq(s, 1, n) \in Seq(Token) /\ SubSeq(s, n + 1, Len(s)) \in Seq(Token)
           /\ PromptsIn(SubSeq(s, 1, n)) + PromptsIn(SubSeq(s, n + 1, Len(s))) = PromptsIn(s)
<1>. DEFINE head == SubSeq(s, 1, n)
            rest == SubSeq(s, n + 1, Len(s))
            later == {j \in PromptPlaces(s) : j > n}
<1>1. Len(s) \in Nat /\ n \in Nat /\ n <= Len(s)  OBVIOUS
<1>2. head \in Seq(Token) /\ Len(head) = n /\ \A j \in 1 .. n : head[j] = s[j]  BY <1>1
<1>3. /\ rest \in Seq(Token) /\ Len(rest) = Len(s) - n
      /\ \A j \in 1 .. Len(s) - n : rest[j] = s[n + j]
  BY <1>1
<1>4. DOMAIN s = 1 .. Len(s) /\ DOMAIN head = 1 .. n /\ DOMAIN rest = 1 .. Len(s) - n
  BY <1>1, <1>2, <1>3
<1>. HIDE DEF head, rest
<1>5. /\ PromptPlaces(s) = PromptPlaces(head) \cup later
      /\ PromptPlaces(head) \cap later = {} /\ later \in SUBSET PromptPlaces(s)
  BY <1>1, <1>2, <1>4 DEF PromptPlaces
<1>6. Cardinality(later) = Cardinality(PromptPlaces(rest))
  <2>. DEFINE shift == [j \in PromptPlaces(rest) |-> n + j]
  <2>1. \A j \in PromptPlaces(rest) : n + j \in later
    BY <1>1, <1>3, <1>4 DEF PromptPlaces
  <2>2. \A l \in later : l - n \in PromptPlaces(rest) /\ n + (l - n) = l
    BY <1>1, <1>3, <1>4 DEF PromptPlaces
  <2>3. \A i, j \in PromptPlaces(rest) : n + i = n + j => i = j
    BY <1>1, <1>4 DEF PromptPlaces
  <2>. HIDE DEF later
  <2>4. shift \in [PromptPlaces(rest) -> later]  BY <2>1
  <2>5. \A i, j \in PromptPlaces(rest) : shift[i] = shift[j] => i = j  BY <2>3
  <2>6. \A l \in later : \E j \in PromptPlaces(rest) : shift[j] = l  BY <2>2
  <2>. HIDE DEF shift
  <2>7. shift \in Bijection(PromptPlaces(rest), later)
    BY <2>4, <2>5, <2>6 DEF Bijection, Injection, Surjection, IsInjective
  <2>. QED BY <1>3, <2>7, PlacesFinite, FS_Bijection DEF ExistsBijection
<1>7. IsFiniteSet(later)  BY <1>5, PlacesFinite, FS_Subset
<1>8. Cardinality(PromptPlaces(s)) = Cardinality(PromptPlaces(head)) + Cardinality(later)
  <2>1. IsFiniteSet(PromptPlaces(head))  BY <1>2, PlacesFinite
  <2>2. Cardinality(PromptPlaces(head) \cup later)
            = Cardinality(PromptPlaces(head)) + Cardinality(later) - Cardinality({})
    BY <1>5, <1>7, <2>1, FS_Union
  <2>3. Cardinality(PromptPlaces(head)) \in Nat /\ Cardinality(later) \in Nat
    BY <1>7, <2>1, FS_CardinalityType
  <2>4. Cardinality({}) = 0  BY FS_EmptySet
  <2>5. \A x, y \in Nat : x + y - 0 = x + y  OBVIOUS
  <2>. HIDE DEF later
  <2>. QED BY <1>5, <2>2, <2>3, <2>4, <2>5
<1>. QED BY <1>2, <1>3, <1>6, <1>8, PlacesFinite DEF head, rest

(***************************************************************************)
(* The invariant                                                           *)
(***************************************************************************)

LEMMA Tokens ==
    /\ Prompt \in Token /\ Spawning \in Token /\ Noise \in Token
    /\ \A c \in Nat : Echo(c) \in Token /\ Output(c) \in Token
    /\ Spawning # Prompt /\ Noise # Prompt
    /\ \A c \in Nat : Echo(c) # Prompt /\ Output(c) # Prompt
    /\ \A c, b \in Nat : /\ Output(c) # Echo(b) /\ Output(c) # Prompt
                         /\ Output(c) # Spawning /\ Output(c) # Noise
                         /\ Output(c) = Output(b) => c = b
BY DEF Token, Prompt, Spawning, Noise, Echo, Output

LEMMA SmokeInitInv == SmokeInit => IInv
<1>. SUFFICES ASSUME SmokeInit PROVE IInv  OBVIOUS
<1>1. TypeInv /\ BootInv  BY DEF SmokeInit, TypeInv, BootInv
<1>2. LinesInv  BY DEF SmokeInit, LinesInv
<1>3. PromptInv  BY PromptsNone DEF SmokeInit, PromptInv, Pending
<1>4. HarnessInv  BY DEF SmokeInit, HarnessInv
<1>5. SeenInv  BY DEF SmokeInit, SeenInv, PassMeansSession
<1>. QED BY <1>1, <1>2, <1>3, <1>4, <1>5 DEF IInv

(* A step of the boot: nothing has been written or typed yet. *)
LEMMA BootStep == IInv /\ GuestBoots => IInv'
<1>. SUFFICES ASSUME IInv, GuestBoots PROVE IInv'  OBVIOUS
<1>1. /\ ~Up /\ UNCHANGED <<guest, done, failed, garbled, wire, tty, out, qemu, late>>
      /\ UNCHANGED <<pc, seen, prompts, last_prompt_seen_at, sent, verdict>>
  BY DEF GuestBoots, Up, line, shell, harness
<1>2. /\ guest = "down" /\ done = <<>> /\ tty = <<>> /\ wire = <<>> /\ out = <<>>
      /\ seen = {} /\ prompts = 0 /\ sent = 0
  BY <1>1 DEF IInv, BootInv
<1>3. verdict # "passed"
  BY <1>2 DEF IInv, SeenInv, PassMeansSession
<1>4. TypeInv' /\ BootInv'  BY <1>1, <1>2 DEF IInv, TypeInv, BootInv, Up
<1>5. LinesInv'  BY <1>1 DEF IInv, LinesInv
<1>6. PromptInv'  BY <1>1, <1>2, PromptsNone DEF PromptInv, Pending
<1>7. HarnessInv'  BY <1>1 DEF IInv, HarnessInv
<1>8. SeenInv'  BY <1>1, <1>2, <1>3 DEF IInv, SeenInv, PassMeansSession
<1>. QED BY <1>4, <1>5, <1>6, <1>7, <1>8 DEF IInv

(* What a step that writes one token does to the output. *)
LEMMA WriteFacts ==
    ASSUME NEW t \in Token, out \in Seq(Token), Write(t)
    PROVE  /\ out' \in Seq(Token)
           /\ fds[1] # "console" => out' = out
           /\ fds[1] = "console" =>
                  /\ PromptsIn(out') = PromptsIn(out) + (IF t = Prompt THEN 1 ELSE 0)
                  /\ \A j \in 1 .. Len(out') :
                         out'[j] = t \/ (j \in 1 .. Len(out) /\ out'[j] = out[j])
<1>1. CASE fds[1] = "console"
  <2>1. out' = Append(out, t)  BY <1>1 DEF Write
  <2>2. PromptsIn(out') = PromptsIn(out) + (IF t = Prompt THEN 1 ELSE 0)  BY <2>1, PromptsAppend
  <2>3. out' \in Seq(Token) /\ Len(out') = Len(out) + 1 /\ out'[Len(out) + 1] = t
        /\ \A j \in 1 .. Len(out) : out'[j] = out[j]
    BY <2>1
  <2>. QED BY <1>1, <2>2, <2>3
<1>2. CASE fds[1] # "console"
  BY <1>2 DEF Write
<1>. QED BY <1>1, <1>2

(* After the boot, while qemu runs, the verdict is still open.             *)
LEMMA VerdictOpen ==
    ASSUME IInv, qemu
    PROVE  verdict = "none" /\ pc # "done"
BY DEF IInv, SeenInv

LEMMA SpawnStep == IInv /\ Spawn => IInv'
<1>. SUFFICES ASSUME IInv, Spawn PROVE IInv'  OBVIOUS
<1>1. /\ Up /\ guest = "down" /\ guest' = "prompt" /\ Write(Spawning)
      /\ UNCHANGED <<at, fds, wire, tty, done, failed, garbled, qemu, late>>
      /\ UNCHANGED <<pc, seen, prompts, last_prompt_seen_at, sent, verdict>>
  BY DEF Spawn, Up, vars, harness
<1>2. verdict = "none"  BY VerdictOpen DEF Spawn
<1>3. /\ out' \in Seq(Token)
      /\ fds[1] # "console" => out' = out
      /\ fds[1] = "console" =>
             /\ PromptsIn(out') = PromptsIn(out) + 0
             /\ \A j \in 1 .. Len(out') :
                    out'[j] = Spawning \/ (j \in 1 .. Len(out) /\ out'[j] = out[j])
  BY <1>1, Tokens, WriteFacts DEF IInv, TypeInv
<1>4. PromptsIn(out) \in Nat  BY PlacesFinite DEF IInv, TypeInv
<1>5. TypeInv' /\ BootInv'  BY <1>1, <1>3 DEF IInv, TypeInv, BootInv, Up
<1>6. LinesInv' /\ HarnessInv'  BY <1>1 DEF IInv, LinesInv, HarnessInv
<1>7. PromptInv'  BY <1>1, <1>3, <1>4 DEF IInv, PromptInv, Pending
<1>8. SeenInv'  BY <1>1, <1>2, <1>3, Tokens DEF IInv, SeenInv, PassMeansSession
<1>. QED BY <1>5, <1>6, <1>7, <1>8 DEF IInv

LEMMA PromptStep == IInv /\ WritePrompt => IInv'
<1>. SUFFICES ASSUME IInv, WritePrompt PROVE IInv'  OBVIOUS
<1>1. /\ guest = "prompt" /\ guest' = "read" /\ Up
      /\ UNCHANGED <<at, fds, wire, tty, done, failed, qemu, late>>
      /\ UNCHANGED <<pc, seen, prompts, last_prompt_seen_at, sent, verdict>>
  BY DEF WritePrompt, Up, vars, harness, IInv, BootInv
<1>2. PICK t \in {Prompt, Noise} :
          Write(t) /\ IF t = Prompt THEN UNCHANGED garbled ELSE garbled' = TRUE
  BY Tokens DEF WritePrompt
<1>3. verdict = "none"  BY VerdictOpen DEF WritePrompt
<1>4. /\ out' \in Seq(Token)
      /\ fds[1] # "console" => out' = out
      /\ fds[1] = "console" =>
             /\ PromptsIn(out') = PromptsIn(out) + (IF t = Prompt THEN 1 ELSE 0)
             /\ \A j \in 1 .. Len(out') :
                    out'[j] = t \/ (j \in 1 .. Len(out) /\ out'[j] = out[j])
  BY <1>2, Tokens, WriteFacts DEF IInv, TypeInv
<1>5. PromptsIn(out) \in Nat /\ Len(done) \in Nat /\ prompts \in Nat
  BY PlacesFinite DEF IInv, TypeInv
<1>6. TypeInv' /\ BootInv'  BY <1>1, <1>4 DEF IInv, TypeInv, BootInv, Up
<1>7. LinesInv' /\ HarnessInv'  BY <1>1 DEF IInv, LinesInv, HarnessInv
<1>8. PromptInv'
  <2>. Pending = 0 /\ Pending' = 1  BY <1>1 DEF Pending
  <2>1. PromptInv  BY DEF IInv
  <2>2. CASE fds[1] # "console"  BY <1>1, <1>4, <1>5, <2>1, <2>2 DEF PromptInv
  <2>3. CASE fds[1] = "console" /\ t = Prompt
    <3>1. PromptsIn(out') = PromptsIn(out) + 1 /\ garbled' = garbled  BY <1>2, <1>4, <2>3
    <3>. QED BY <1>1, <1>5, <2>1, <3>1 DEF PromptInv
  <2>4. CASE fds[1] = "console" /\ t # Prompt
    <3>1. PromptsIn(out') = PromptsIn(out) + 0 /\ garbled'  BY <1>2, <1>4, <2>4
    <3>. QED BY <1>1, <1>5, <2>1, <3>1 DEF PromptInv
  <2>. QED BY <2>2, <2>3, <2>4
<1>9. SeenInv'  BY <1>1, <1>2, <1>3, <1>4, Tokens DEF IInv, SeenInv, PassMeansSession
<1>. QED BY <1>6, <1>7, <1>8, <1>9 DEF IInv

LEMMA ReceiveStep == IInv /\ Receive => IInv'
<1>. SUFFICES ASSUME IInv, Receive PROVE IInv'  OBVIOUS
<1>1. /\ wire # <<>> /\ wire' = Tail(wire) /\ tty' = Append(tty, Head(wire)) /\ Write(Echo(Head(wire)))
      /\ UNCHANGED <<at, fds, guest, done, failed, garbled, qemu, late>>
      /\ UNCHANGED <<pc, seen, prompts, last_prompt_seen_at, sent, verdict>>
  BY DEF Receive, vars, shell, harness
<1>2. Up  BY <1>1 DEF IInv, BootInv
<1>3. verdict = "none"  BY VerdictOpen DEF Receive
<1>4. /\ wire \in Seq(Nat) /\ tty \in Seq(Nat) /\ Len(wire) > 0 /\ Head(wire) = wire[1]
      /\ Head(wire) \in Nat /\ Len(done) \in Nat /\ Len(tty) \in Nat
  BY <1>1 DEF IInv, TypeInv
<1>5. /\ out' \in Seq(Token)
      /\ fds[1] # "console" => out' = out
      /\ fds[1] = "console" =>
             /\ PromptsIn(out') = PromptsIn(out) + 0
             /\ \A j \in 1 .. Len(out') :
                    out'[j] = Echo(wire[1]) \/ (j \in 1 .. Len(out) /\ out'[j] = out[j])
  BY <1>1, <1>4, Tokens, WriteFacts DEF IInv, TypeInv
<1>6. /\ wire' \in Seq(Nat) /\ Len(wire') = Len(wire) - 1
      /\ \A j \in 1 .. Len(wire) - 1 : wire'[j] = wire[j + 1]
      /\ tty' \in Seq(Nat) /\ Len(tty') = Len(tty) + 1 /\ tty'[Len(tty) + 1] = wire[1]
      /\ \A j \in 1 .. Len(tty) : tty'[j] = tty[j]
  BY <1>1, <1>4
<1>7. PromptsIn(out) \in Nat  BY PlacesFinite DEF IInv, TypeInv
<1>8. TypeInv' /\ BootInv'  BY <1>1, <1>2, <1>5, <1>6 DEF IInv, TypeInv, BootInv, Up
<1>9. LinesInv'
  <2>1. Len(done) + Len(tty') + Len(wire') = sent  BY <1>4, <1>6 DEF IInv, LinesInv
  <2>2. \A j \in 1 .. Len(tty') : tty'[j] = Len(done) + j
    <3>1. wire[1] = Len(done) + Len(tty) + 1  BY <1>4 DEF IInv, LinesInv
    <3>2. tty'[Len(tty) + 1] = Len(done) + (Len(tty) + 1)  BY <1>4, <1>6, <3>1
    <3>3. \A j \in 1 .. Len(tty) : tty'[j] = Len(done) + j  BY <1>6 DEF IInv, LinesInv
    <3>4. \A j \in 1 .. Len(tty') : j \in 1 .. Len(tty) \/ j = Len(tty) + 1  BY <1>4, <1>6
    <3>. QED BY <3>2, <3>3, <3>4
  <2>3. \A j \in 1 .. Len(wire') : wire'[j] = Len(done) + Len(tty') + j
    <3>. SUFFICES ASSUME NEW j \in 1 .. Len(wire) - 1
                  PROVE  wire[j + 1] = Len(done) + (Len(tty) + 1) + j
      BY <1>6
    <3>1. j + 1 \in 1 .. Len(wire)  BY <1>4
    <3>. QED BY <1>4, <3>1 DEF IInv, LinesInv
  <2>4. guest = "run" => tty' # <<>>  BY <1>4, <1>6
  <2>. QED BY <1>1, <2>1, <2>2, <2>3, <2>4 DEF IInv, LinesInv
<1>10. HarnessInv'  BY <1>1 DEF IInv, HarnessInv
<1>11. PromptInv'  BY <1>1, <1>5, <1>7 DEF IInv, PromptInv, Pending
<1>12. SeenInv'  BY <1>1, <1>3, <1>4, <1>5, Tokens DEF IInv, SeenInv, PassMeansSession
<1>. QED BY <1>8, <1>9, <1>10, <1>11, <1>12 DEF IInv

LEMMA ReadLineStep == IInv /\ ReadLine => IInv'
<1>. SUFFICES ASSUME IInv, ReadLine PROVE IInv'  OBVIOUS
<1>1. /\ guest = "read" /\ guest' = "run" /\ tty # <<>> /\ fds[0] = "console"
      /\ UNCHANGED <<at, fds, wire, tty, out, done, failed, garbled, qemu, late>>
      /\ UNCHANGED <<pc, seen, prompts, last_prompt_seen_at, sent, verdict>>
  BY DEF ReadLine, vars, line, harness
<1>2. TypeInv' /\ BootInv'  BY <1>1 DEF IInv, TypeInv, BootInv, Up
<1>3. LinesInv' /\ HarnessInv'  BY <1>1 DEF IInv, LinesInv, HarnessInv
<1>4. PromptInv'  BY <1>1 DEF IInv, PromptInv, Pending
<1>5. SeenInv'  BY <1>1 DEF IInv, SeenInv, PassMeansSession
<1>. QED BY <1>2, <1>3, <1>4, <1>5 DEF IInv

(* A command ends, and with it the line it was. *)
LEMMA RunStep == IInv /\ RunCommand => IInv'
<1>. SUFFICES ASSUME IInv, RunCommand PROVE IInv'  OBVIOUS
<1>. DEFINE c == Head(tty)
<1>1. /\ guest = "run" /\ tty' = Tail(tty) /\ done' = Append(done, c)
      /\ guest' \in {"down", "prompt"}
      /\ UNCHANGED <<at, fds, wire, garbled, qemu, late>>
      /\ UNCHANGED <<pc, seen, prompts, last_prompt_seen_at, sent, verdict>>
  BY DEF RunCommand, vars, harness
<1>2. PICK t \in {Output(c), Noise} :
          Write(t) /\ failed' = IF t = Output(c) THEN failed ELSE failed \cup {c}
  BY <1>1, Tokens DEF RunCommand, IInv, TypeInv, LinesInv
<1>3. verdict = "none"  BY VerdictOpen DEF RunCommand
<1>4. tty # <<>> /\ Up /\ fds[0] = "console"  BY <1>1 DEF IInv, LinesInv, BootInv, SeenInv
<1>5. /\ tty \in Seq(Nat) /\ done \in Seq(Nat) /\ Len(tty) > 0 /\ c = tty[1] /\ c \in Nat
      /\ Len(done) \in Nat /\ Len(wire) \in Nat
  BY <1>4 DEF IInv, TypeInv
<1>6. c = Len(done) + 1  BY <1>5 DEF IInv, LinesInv
<1>7. /\ tty' \in Seq(Nat) /\ Len(tty') = Len(tty) - 1
      /\ \A j \in 1 .. Len(tty) - 1 : tty'[j] = tty[j + 1]
      /\ done' \in Seq(Nat) /\ Len(done') = Len(done) + 1 /\ done'[Len(done) + 1] = c
      /\ \A j \in 1 .. Len(done) : done'[j] = done[j]
  BY <1>1, <1>5
<1>. HIDE DEF c
<1>8. t \in Token /\ t # Prompt  BY <1>5, Tokens
<1>9. /\ out' \in Seq(Token)
      /\ fds[1] # "console" => out' = out
      /\ fds[1] = "console" =>
             /\ PromptsIn(out') = PromptsIn(out) + 0
             /\ \A j \in 1 .. Len(out') :
                    out'[j] = t \/ (j \in 1 .. Len(out) /\ out'[j] = out[j])
  BY <1>2, <1>8, WriteFacts DEF IInv, TypeInv
<1>10. PromptsIn(out) \in Nat  BY PlacesFinite DEF IInv, TypeInv
<1>11. TypeInv' /\ BootInv'  BY <1>1, <1>4, <1>7, <1>9 DEF IInv, TypeInv, BootInv, Up
<1>12. LinesInv'
  <2>1. Len(done') + Len(tty') + Len(wire) = sent  BY <1>5, <1>7 DEF IInv, LinesInv
  <2>2. \A j \in 1 .. Len(done') : done'[j] = j
    <3>1. done'[Len(done) + 1] = Len(done) + 1  BY <1>6, <1>7
    <3>2. \A j \in 1 .. Len(done) : done'[j] = j  BY <1>7 DEF IInv, LinesInv
    <3>3. \A j \in 1 .. Len(done') : j \in 1 .. Len(done) \/ j = Len(done) + 1  BY <1>5, <1>7
    <3>. QED BY <3>1, <3>2, <3>3
  <2>3. \A j \in 1 .. Len(tty') : tty'[j] = Len(done') + j
    <3>. SUFFICES ASSUME NEW j \in 1 .. Len(tty) - 1 PROVE tty[j + 1] = (Len(done) + 1) + j
      BY <1>7
    <3>1. j + 1 \in 1 .. Len(tty)  BY <1>5
    <3>. QED BY <1>5, <3>1 DEF IInv, LinesInv
  <2>4. \A j \in 1 .. Len(wire) : wire[j] = Len(done') + Len(tty') + j
    BY <1>5, <1>7 DEF IInv, LinesInv
  <2>. QED BY <1>1, <2>1, <2>2, <2>3, <2>4 DEF IInv, LinesInv
<1>13. HarnessInv'  BY <1>1 DEF IInv, HarnessInv
<1>14. PromptInv'
  <2>1. Pending = 1 /\ Pending' = 0  BY <1>1 DEF Pending
  <2>2. PromptsIn(out') = PromptsIn(out)  BY <1>9, <1>10
  <2>. QED BY <1>1, <1>2, <1>5, <1>7, <2>1, <2>2 DEF IInv, PromptInv
<1>15. SeenInv'
  <2>4. \A b \in failed : b \in Nat /\ b <= Len(done)  BY DEF IInv, SeenInv
  <2>5. /\ \A b \in failed' : b \in Nat /\ b <= Len(done')
        /\ \A b \in Nat : b <= Len(done) /\ b \notin failed => b \notin failed'
        /\ t = Output(c) => c \notin failed'
    BY <1>2, <1>5, <1>6, <1>7, <2>4
  <2>1. \A b \in Nat : Output(b) \in seen => b <= Len(done') /\ b \notin failed'
    <3>1. \A b \in Nat : Output(b) \in seen => b <= Len(done) /\ b \notin failed
      BY DEF IInv, SeenInv
    <3>. QED BY <1>5, <1>7, <2>5, <3>1
  <2>2. \A j \in 1 .. Len(out'), b \in Nat :
            out'[j] = Output(b) => b <= Len(done') /\ b \notin failed'
    <3>. SUFFICES ASSUME NEW j \in 1 .. Len(out'), NEW b \in Nat, out'[j] = Output(b)
                  PROVE  b <= Len(done) + 1 /\ b \notin failed'
      BY <1>7
    <3>1. out'[j] = t => b = c /\ t = Output(c)  BY <1>2, <1>5, Tokens
    <3>2. out'[j] = t \/ (j \in 1 .. Len(out) /\ out'[j] = out[j])  BY <1>9
    <3>3. j \in 1 .. Len(out) /\ out[j] = Output(b) => b <= Len(done) /\ b \notin failed
      BY DEF IInv, SeenInv
    <3>4. CASE out'[j] = t  BY <1>5, <1>6, <2>5, <3>1, <3>4
    <3>5. CASE out'[j] # t  BY <1>5, <2>5, <3>2, <3>3, <3>5
    <3>. QED BY <3>4, <3>5
  <2>3. seen # {} \/ out' # <<>> => fds[1] = "console"  BY <1>9 DEF IInv, SeenInv
  <2>. QED BY <1>1, <1>3, <1>4, <2>1, <2>2, <2>3, <2>5 DEF IInv, SeenInv, PassMeansSession
<1>. QED BY <1>11, <1>12, <1>13, <1>14, <1>15 DEF IInv

LEMMA LoopStep == IInv /\ (Loop \/ ReadNothing) => IInv'
<1>. SUFFICES ASSUME IInv, Loop \/ ReadNothing PROVE IInv'  OBVIOUS
<1>1. /\ pc \in {"loop", "select"} /\ pc' \in {"finally", "select", "send"}
      /\ UNCHANGED <<at, fds, guest, done, failed, garbled, qemu, late, wire, tty, out>>
      /\ UNCHANGED <<seen, prompts, last_prompt_seen_at, sent, verdict>>
  BY DEF Loop, ReadNothing, world, vars, line, shell
<1>2. TypeInv' /\ BootInv'  BY <1>1 DEF IInv, TypeInv, BootInv, Up
<1>3. LinesInv' /\ HarnessInv'  BY <1>1 DEF IInv, LinesInv, HarnessInv
<1>4. PromptInv'  BY <1>1 DEF IInv, PromptInv, Pending
<1>5. SeenInv'  BY <1>1 DEF IInv, SeenInv, PassMeansSession
<1>. QED BY <1>2, <1>3, <1>4, <1>5 DEF IInv

(* A chunk moves tokens, and their prompts, from the output to the harness. *)
LEMMA ChunkStep == IInv /\ ReadChunk => IInv'
<1>. SUFFICES ASSUME IInv, ReadChunk PROVE IInv'  OBVIOUS
<1>1. /\ pc = "select" /\ pc' = "send" /\ out # <<>>
      /\ UNCHANGED <<at, fds, guest, done, failed, garbled, qemu, late, wire, tty>>
      /\ UNCHANGED <<last_prompt_seen_at, sent, verdict>>
  BY DEF ReadChunk, world, vars, shell
<1>2. PICK n \in 1 .. Len(out) :
          /\ out' = SubSeq(out, n + 1, Len(out))
          /\ seen' = seen \cup ToSet(SubSeq(out, 1, n))
          /\ prompts' = prompts + PromptsIn(SubSeq(out, 1, n))
  BY DEF ReadChunk
<1>. DEFINE chunk == SubSeq(out, 1, n)
<1>3. out \in Seq(Token) /\ Len(out) \in Nat /\ n \in Nat /\ n <= Len(out)  BY DEF IInv, TypeInv
<1>4. /\ chunk \in Seq(Token) /\ out' \in Seq(Token)
      /\ PromptsIn(chunk) + PromptsIn(out') = PromptsIn(out)
  BY <1>2, <1>3, PromptsSplit
<1>5. /\ DOMAIN chunk = 1 .. n /\ \A j \in 1 .. n : chunk[j] = out[j]
      /\ \A j \in 1 .. Len(out') : n + j \in 1 .. Len(out) /\ out'[j] = out[n + j]
  <2>1. chunk \in Seq(Token) /\ Len(chunk) = n /\ \A j \in 1 .. n : chunk[j] = out[j]
    BY <1>3
  <2>2. /\ Len(out') = Len(out) - n
        /\ \A j \in 1 .. Len(out) - n : out'[j] = out[n + j]
    BY <1>2, <1>3
  <2>3. \A j \in 1 .. Len(out) - n : n + j \in 1 .. Len(out)  BY <1>3
  <2>. HIDE DEF chunk
  <2>. QED BY <2>1, <2>2, <2>3
<1>6. PromptsIn(out) \in Nat /\ PromptsIn(chunk) \in Nat /\ PromptsIn(out') \in Nat
  BY <1>3, <1>4, PlacesFinite
<1>7. \A t \in seen' : t \in seen \/ \E j \in 1 .. Len(out) : t = out[j]
  BY <1>2, <1>3, <1>5 DEF ToSet
<1>. HIDE DEF chunk
<1>8. Up /\ fds[1] = "console"  BY <1>1 DEF IInv, BootInv, SeenInv
<1>9. prompts' = prompts + PromptsIn(chunk)  BY <1>2 DEF chunk
<1>10. TypeInv' /\ BootInv'  BY <1>1, <1>4, <1>6, <1>8, <1>9 DEF IInv, TypeInv, BootInv, Up
<1>11. LinesInv'  BY <1>1 DEF IInv, LinesInv
<1>12. PromptInv'
  <2>1. prompts' + PromptsIn(out') = prompts + PromptsIn(out)
    BY <1>4, <1>6, <1>9 DEF IInv, TypeInv
  <2>. QED BY <1>1, <2>1 DEF IInv, PromptInv, Pending
<1>13. HarnessInv'  BY <1>1, <1>6, <1>9 DEF IInv, HarnessInv, TypeInv
<1>14. SeenInv'
  <2>1. \A c \in Nat : Output(c) \in seen' => c <= Len(done) /\ c \notin failed
    BY <1>7 DEF IInv, SeenInv
  <2>2. \A j \in 1 .. Len(out'), c \in Nat :
            out'[j] = Output(c) => c <= Len(done) /\ c \notin failed
    <3>1. \A j \in 1 .. Len(out), c \in Nat :
              out[j] = Output(c) => c <= Len(done) /\ c \notin failed
      BY DEF IInv, SeenInv
    <3>. QED BY <1>5, <3>1
  <2>. QED BY <1>1, <1>8, <2>1, <2>2 DEF IInv, SeenInv, PassMeansSession
<1>. QED BY <1>10, <1>11, <1>12, <1>13, <1>14 DEF IInv

(* A command is typed: with the last prompt all before it have ended. *)
LEMMA SendStep == IInv /\ Send => IInv'
<1>. SUFFICES ASSUME IInv, Send PROVE IInv'  OBVIOUS
<1>1. /\ pc = "send" /\ pc' \in {"finally", "loop"}
      /\ UNCHANGED <<at, fds, guest, done, failed, garbled, qemu, late, tty, out, seen, prompts, verdict>>
  BY DEF Send, world, vars, shell
<1>2. PromptsIn(out) \in Nat /\ Len(done) \in Nat /\ Len(tty) \in Nat /\ Len(wire) \in Nat
  BY PlacesFinite DEF IInv, TypeInv
<1>3. PromptInv' /\ SeenInv'
  BY <1>1 DEF IInv, PromptInv, Pending, SeenInv, PassMeansSession
<1>4. CASE ~(sent < N /\ prompts > last_prompt_seen_at)
  <2>1. UNCHANGED <<last_prompt_seen_at, sent, wire>>  BY <1>4 DEF Send
  <2>2. TypeInv' /\ BootInv' /\ LinesInv'  BY <1>1, <2>1 DEF IInv, TypeInv, BootInv, LinesInv, Up
  <2>3. HarnessInv'  BY <1>1, <1>4, <2>1 DEF IInv, HarnessInv, TypeInv
  <2>. QED BY <1>3, <2>2, <2>3 DEF IInv
<1>5. CASE sent < N /\ prompts > last_prompt_seen_at
  <2>1. last_prompt_seen_at' = prompts /\ sent' = sent + 1 /\ wire' = Append(wire, sent + 1)
    BY <1>5 DEF Send
  <2>2. /\ wire \in Seq(Nat) /\ sent \in Nat /\ prompts \in Nat
        /\ Len(wire') = Len(wire) + 1 /\ wire' \in Seq(Nat) /\ wire'[Len(wire) + 1] = sent + 1
        /\ \A j \in 1 .. Len(wire) : wire'[j] = wire[j]
    BY <2>1 DEF IInv, TypeInv
  <2>3. prompts = sent + 1
    <3>1. prompts <= Len(done) + 1  BY <1>2, <2>2 DEF IInv, PromptInv, Pending
    <3>2. Len(done) <= sent  BY <1>2, <2>2 DEF IInv, LinesInv
    <3>. QED BY <1>2, <1>5, <2>2, <3>1, <3>2 DEF IInv, HarnessInv
  <2>4. Up  BY <2>2, <2>3 DEF IInv, BootInv
  <2>5. TypeInv' /\ BootInv'  BY <1>1, <2>1, <2>2, <2>4 DEF IInv, TypeInv, BootInv, Up
  <2>6. HarnessInv'  BY <1>1, <2>1, <2>2, <2>3 DEF HarnessInv
  <2>7. LinesInv'
    <3>5. Len(done) + Len(tty) + Len(wire) = sent  BY DEF IInv, LinesInv
    <3>6. Len(wire') = Len(wire) + 1 /\ sent \in Nat  BY <2>2
    <3>1. Len(done) + Len(tty) + Len(wire') = sent + 1  BY <1>2, <3>5, <3>6
    <3>7. sent + 1 <= N  BY <1>5, <3>6
    <3>2. wire'[Len(wire) + 1] = Len(done) + Len(tty) + (Len(wire) + 1)
      <4>1. wire'[Len(wire) + 1] = sent + 1  BY <2>2
      <4>. QED BY <1>2, <3>5, <4>1
    <3>3. \A j \in 1 .. Len(wire) : wire'[j] = Len(done) + Len(tty) + j
      BY <2>2 DEF IInv, LinesInv
    <3>4. \A j \in 1 .. Len(wire') : j \in 1 .. Len(wire) \/ j = Len(wire) + 1
      BY <1>2, <2>2
    <3>. QED BY <1>1, <2>1, <3>1, <3>2, <3>3, <3>4, <3>7 DEF IInv, LinesInv
  <2>. QED BY <1>3, <2>5, <2>6, <2>7 DEF IInv
<1>. QED BY <1>4, <1>5

(* The verdict: all markers, the exit's among them, which only the exit    *)
(* itself writes.                                                          *)
LEMMA FinishStep == IInv /\ Finish => IInv'
<1>. SUFFICES ASSUME IInv, Finish PROVE IInv'  OBVIOUS
<1>1. /\ pc = "finally" /\ pc' = "done" /\ ~qemu'
      /\ UNCHANGED <<at, fds, guest, done, failed, garbled, late, wire, tty, out>>
      /\ UNCHANGED <<seen, prompts, last_prompt_seen_at, sent>>
      /\ verdict' = "passed" => Required
  BY DEF Finish, vars, line, shell
<1>2. TypeInv' /\ BootInv'  BY <1>1 DEF IInv, TypeInv, BootInv, Up
<1>3. LinesInv' /\ HarnessInv'  BY <1>1 DEF IInv, LinesInv, HarnessInv
<1>4. PromptInv'  BY <1>1 DEF IInv, PromptInv, Pending
<1>5. ASSUME Required
      PROVE  /\ fds[0] = "console" /\ fds[1] = "console" /\ done = [c \in 1 .. N |-> c]
             /\ \A c \in failed : {Output(c)} \notin Marks
  <2>0. \A t : {t} \in Marks => t \in seen  BY <1>5 DEF Required
  <2>1. Output(N) \in seen  BY <2>0
  <2>2. done \in Seq(Nat) /\ Len(done) \in Nat /\ N <= Len(done)
    BY <2>1 DEF IInv, SeenInv, TypeInv
  <2>3. Len(done) <= N  BY <2>2 DEF IInv, LinesInv, TypeInv
  <2>4. Len(done) = N /\ DOMAIN done = 1 .. N  BY <2>2, <2>3
  <2>5. done = [c \in 1 .. N |-> done[c]]  BY <2>2, <2>4
  <2>6. \A c \in 1 .. N : done[c] = c  BY <2>4 DEF IInv, LinesInv
  <2>7. done # <<>>  BY <2>4
  <2>8. \A c \in failed : {Output(c)} \notin Marks  BY <2>0 DEF IInv, SeenInv
  <2>. QED BY <2>1, <2>5, <2>6, <2>7, <2>8 DEF IInv, SeenInv
<1>6. SeenInv'  BY <1>1, <1>5 DEF IInv, SeenInv, PassMeansSession
<1>. QED BY <1>2, <1>3, <1>4, <1>6 DEF IInv

LEMMA OtherSteps == IInv /\ (QemuExits \/ Deadline \/ Ended \/ UNCHANGED smokeVars) => IInv'
<1>. SUFFICES ASSUME IInv, QemuExits \/ Deadline \/ Ended \/ UNCHANGED smokeVars PROVE IInv'
  OBVIOUS
<1>1. /\ UNCHANGED <<at, fds, guest, done, failed, garbled, wire, tty, out>>
      /\ UNCHANGED <<pc, seen, prompts, last_prompt_seen_at, sent, verdict>>
      /\ qemu' = qemu \/ ~qemu'
  BY DEF QemuExits, Deadline, Ended, smokeVars, vars, line, shell, harness
<1>2. TypeInv' /\ BootInv'  BY <1>1 DEF IInv, TypeInv, BootInv, Up
<1>3. LinesInv' /\ HarnessInv'  BY <1>1 DEF IInv, LinesInv, HarnessInv
<1>4. PromptInv'  BY <1>1 DEF IInv, PromptInv, Pending
<1>5. SeenInv'  BY <1>1 DEF IInv, SeenInv, PassMeansSession
<1>. QED BY <1>2, <1>3, <1>4, <1>5 DEF IInv

LEMMA SmokeInductive == SmokeSpec => []IInv
<1>1. IInv /\ [SmokeNext]_smokeVars => IInv'
  BY BootStep, SpawnStep, PromptStep, ReceiveStep, ReadLineStep, RunStep, LoopStep, ChunkStep,
     SendStep, FinishStep, OtherSteps
  DEF SmokeNext, Guest, Harness
<1>. QED BY <1>1, SmokeInitInv, PTL DEF SmokeSpec

(***************************************************************************)
(* Theorems                                                                *)
(***************************************************************************)

(* No command is typed while the one before it may still read: for any     *)
(* number of commands and any delay or division of the output.             *)
THEOREM SmokeNoTypeAhead == SmokeSpec => []NoTypeAhead
<1>1. IInv => NoTypeAhead
  <2>. SUFFICES ASSUME IInv PROVE NoTypeAhead  OBVIOUS
  <2>1. PromptsIn(out) \in Nat /\ Len(done) \in Nat  BY PlacesFinite DEF IInv, TypeInv
  <2>2. prompts <= Len(done) + 1  BY <2>1 DEF IInv, TypeInv, PromptInv, Pending
  <2>. QED BY <2>1, <2>2 DEF NoTypeAhead, IInv, TypeInv, HarnessInv
<1>. QED BY <1>1, SmokeInductive, PTL

(* The shell and the harness never wait for each other, whatever commands  *)
(* fail, as long as descriptor 1 is the console and no prompt was garbled. *)
THEOREM SmokeNoStandoff == SmokeSpec => []NoStandoff
<1>1. IInv => NoStandoff
  <2>. SUFFICES ASSUME IInv, guest = "read", line = <<<<>>, <<>>, <<>>>>, pc = "loop", sent < N,
                       fds[1] = "console", ~garbled
                PROVE  FALSE
    BY DEF NoStandoff
  <2>1. wire = <<>> /\ tty = <<>> /\ out = <<>>  BY DEF line
  <2>2. Len(done) = sent /\ Len(done) \in Nat  BY <2>1 DEF IInv, LinesInv, TypeInv
  <2>3. prompts = Len(done) + 1  BY <2>1, PromptsNone DEF IInv, PromptInv, Pending, TypeInv
  <2>4. prompts = sent  BY DEF IInv, HarnessInv
  <2>. QED BY <2>2, <2>3, <2>4
<1>. QED BY <1>1, SmokeInductive, PTL

(* "boot smoke passed" means a session on the console in which every       *)
(* command was read, in order, and ended, and in which no command failed   *)
(* that has a marker of its own; for any set of markers with the exit's.   *)
THEOREM SmokePassMeansSession == SmokeSpec => []PassMeansSession
<1>1. IInv => PassMeansSession  BY DEF IInv, SeenInv
<1>. QED BY <1>1, SmokeInductive, PTL
=============================================================================
