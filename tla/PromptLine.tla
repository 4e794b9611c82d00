----------------------------- MODULE PromptLine -----------------------------
(***************************************************************************)
(* What the durable prompt queue promises its user: a bounded line of      *)
(* prompts served one at a time from the front.  Waiting prompts may be    *)
(* rearranged, a prompt in service may be put back (its process died), and *)
(* a prompt that could not be started stays in the line and stops it.      *)
(* Nothing overtakes, nothing is lost, and what left the line never comes  *)
(* back.                                                                   *)
(***************************************************************************)
EXTENDS Naturals, Sequences, FiniteSets

CONSTANTS Prompts,   \* every prompt that may ever be queued
          None,      \* "nobody is in service"
          MaxLive    \* how many prompts the line holds

VARIABLES line,      \* the prompts in the line, in order
          serving,   \* the prompt in service, or None
          stuck,     \* prompts in the line that could not be started
          begun      \* prompts that have been in service

lineVars == <<line, serving, stuck, begun>>

InLine == {line[i] : i \in DOMAIN line}

(* A prompt that is neither in service nor stuck may be moved.             *)
Waiting == InLine \ (stuck \union {serving})

LineInit == line = <<>> /\ serving = None /\ stuck = {} /\ begun = {}

Append1(p) ==
  /\ p \notin InLine \union begun
  /\ Len(line) < MaxLive
  /\ line' = Append(line, p)
  /\ UNCHANGED <<serving, stuck, begun>>

(* The new line holds the same prompts; only waiting ones changed places.  *)
Rearrange ==
  /\ line' \in [DOMAIN line -> InLine]
  /\ \A i, j \in DOMAIN line : line'[i] = line'[j] => i = j
  /\ \A i \in DOMAIN line : line[i] \notin Waiting => line'[i] = line[i]
  /\ UNCHANGED <<serving, stuck, begun>>

Serve ==
  /\ serving = None /\ line # <<>> /\ Head(line) \notin stuck
  /\ serving' = Head(line)
  /\ begun' = begun \union {Head(line)}
  /\ UNCHANGED <<line, stuck>>

PutBack ==
  /\ serving # None
  /\ serving' = None
  /\ UNCHANGED <<line, stuck, begun>>

Relieve(p) == serving' = IF serving = p THEN None ELSE serving

Block(p) ==
  /\ p \in InLine \intersect begun
  /\ stuck' = stuck \union {p}
  /\ Relieve(p)
  /\ UNCHANGED <<line, begun>>

(* The line without its i-th prompt.                                       *)
Without(i) == [j \in 1 .. Len(line) - 1 |-> IF j < i THEN line[j] ELSE line[j + 1]]

Leave(p) ==
  /\ p \in begun \ stuck
  /\ \E i \in DOMAIN line : line[i] = p /\ line' = Without(i)
  /\ Relieve(p)
  /\ UNCHANGED <<stuck, begun>>

LineNext ==
  \/ Rearrange \/ Serve \/ PutBack
  \/ \E p \in Prompts : Append1(p) \/ Block(p) \/ Leave(p)

LineSpec == LineInit /\ [][LineNext]_lineVars
=============================================================================
