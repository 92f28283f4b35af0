----------------------------- MODULE Parts_proofs -----------------------------
(***************************************************************************)
(* Theorems about the parts that share no state, for any constants.  A     *)
(* step of one part leaves the variables of the others as they are, so     *)
(* that the inductive invariant of each part is one of the whole.  Those   *)
(* of the trie and of the table of mt-db are taken from Sha1Trie_proofs    *)
(* and SplitMonoTable_proofs; those of the other parts follow.             *)
(***************************************************************************)
EXTENDS Parts, Integers, Sequences, TLAPS

TrieP == INSTANCE Sha1Trie_proofs WITH Name <- TrieName, reply <- found

-----------------------------------------------------------------------------
(***************************************************************************)
(* The calls of git.  A call that succeeds returns what git printed, all   *)
(* of it and nothing else, even if gits that other threads spawn hold      *)
(* copies of its pipes.  The argument is a balance: what git has yet to    *)
(* print, what is in the pipe and what has been read are always the        *)
(* output; and git holds the writing end of that pipe for as long as it    *)
(* runs, so that the end is not seen before git has ended.                 *)
(***************************************************************************)
\* No read is interrupted: an interrupted one leaves a chunk in the reply
\* that nobody has read.
ReadsGoOn == "read" \notin Interruptible

\* A call and its git, as far as they have come.
Balanced(t, c, g, p, open) ==
  /\ ReadsGoOn => ~c.junk
  /\ c.at \in {"pipe", "spawn", "close"} => Calls!FromW(t) \in open
  /\ c.at \in {"pipe", "spawn"} => g.at = "none" /\ p.from = 0 /\ c.reply = 0
  /\ c.at \in {"close", "write", "read"} => g.at # "none"
  /\ g.at \in {"reads", "writes"} => Calls!FromW(t) \in g.ends
  /\ g.at # "none" => c.reply + p.from + g.left = Output
  /\ g.at = "ended" /\ g.ok => g.left = 0
  /\ c.at = "wait" => g.at = "ended" /\ p.from = 0
  /\ c.at # "idle" => c.result = "none"
  /\ c.result = "reply" => c.reply = Output

\* So have all of them.
CallsInv ==
  /\ Calls!TypeOK
  /\ \A t \in Thread : Balanced(t, call[t], git[t], pipe[t], mine)

LEMMA EndsApart == \A t, u \in Thread : t # u => Calls!Ends(t) \cap Calls!Ends(u) = {}
  BY DEF Calls!Ends, Calls!FromR, Calls!FromW, Calls!ToR, Calls!ToW

LEMMA EndsOf == \A t \in Thread : Calls!FromW(t) \in Calls!Ends(t)
  /\ Calls!Ends(t) \subseteq Calls!AllEnds
  BY DEF Calls!Ends, Calls!AllEnds

LEMMA FromWAlone == \A t \in Thread :
  Calls!FromW(t) \notin {Calls!FromR(t), Calls!ToR(t), Calls!ToW(t)}
  BY DEF Calls!FromR, Calls!FromW, Calls!ToR, Calls!ToW

LEMMA CallsInitOK == ASSUME Calls!CallsAssumption PROVE Calls!Init => CallsInv
<1> SUFFICES ASSUME Calls!Init PROVE CallsInv
  OBVIOUS
<1> USE DEF Calls!CallsAssumption
<1>1. ASSUME NEW t \in Thread PROVE Calls!IsCall(t, Calls!NoCall) /\ Calls!IsGit(Calls!NoGit)
  <2>1. Input[t] \in Nat
    OBVIOUS
  <2> QED
    BY <2>1 DEF Calls!IsCall, Calls!IsGit, Calls!NoCall, Calls!NoGit, Calls!Calls
<1>2. Calls!TypeOK
  BY <1>1 DEF Calls!Init, Calls!TypeOK
<1>3. ASSUME NEW t \in Thread PROVE Balanced(t, call[t], git[t], pipe[t], mine)
  <2>1. call[t] = Calls!NoCall /\ git[t] = Calls!NoGit
    BY DEF Calls!Init
  <2>2. /\ Calls!NoCall.at = "idle" /\ Calls!NoCall.junk = FALSE /\ Calls!NoCall.result = "none"
        /\ Calls!NoGit.at = "none"
    BY DEF Calls!NoCall, Calls!NoGit
  <2> QED
    BY <2>1, <2>2 DEF Balanced
<1> QED
  BY <1>2, <1>3 DEF CallsInv

\* What a step of thread u, or of its git, leaves to the others: the gits
\* give up at most the copies of ends of u.
OtherCalls(u) ==
  \A t \in Thread \ {u} :
    /\ call'[t] = call[t] /\ pipe'[t] = pipe[t]
    /\ git'[t] = git[t] \/ git'[t] = [git[t] EXCEPT !.ends = @ \ Calls!Ends(u)]
    /\ Calls!FromW(t) \in mine => Calls!FromW(t) \in mine'

\* What it makes of its own call.
CallGood(t, c, g, p, open) == Calls!IsCall(t, c) /\ Calls!IsGit(g) /\ Balanced(t, c, g, p, open)

LEMMA OtherCallsGood ==
  ASSUME CallsInv, NEW u \in Thread, OtherCalls(u), NEW t \in Thread \ {u}
  PROVE  CallGood(t, call'[t], git'[t], pipe'[t], mine')
<1> DEFINE g == [git[t] EXCEPT !.ends = @ \ Calls!Ends(u)]
<1>1. CallGood(t, call[t], git[t], pipe[t], mine)
  BY DEF CallsInv, Calls!TypeOK, CallGood
<1>2. CallGood(t, call[t], git[t], pipe[t], mine')
  BY <1>1 DEF CallGood, Balanced, OtherCalls
<1>3. /\ Calls!IsGit(g) /\ g.at = git[t].at /\ g.left = git[t].left /\ g.ok = git[t].ok
      /\ Calls!FromW(t) \in git[t].ends => Calls!FromW(t) \in g.ends
  <2>1. Calls!FromW(t) \notin Calls!Ends(u)
    BY EndsApart, EndsOf
  <2> QED
    BY <1>1, <2>1 DEF CallGood, Calls!IsGit, Calls!NoGit
<1>4. CallGood(t, call[t], g, pipe[t], mine')
  <2> HIDE DEF g
  <2> QED
    BY <1>2, <1>3 DEF CallGood, Balanced
<1> QED
  BY <1>2, <1>4 DEF OtherCalls

\* The frame of a step of thread u, or of its git.
CallFrame(u) ==
  /\ DOMAIN call' = Thread /\ DOMAIN git' = Thread /\ mine' \subseteq Calls!AllEnds
  /\ pipe' \in [Thread -> [from : 0 .. Capacity, to : 0 .. Capacity]]
  /\ deaths' \in 0 .. MaxDeaths
  /\ OtherCalls(u)

LEMMA CallSteps ==
  ASSUME Calls!CallsAssumption, CallsInv, NEW u \in Thread, Calls!Step(u) \/ Calls!Interrupt(u)
  PROVE  CallFrame(u) /\ CallGood(u, call'[u], git'[u], pipe'[u], mine')
<1> DEFINE c == call[u]
           g == git[u]
           p == pipe[u]
<1> USE DEF Calls!CallsAssumption
<1>h. /\ DOMAIN call = Thread /\ DOMAIN git = Thread /\ mine \subseteq Calls!AllEnds
      /\ pipe \in [Thread -> [from : 0 .. Capacity, to : 0 .. Capacity]]
      /\ deaths \in 0 .. MaxDeaths
      /\ Calls!IsCall(u, c) /\ Calls!IsGit(g) /\ Balanced(u, c, g, p, mine)
      /\ p \in [from : 0 .. Capacity, to : 0 .. Capacity]
  BY DEF CallsInv, Calls!TypeOK
<1>d. DOMAIN c = DOMAIN Calls!NoCall /\ DOMAIN g = DOMAIN Calls!NoGit
  BY <1>h DEF Calls!IsCall, Calls!IsGit
<1>e. Calls!Ends(u) \subseteq Calls!AllEnds /\ Calls!FromW(u) \in Calls!Ends(u)
        /\ Calls!FromW(u) \notin {Calls!FromR(u), Calls!ToR(u), Calls!ToW(u)}
  BY EndsOf, FromWAlone
\* Whatever is closed or opened are ends of u.
<1>m. ASSUME mine \ Calls!Ends(u) \subseteq mine', mine' \subseteq mine \cup Calls!Ends(u)
      PROVE  /\ mine' \subseteq Calls!AllEnds
             /\ \A t \in Thread \ {u} : Calls!FromW(t) \in mine => Calls!FromW(t) \in mine'
  <2>1. \A t \in Thread \ {u} : Calls!FromW(t) \notin Calls!Ends(u)
    BY EndsApart, EndsOf
  <2> QED
    BY <1>e, <1>h, <1>m, <2>1
\* Goto.
<1>g. ASSUME NEW pc \in Calls!Calls, Calls!Goto(u, pc)
      PROVE  /\ DOMAIN call' = Thread /\ \A t \in Thread \ {u} : call'[t] = call[t]
             /\ Calls!IsCall(u, call'[u]) /\ call'[u].at = pc
             /\ call'[u].junk = c.junk /\ call'[u].reply = c.reply
             /\ call'[u].result = c.result /\ call'[u].left = c.left
  <2>1. call'[u] = [c EXCEPT !.at = pc]
    BY <1>g, <1>h DEF Calls!Goto
  <2> QED
    BY <1>d, <1>g, <1>h, <2>1 DEF Calls!Goto, Calls!IsCall, Calls!NoCall
<1>1. CASE Calls!Pipe(u)
  <2> DEFINE pc == IF Calls!NeedsToWrite(u) THEN "pipe" ELSE "spawn"
             d == [Calls!NoCall EXCEPT !.n = c.n + 1, !.left = Input[u], !.at = pc]
  <2>1. /\ c.at = "idle" /\ c.n < MaxCalls /\ call'[u] = d /\ git'[u] = Calls!NoGit
        /\ pipe' = [pipe EXCEPT ![u] = [from |-> 0, to |-> 0]] /\ deaths' = deaths
        /\ mine' = (mine \ Calls!Ends(u)) \cup {Calls!FromR(u), Calls!FromW(u)}
    BY <1>1, <1>h DEF Calls!Pipe, Calls!At
  <2>2. /\ d.at \in {"pipe", "spawn"} /\ d.n = c.n + 1 /\ d.left = Input[u]
        /\ d.reply = 0 /\ d.junk = FALSE /\ d.result = "none" /\ d.interrupts = 0
        /\ DOMAIN d = DOMAIN Calls!NoCall
    BY DEF Calls!NoCall
  <2>3. Calls!IsCall(u, d)
    <3>1. c.n \in 0 .. MaxCalls /\ Input[u] \in Nat
      BY <1>h DEF Calls!IsCall
    <3> HIDE DEF d
    <3>2. d.n \in 0 .. MaxCalls
      BY <2>1, <2>2, <3>1
    <3>3. d.left \in 0 .. Input[u] /\ d.interrupts \in 0 .. MaxInterrupts /\ d.reply \in Nat
      BY <2>2, <3>1
    <3>4. d.at \in Calls!Calls /\ d.junk \in BOOLEAN /\ d.result \in {"none", "reply", "error"}
      BY <2>2 DEF Calls!Calls
    <3> QED
      BY <2>2, <3>2, <3>3, <3>4 DEF Calls!IsCall
  <2>4. /\ Calls!IsGit(Calls!NoGit) /\ Calls!NoGit.at = "none"
    BY DEF Calls!IsGit, Calls!NoGit
  <2>5. pipe'[u].from = 0 /\ pipe' \in [Thread -> [from : 0 .. Capacity, to : 0 .. Capacity]]
    BY <1>h, <2>1
  <2> HIDE DEF d
  <2>6. Balanced(u, d, Calls!NoGit, pipe'[u], mine')
    BY <2>1, <2>2, <2>4, <2>5 DEF Balanced
  <2>7. mine' \subseteq Calls!AllEnds
          /\ \A t \in Thread \ {u} : Calls!FromW(t) \in mine => Calls!FromW(t) \in mine'
    <3>1. {Calls!FromR(u), Calls!FromW(u)} \subseteq Calls!Ends(u)
      BY DEF Calls!Ends
    <3> QED
      BY <1>m, <2>1, <3>1
  <2>8. OtherCalls(u)
    BY <1>1, <1>h, <2>1, <2>7 DEF Calls!Pipe, OtherCalls
  <2>9. DOMAIN call' = Thread /\ DOMAIN git' = Thread
    BY <1>1, <1>h DEF Calls!Pipe
  <2> QED
    BY <1>h, <2>1, <2>3, <2>4, <2>5, <2>6, <2>7, <2>8, <2>9 DEF CallFrame, CallGood
<1>2. CASE Calls!PipeTo(u)
  <2>1. /\ c.at = "pipe" /\ Calls!Goto(u, "spawn") /\ mine' = mine \cup {Calls!ToR(u), Calls!ToW(u)}
        /\ git' = git /\ pipe' = pipe /\ deaths' = deaths
    BY <1>2 DEF Calls!PipeTo, Calls!At
  <2>2. mine' \subseteq Calls!AllEnds
          /\ \A t \in Thread \ {u} : Calls!FromW(t) \in mine => Calls!FromW(t) \in mine'
    BY <1>m, <2>1 DEF Calls!Ends
  <2>3. CallGood(u, call'[u], git'[u], pipe'[u], mine')
    BY <1>g, <1>h, <2>1 DEF CallGood, Balanced, Calls!Calls
  <2> QED
    BY <1>g, <1>h, <2>1, <2>2, <2>3 DEF CallFrame, OtherCalls, Calls!Calls
<1>3. CASE Calls!Spawn(u)
  <2> DEFINE gg == [at |-> IF Calls!NeedsToWrite(u) THEN "reads" ELSE "writes",
                    ends |-> mine \ {Calls!FromR(u), Calls!ToW(u)}, left |-> Output, ok |-> TRUE]
  <2>1. /\ c.at = "spawn" /\ Calls!Goto(u, "close") /\ git' = [git EXCEPT ![u] = gg]
        /\ mine' = mine /\ pipe' = pipe /\ deaths' = deaths
    BY <1>3 DEF Calls!Spawn, Calls!At
  <2>2. /\ Calls!IsGit(gg) /\ gg.at \in {"reads", "writes"} /\ gg.left = Output
        /\ gg.ends = mine \ {Calls!FromR(u), Calls!ToW(u)}
    BY <1>h DEF Calls!IsGit, Calls!NoGit
  <2> HIDE DEF gg
  <2>3. git'[u] = gg /\ DOMAIN git' = Thread /\ \A t \in Thread \ {u} : git'[t] = git[t]
    BY <1>h, <2>1
  <2>4. Calls!FromW(u) \in gg.ends /\ c.reply = 0 /\ p.from = 0
    BY <1>e, <1>h, <2>1, <2>2 DEF Balanced
  <2>5. CallGood(u, call'[u], git'[u], pipe'[u], mine')
    BY <1>g, <1>h, <2>1, <2>2, <2>3, <2>4 DEF CallGood, Balanced, Calls!Calls
  <2> QED
    BY <1>g, <1>h, <2>1, <2>3, <2>5 DEF CallFrame, OtherCalls, Calls!Calls
<1>4. CASE Calls!Close(u)
  <2>1. /\ c.at = "close" /\ mine' = mine \ {Calls!FromW(u), Calls!ToR(u)}
        /\ Calls!Goto(u, "write") \/ Calls!Goto(u, "read")
        /\ git' = git /\ pipe' = pipe /\ deaths' = deaths
    BY <1>4 DEF Calls!Close, Calls!At
  <2>2. mine' \subseteq Calls!AllEnds
          /\ \A t \in Thread \ {u} : Calls!FromW(t) \in mine => Calls!FromW(t) \in mine'
    BY <1>m, <2>1 DEF Calls!Ends
  <2>3. CallGood(u, call'[u], git'[u], pipe'[u], mine')
    BY <1>g, <1>h, <2>1 DEF CallGood, Balanced, Calls!Calls
  <2> QED
    BY <1>g, <1>h, <2>1, <2>2, <2>3 DEF CallFrame, OtherCalls, Calls!Calls
<1>5. CASE Calls!Write(u)
  <2>1. /\ c.at = "write" /\ c.left > 0 /\ p.to < Capacity
        /\ pipe' = [pipe EXCEPT ![u].to = @ + 1] /\ call' = [call EXCEPT ![u].left = @ - 1]
        /\ mine' = mine /\ git' = git /\ deaths' = deaths
    BY <1>5 DEF Calls!Write, Calls!At
  <2>2. /\ pipe' \in [Thread -> [from : 0 .. Capacity, to : 0 .. Capacity]]
        /\ pipe'[u].from = p.from /\ \A t \in Thread \ {u} : pipe'[t] = pipe[t]
    BY <1>h, <2>1
  <2>3. /\ Calls!IsCall(u, call'[u]) /\ call'[u].at = c.at /\ call'[u].junk = c.junk
        /\ call'[u].reply = c.reply /\ call'[u].result = c.result
        /\ DOMAIN call' = Thread /\ \A t \in Thread \ {u} : call'[t] = call[t]
    <3>1. c.left \in 0 .. Input[u] /\ Input[u] \in Nat
      BY <1>h DEF Calls!IsCall
    <3>2. c.left - 1 \in 0 .. Input[u]
      BY <2>1, <3>1
    <3>3. call'[u] = [c EXCEPT !.left = c.left - 1]
      BY <1>h, <2>1
    <3> QED
      BY <1>d, <1>h, <2>1, <3>2, <3>3 DEF Calls!IsCall, Calls!NoCall
  <2>4. CallGood(u, call'[u], git'[u], pipe'[u], mine')
    BY <1>h, <2>1, <2>2, <2>3 DEF CallGood, Balanced
  <2> QED
    BY <1>h, <2>1, <2>2, <2>3, <2>4 DEF CallFrame, OtherCalls
<1>6. CASE Calls!BrokenPipe(u)
  <2>1. /\ c.at = "write" /\ Calls!Goto(u, "killed")
        /\ mine' = mine /\ git' = git /\ pipe' = pipe /\ deaths' = deaths
    BY <1>6 DEF Calls!BrokenPipe, Calls!At
  <2>2. CallGood(u, call'[u], git'[u], pipe'[u], mine')
    BY <1>g, <1>h, <2>1 DEF CallGood, Balanced, Calls!Calls
  <2> QED
    BY <1>g, <1>h, <2>1, <2>2 DEF CallFrame, OtherCalls, Calls!Calls
<1>7. CASE Calls!CloseTo(u)
  <2>1. /\ c.at = "write" /\ Calls!Goto(u, "read") /\ mine' = mine \ {Calls!ToW(u)}
        /\ git' = git /\ pipe' = pipe /\ deaths' = deaths
    BY <1>7 DEF Calls!CloseTo, Calls!At
  <2>2. mine' \subseteq Calls!AllEnds
          /\ \A t \in Thread \ {u} : Calls!FromW(t) \in mine => Calls!FromW(t) \in mine'
    BY <1>m, <2>1 DEF Calls!Ends
  <2>3. CallGood(u, call'[u], git'[u], pipe'[u], mine')
    BY <1>g, <1>h, <2>1 DEF CallGood, Balanced, Calls!Calls
  <2> QED
    BY <1>g, <1>h, <2>1, <2>2, <2>3 DEF CallFrame, OtherCalls, Calls!Calls
<1>8. CASE Calls!Read(u)
  <2>1. /\ c.at = "read" /\ p.from > 0
        /\ pipe' = [pipe EXCEPT ![u].from = @ - 1] /\ call' = [call EXCEPT ![u].reply = @ + 1]
        /\ mine' = mine /\ git' = git /\ deaths' = deaths
    BY <1>8 DEF Calls!Read, Calls!At
  <2>2. /\ pipe' \in [Thread -> [from : 0 .. Capacity, to : 0 .. Capacity]]
        /\ pipe'[u].from = p.from - 1 /\ \A t \in Thread \ {u} : pipe'[t] = pipe[t]
    BY <1>h, <2>1
  <2>3. /\ Calls!IsCall(u, call'[u]) /\ call'[u].at = c.at /\ call'[u].junk = c.junk
        /\ call'[u].reply = c.reply + 1 /\ call'[u].result = c.result
        /\ DOMAIN call' = Thread /\ \A t \in Thread \ {u} : call'[t] = call[t]
    <3>1. call'[u] = [c EXCEPT !.reply = c.reply + 1]
      BY <1>h, <2>1
    <3> QED
      BY <1>d, <1>h, <2>1, <3>1 DEF Calls!IsCall, Calls!NoCall
  <2>4. g.left \in Nat /\ c.reply \in Nat /\ p.from \in Nat
    BY <1>h DEF Calls!IsCall, Calls!IsGit
  <2>5. Balanced(u, call'[u], git'[u], pipe'[u], mine')
    <3>1. c.result # "reply" /\ c.result = "none"
      BY <1>h, <2>1 DEF Balanced
    <3>2. g.at # "none" => (c.reply + 1) + (p.from - 1) + g.left = Output
      BY <1>h, <2>4 DEF Balanced
    <3> QED
      BY <1>h, <2>1, <2>2, <2>3, <3>1, <3>2 DEF Balanced
  <2> QED
    BY <1>h, <2>1, <2>2, <2>3, <2>5 DEF CallFrame, OtherCalls, CallGood
<1>9. CASE Calls!ReadEnd(u)
  <2>1. /\ c.at = "read" /\ p.from = 0 /\ ~Calls!Held(Calls!FromW(u)) /\ Calls!Goto(u, "wait")
        /\ mine' = mine \ {Calls!FromR(u)} /\ git' = git /\ pipe' = pipe /\ deaths' = deaths
    BY <1>9 DEF Calls!ReadEnd, Calls!At
  <2>2. mine' \subseteq Calls!AllEnds
          /\ \A t \in Thread \ {u} : Calls!FromW(t) \in mine => Calls!FromW(t) \in mine'
    BY <1>m, <2>1 DEF Calls!Ends
  <2>3. g.at = "ended"
    <3>1. Calls!FromW(u) \notin g.ends
      BY <2>1 DEF Calls!Held
    <3> QED
      BY <1>h, <2>1, <3>1 DEF Balanced, Calls!IsGit
  <2>4. CallGood(u, call'[u], git'[u], pipe'[u], mine')
    BY <1>g, <1>h, <2>1, <2>3 DEF CallGood, Balanced, Calls!Calls
  <2> QED
    BY <1>g, <1>h, <2>1, <2>2, <2>4 DEF CallFrame, OtherCalls, Calls!Calls
<1>10. CASE Calls!Wait(u)
  <2> DEFINE d == [c EXCEPT !.at = "idle", !.interrupts = 0,
                            !.result = IF g.ok THEN "reply" ELSE "error"]
  <2>1. /\ c.at = "wait" /\ g.at = "ended" /\ call' = [call EXCEPT ![u] = d]
        /\ mine' = mine /\ git' = git /\ pipe' = pipe /\ deaths' = deaths
    BY <1>10, <1>h DEF Calls!Wait, Calls!At
  <2>2. /\ Calls!IsCall(u, d) /\ d.at = "idle" /\ d.junk = c.junk /\ d.reply = c.reply
        /\ d.result = "reply" => g.ok
    BY <1>d, <1>h DEF Calls!IsCall, Calls!NoCall, Calls!Calls
  <2>3. c.reply = Output \/ ~g.ok
    <3>1. c.reply \in Nat
      BY <1>h DEF Calls!IsCall
    <3> QED
      BY <1>h, <2>1, <3>1 DEF Balanced
  <2> HIDE DEF d
  <2>4. Balanced(u, d, g, p, mine)
    BY <1>h, <2>1, <2>2, <2>3 DEF Balanced
  <2> QED
    BY <1>h, <2>1, <2>2, <2>4 DEF CallFrame, OtherCalls, CallGood
<1>11. CASE Calls!Interrupt(u)
  <2>1. /\ c.at \in Interruptible /\ c.interrupts < MaxInterrupts
        /\ call' = [call EXCEPT ![u] = [c EXCEPT !.interrupts = c.interrupts + 1,
                                                 !.junk = c.junk \/ c.at = "read"]]
        /\ mine' = mine /\ git' = git /\ pipe' = pipe /\ deaths' = deaths
    BY <1>11, <1>h DEF Calls!Interrupt, Calls!At
  <2> DEFINE junk == c.junk \/ c.at = "read"
  <2>2. /\ junk \in BOOLEAN /\ c.interrupts + 1 \in 0 .. MaxInterrupts
        /\ ReadsGoOn => ~junk
    <3>1. ReadsGoOn => c.at # "read" /\ ~c.junk
      BY <1>h, <2>1 DEF ReadsGoOn, Balanced
    <3>2. c.interrupts \in 0 .. MaxInterrupts /\ c.junk \in BOOLEAN
      BY <1>h DEF Calls!IsCall
    <3> QED
      BY <2>1, <3>1, <3>2
  <2> HIDE DEF junk
  <2>3. call'[u] = [c EXCEPT !.interrupts = c.interrupts + 1, !.junk = junk]
    BY <1>h, <2>1 DEF junk
  <2>4. /\ Calls!IsCall(u, call'[u]) /\ call'[u].at = c.at /\ call'[u].junk = junk
        /\ call'[u].reply = c.reply /\ call'[u].result = c.result
    BY <1>d, <1>h, <2>2, <2>3 DEF Calls!IsCall, Calls!NoCall
  <2>5. CallGood(u, call'[u], git'[u], pipe'[u], mine')
    BY <1>h, <2>1, <2>2, <2>4 DEF CallGood, Balanced
  <2> QED
    BY <1>h, <2>1, <2>5 DEF CallFrame, OtherCalls
<1> QED
  BY <1>1, <1>2, <1>3, <1>4, <1>5, <1>6, <1>7, <1>8, <1>9, <1>10, <1>11 DEF Calls!Step

LEMMA ChildSteps ==
  ASSUME Calls!CallsAssumption, CallsInv, NEW u \in Thread, Calls!GitStep(u) \/ Calls!GitDies(u)
  PROVE  CallFrame(u) /\ CallGood(u, call'[u], git'[u], pipe'[u], mine')
<1> DEFINE c == call[u]
           g == git[u]
           p == pipe[u]
<1> USE DEF Calls!CallsAssumption
<1>h. /\ DOMAIN call = Thread /\ DOMAIN git = Thread /\ mine \subseteq Calls!AllEnds
      /\ pipe \in [Thread -> [from : 0 .. Capacity, to : 0 .. Capacity]]
      /\ deaths \in 0 .. MaxDeaths
      /\ Calls!IsCall(u, c) /\ Calls!IsGit(g) /\ Balanced(u, c, g, p, mine)
      /\ p \in [from : 0 .. Capacity, to : 0 .. Capacity]
  BY DEF CallsInv, Calls!TypeOK
<1>d. DOMAIN g = DOMAIN Calls!NoGit
  BY <1>h DEF Calls!IsGit
<1>n. g.left \in Nat /\ c.reply \in Nat /\ p.from \in Nat /\ p.to \in Nat
  BY <1>h DEF Calls!IsCall, Calls!IsGit
<1>1. CASE Calls!GitReads(u)
  <2>1. /\ g.at = "reads" /\ p.to > 0 /\ pipe' = [pipe EXCEPT ![u].to = @ - 1]
        /\ call' = call /\ mine' = mine /\ git' = git /\ deaths' = deaths
    BY <1>1 DEF Calls!GitReads
  <2>2. /\ pipe' \in [Thread -> [from : 0 .. Capacity, to : 0 .. Capacity]]
        /\ pipe'[u].from = p.from /\ \A t \in Thread \ {u} : pipe'[t] = pipe[t]
    BY <1>h, <2>1
  <2>3. CallGood(u, call'[u], git'[u], pipe'[u], mine')
    BY <1>h, <2>1, <2>2 DEF CallGood, Balanced
  <2> QED
    BY <1>h, <2>1, <2>2, <2>3 DEF CallFrame, OtherCalls
<1>2. CASE Calls!GitReadsEnd(u)
  <2>1. /\ g.at = "reads" /\ git' = [git EXCEPT ![u] = [g EXCEPT !.at = "writes"]]
        /\ call' = call /\ mine' = mine /\ pipe' = pipe /\ deaths' = deaths
    BY <1>2, <1>h DEF Calls!GitReadsEnd
  <2>2. /\ Calls!IsGit(git'[u]) /\ git'[u].at = "writes" /\ git'[u].ends = g.ends
        /\ git'[u].left = g.left /\ DOMAIN git' = Thread
        /\ \A t \in Thread \ {u} : git'[t] = git[t]
    BY <1>d, <1>h, <2>1 DEF Calls!IsGit, Calls!NoGit
  <2>3. CallGood(u, call'[u], git'[u], pipe'[u], mine')
    BY <1>h, <2>1, <2>2 DEF CallGood, Balanced
  <2> QED
    BY <1>h, <2>1, <2>2, <2>3 DEF CallFrame, OtherCalls
<1>3. CASE Calls!GitWrites(u)
  <2>1. /\ g.at = "writes" /\ g.left > 0 /\ p.from < Capacity
        /\ pipe' = [pipe EXCEPT ![u].from = @ + 1]
        /\ git' = [git EXCEPT ![u] = [g EXCEPT !.left = g.left - 1]]
        /\ call' = call /\ mine' = mine /\ deaths' = deaths
    BY <1>3, <1>h DEF Calls!GitWrites
  <2>2. /\ pipe' \in [Thread -> [from : 0 .. Capacity, to : 0 .. Capacity]]
        /\ pipe'[u].from = p.from + 1 /\ \A t \in Thread \ {u} : pipe'[t] = pipe[t]
    BY <1>h, <1>n, <2>1
  <2>3. /\ Calls!IsGit(git'[u]) /\ git'[u].at = "writes" /\ git'[u].ends = g.ends
        /\ git'[u].left = g.left - 1 /\ git'[u].ok = g.ok /\ DOMAIN git' = Thread
        /\ \A t \in Thread \ {u} : git'[t] = git[t]
    <3>1. g.left - 1 \in 0 .. Output
      BY <1>h, <2>1 DEF Calls!IsGit
    <3> QED
      BY <1>d, <1>h, <2>1, <3>1 DEF Calls!IsGit, Calls!NoGit
  <2>4. Balanced(u, call'[u], git'[u], pipe'[u], mine')
    <3>1. c.reply + (p.from + 1) + (g.left - 1) = Output
      <4>1. c.reply + p.from + g.left = Output
        BY <1>h, <2>1 DEF Balanced
      <4> QED
        BY <1>n, <4>1
    <3>2. c.at \notin {"pipe", "spawn", "wait"}
      BY <1>h, <2>1 DEF Balanced
    <3> QED
      BY <1>h, <2>1, <2>2, <2>3, <3>1, <3>2 DEF Balanced
  <2> QED
    BY <1>h, <2>1, <2>2, <2>3, <2>4 DEF CallFrame, OtherCalls, CallGood
<1>4. CASE Calls!GitExits(u)
  <2>1. /\ g.at = "writes" /\ g.left = 0
        /\ git' = [git EXCEPT ![u] = [g EXCEPT !.at = "ended", !.ends = {}]]
        /\ call' = call /\ mine' = mine /\ pipe' = pipe /\ deaths' = deaths
    BY <1>4, <1>h DEF Calls!GitExits
  <2>2. /\ Calls!IsGit(git'[u]) /\ git'[u].at = "ended" /\ git'[u].left = g.left
        /\ DOMAIN git' = Thread /\ \A t \in Thread \ {u} : git'[t] = git[t]
    BY <1>d, <1>h, <2>1 DEF Calls!IsGit, Calls!NoGit
  <2>3. CallGood(u, call'[u], git'[u], pipe'[u], mine')
    BY <1>h, <2>1, <2>2 DEF CallGood, Balanced
  <2> QED
    BY <1>h, <2>1, <2>2, <2>3 DEF CallFrame, OtherCalls
<1>5. CASE Calls!GitDies(u)
  <2>1. /\ g.at \in {"reads", "writes"} /\ deaths < MaxDeaths /\ deaths' = deaths + 1
        /\ git' = [git EXCEPT ![u] = [g EXCEPT !.at = "ended", !.ends = {}, !.ok = FALSE]]
        /\ call' = call /\ mine' = mine /\ pipe' = pipe
    BY <1>5, <1>h DEF Calls!GitDies
  <2>2. /\ Calls!IsGit(git'[u]) /\ git'[u].at = "ended" /\ git'[u].left = g.left
        /\ git'[u].ok = FALSE
        /\ DOMAIN git' = Thread /\ \A t \in Thread \ {u} : git'[t] = git[t]
    BY <1>d, <1>h, <2>1 DEF Calls!IsGit, Calls!NoGit
  <2>3. CallGood(u, call'[u], git'[u], pipe'[u], mine')
    BY <1>h, <2>1, <2>2 DEF CallGood, Balanced
  <2>4. deaths' \in 0 .. MaxDeaths
    BY <1>h, <2>1
  <2> QED
    BY <1>h, <2>1, <2>2, <2>3, <2>4 DEF CallFrame, OtherCalls
<1> QED
  BY <1>1, <1>2, <1>3, <1>4, <1>5 DEF Calls!GitStep

LEMMA CallsNextOK == ASSUME Calls!CallsAssumption, CallsInv, [Calls!Next]_(Calls!vars) PROVE CallsInv'
<1>1. CASE UNCHANGED Calls!vars
  BY <1>1 DEF CallsInv, Calls!TypeOK, Calls!vars
<1>2. ASSUME NEW u \in Thread,
             \/ Calls!Step(u) \/ Calls!GitStep(u)
             \/ Calls!GitDies(u) \/ Calls!Interrupt(u)
      PROVE  CallsInv'
  <2>1. CallFrame(u) /\ CallGood(u, call'[u], git'[u], pipe'[u], mine')
    BY <1>2, CallSteps, ChildSteps
  <2>2. \A t \in Thread : CallGood(t, call'[t], git'[t], pipe'[t], mine')
    BY <2>1, OtherCallsGood DEF CallFrame
  <2> QED
    BY <2>1, <2>2 DEF CallsInv, Calls!TypeOK, CallFrame, CallGood
<1> QED
  BY <1>1, <1>2 DEF Calls!Next

-----------------------------------------------------------------------------
(***************************************************************************)
(* svn2git.  The parent of a mapped revision is mapped, in mt-db and, once *)
(* the worktree is made anew, in the file; and what a run has yet to map   *)
(* has parents that are mapped, that are in the buffer, or that it has yet *)
(* to map as well.                                                         *)
(***************************************************************************)
\* Revisions are made from older ones.
TreeSound ==
  /\ parent \in Seq(Nat) /\ Len(parent) <= MaxRev
  /\ \A r \in Svn!Revs : parent[r] \in 0 .. r - 1

FileSound(f) == f \in Seq(Nat) /\ Svn!IsFile(f)

\* The parents of mapped revisions are mapped.
Closed(f) ==
  \A r \in Svn!Revs : Svn!Lookup(f, r) /\ parent[r] # 0 => Svn!Lookup(f, parent[r])

\* The run that is in progress.
SvnRunSound ==
  /\ svnRun \in [at : {"none", "bisect", "insert"}, head : {0} \cup Svn!Revs,
                 todo : SUBSET Svn!Revs, buffer : {0} \cup Svn!Revs]
  /\ svnRun.at # "insert" => svnRun.buffer = 0 /\ svnRun.todo = {}
  /\ svnRun.at # "none" => svnRun.head # 0 /\ Closed(file)
  /\ svnRun.buffer # 0 /\ parent[svnRun.buffer] # 0
       => Svn!Lookup(file, parent[svnRun.buffer])
  /\ \A r \in svnRun.todo : parent[r] # 0
       => \/ Svn!Lookup(file, parent[r]) \/ parent[r] = svnRun.buffer
          \/ parent[r] \in svnRun.todo

SvnInv ==
  /\ TreeSound
  /\ FileSound(mtdb) /\ FileSound(file)
  /\ Closed(mtdb)
  /\ SvnRunSound
  /\ faults \in 0 .. MaxFaults

(***************************************************************************)
(* The recursive function of Line exists: there is one that is right up to *)
(* any revision.                                                           *)
(***************************************************************************)
LineStep(f, s) == (IF parent[s] = 0 THEN {} ELSE f[parent[s]]) \cup {s}
RightUpTo(f, n) ==
  /\ f \in [Svn!Revs -> SUBSET Nat]
  /\ \A s \in Svn!Revs : s <= n => f[s] = LineStep(f, s)
Lines == CHOOSE f : f = [s \in Svn!Revs |-> (IF parent[s] = 0 THEN {} ELSE f[parent[s]]) \cup {s}]

LEMMA RightUpToAny ==
  ASSUME TreeSound, NEW n \in Nat
  PROVE  \E f : RightUpTo(f, n)
<1> DEFINE Bad == {m \in Nat : ~ \E f : RightUpTo(f, m)}
<1>0. Svn!Revs \subseteq Nat \ {0}
  BY DEF TreeSound, Svn!Revs
<1>1. SUFFICES ASSUME Bad # {} PROVE FALSE
  OBVIOUS
<1>2. PICK m \in Bad : \A k \in Bad : m <= k
  <2> HIDE DEF Bad
  <2>1. Bad \subseteq Nat
    BY DEF Bad
  <2> QED
    BY <1>1, <2>1, TrieP!SmallestNat
<1>3. CASE m = 0
  <2>1. RightUpTo([s \in Svn!Revs |-> {}], 0)
    BY <1>0 DEF RightUpTo
  <2> QED
    BY <1>2, <1>3, <2>1
<1>4. CASE m # 0
  <2>1. m - 1 \in Nat /\ ~ m <= m - 1
    BY <1>2, <1>4
  <2>2. m - 1 \notin Bad
    BY <1>2, <2>1
  <2>3. PICK f : RightUpTo(f, m - 1)
    BY <2>1, <2>2
  <2> DEFINE g == [s \in Svn!Revs |-> IF s = m THEN LineStep(f, s) ELSE f[s]]
  <2>4. ASSUME NEW s \in Svn!Revs, s <= m PROVE g[s] = LineStep(g, s)
    <3>1. parent[s] \in 0 .. s - 1 /\ s \in Nat \ {0}
      BY <1>0 DEF TreeSound
    <3>2. parent[s] # m /\ (parent[s] # 0 => parent[s] \in Svn!Revs)
      BY <3>1, <2>4, <1>2 DEF Svn!Revs, TreeSound
    <3>3. LineStep(g, s) = LineStep(f, s)
      BY <3>2 DEF LineStep
    <3>4. s # m => f[s] = LineStep(f, s)
      BY <2>3, <2>4, <3>1, <1>2 DEF RightUpTo
    <3> QED
      BY <3>3, <3>4
  <2>5. g \in [Svn!Revs -> SUBSET Nat]
    <3>1. ASSUME NEW s \in Svn!Revs PROVE LineStep(f, s) \in SUBSET Nat
      <4>1. parent[s] \in 0 .. s - 1 /\ s \in Nat \ {0}
        BY <1>0 DEF TreeSound
      <4>2. parent[s] # 0 => parent[s] \in Svn!Revs
        BY <4>1 DEF Svn!Revs, TreeSound
      <4> QED
        BY <4>1, <4>2, <2>3 DEF LineStep, RightUpTo
    <3> QED
      BY <3>1, <2>3 DEF RightUpTo
  <2>6. RightUpTo(g, m)
    BY <2>4, <2>5 DEF RightUpTo
  <2> QED
    BY <1>2, <2>6
<1> QED
  BY <1>3, <1>4

\* The revision and the line of its parent.
LEMMA LinesEquation ==
  ASSUME TreeSound, NEW s \in Svn!Revs
  PROVE  Lines[s] = (IF parent[s] = 0 THEN {} ELSE Lines[parent[s]]) \cup {s}
<1>1. Len(parent) \in Nat
  BY DEF TreeSound
<1>2. PICK f : RightUpTo(f, Len(parent))
  BY <1>1, RightUpToAny
<1>3. \A r \in Svn!Revs : f[r] = (IF parent[r] = 0 THEN {} ELSE f[parent[r]]) \cup {r}
  BY <1>1, <1>2 DEF RightUpTo, LineStep, Svn!Revs
<1>4. f = [r \in Svn!Revs |-> (IF parent[r] = 0 THEN {} ELSE f[parent[r]]) \cup {r}]
  BY <1>2, <1>3 DEF RightUpTo
<1>5. Lines = [r \in Svn!Revs |-> (IF parent[r] = 0 THEN {} ELSE Lines[parent[r]]) \cup {r}]
  BY <1>4 DEF Lines
<1> QED
  BY <1>5

LEMMA LineIs ==
  \A h : Svn!Line(h) = IF h = 0 THEN {} ELSE Lines[h]
BY DEF Svn!Line, Lines

\* A set with a revision in which every member's parent is: the line is part of it.
LEMMA LineWithin ==
  ASSUME TreeSound, NEW A, NEW h \in Svn!Revs, h \in A,
         \A s \in A \cap Svn!Revs : parent[s] # 0 => parent[s] \in A
  PROVE  Lines[h] \subseteq A \cap Svn!Revs
<1> DEFINE Bad == {s \in A \cap Svn!Revs : ~ Lines[s] \subseteq A \cap Svn!Revs}
<1>1. SUFFICES ASSUME Bad # {} PROVE FALSE
  OBVIOUS
<1>2. Svn!Revs \subseteq Nat
  BY DEF TreeSound, Svn!Revs
<1>3. PICK m \in Bad : \A k \in Bad : m <= k
  <2>1. Bad \subseteq Nat
    BY <1>2
  <2> HIDE DEF Bad
  <2> QED
    BY <1>1, <2>1, TrieP!SmallestNat
<1>4. parent[m] \in 0 .. m - 1 /\ m \in Svn!Revs /\ m \in A
  BY DEF TreeSound
<1>5. parent[m] # 0 => parent[m] \in A \cap Svn!Revs
  BY <1>4 DEF TreeSound, Svn!Revs
<1>6. parent[m] # 0 => Lines[parent[m]] \subseteq A \cap Svn!Revs
  <2>1. parent[m] # 0 => ~ m <= parent[m]
    BY <1>4, <1>2
  <2> QED
    BY <1>3, <1>5, <2>1
<1>7. Lines[m] = (IF parent[m] = 0 THEN {} ELSE Lines[parent[m]]) \cup {m}
  BY <1>4, LinesEquation
<1> QED
  BY <1>4, <1>6, <1>7

\* The parent of a member of a line is a member.
LEMMA LineHasParents ==
  ASSUME TreeSound, NEW h \in Svn!Revs, NEW c \in Lines[h], parent[c] # 0
  PROVE  parent[c] \in Lines[h]
<1> DEFINE Bad == {s \in Svn!Revs : \E b \in Lines[s] : parent[b] # 0 /\ parent[b] \notin Lines[s]}
<1>1. SUFFICES ASSUME Bad # {} PROVE FALSE
  OBVIOUS
<1>2. Svn!Revs \subseteq Nat
  BY DEF TreeSound, Svn!Revs
<1>3. PICK m \in Bad : \A k \in Bad : m <= k
  <2>1. Bad \subseteq Nat
    BY <1>2
  <2> HIDE DEF Bad
  <2> QED
    BY <1>1, <2>1, TrieP!SmallestNat
<1>4. parent[m] \in 0 .. m - 1 /\ m \in Svn!Revs
  BY DEF TreeSound
<1>5. parent[m] # 0 => parent[m] \in Svn!Revs /\ ~ m <= parent[m]
  <2>1. m \in Nat /\ 1 <= m /\ m <= Len(parent) /\ Len(parent) \in Nat
    BY <1>4 DEF TreeSound, Svn!Revs
  <2>2. parent[m] # 0 => parent[m] \in 1 .. Len(parent) /\ ~ m <= parent[m]
    BY <1>4, <2>1
  <2> QED
    BY <2>2 DEF Svn!Revs
<1>6. Lines[m] = (IF parent[m] = 0 THEN {} ELSE Lines[parent[m]]) \cup {m}
  BY <1>4, LinesEquation
<1>7. parent[m] # 0 => parent[m] \in Lines[parent[m]]
  BY <1>5, LinesEquation
<1>8. parent[m] # 0 => parent[m] \notin Bad
  BY <1>3, <1>5
<1> QED
  BY <1>3, <1>5, <1>6, <1>7, <1>8

(***************************************************************************)
(* The file.                                                               *)
(***************************************************************************)
LEMMA MaxOfTwo ==
  ASSUME NEW m \in Nat, NEW n \in Nat
  PROVE  Svn!Max({m, n}) = IF m <= n THEN n ELSE m
BY DEF Svn!Max

LEMMA MinOfNats ==
  ASSUME NEW S, S \subseteq Nat, S # {}
  PROVE  Svn!Min(S) \in S /\ \A x \in S : Svn!Min(S) <= x
BY TrieP!SmallestNat DEF Svn!Min

\* A record more, and those that were there.
LEMMA PutRecord ==
  ASSUME TreeSound, NEW f, FileSound(f), NEW r \in Svn!Revs
  PROVE  /\ FileSound(Svn!Put(f, r))
         /\ \A q \in Svn!Revs : Svn!Lookup(Svn!Put(f, r), q) <=> Svn!Lookup(f, q) \/ q = r
<1> DEFINE n == IF r <= Len(f) THEN Len(f) ELSE r
           Rec(i) == IF i = r THEN r ELSE IF i <= Len(f) THEN f[i] ELSE 0
           g == [i \in 1 .. n |-> Rec(i)]
<1>1. /\ r \in Nat \ {0} /\ Len(f) \in Nat /\ n \in Nat /\ Len(parent) \in Nat
      /\ r <= Len(parent) /\ f \in Seq(Nat)
  BY DEF FileSound, TreeSound, Svn!Revs
<1>2. Svn!Put(f, r) = g
  BY <1>1, MaxOfTwo DEF Svn!Put
<1>3. ASSUME NEW i \in 1 .. n PROVE i \in Svn!Revs /\ Rec(i) \in {0, i} /\ Rec(i) \in Nat
  <2>1. i <= Len(f) => f[i] \in {0, i} /\ i \in Svn!Revs
    BY <1>1 DEF FileSound, Svn!IsFile
  <2>2. i > Len(f) => i \in 1 .. r
    BY <1>1
  <2> QED
    BY <1>1, <2>1, <2>2 DEF Svn!Revs
<1>4. g \in Seq(Nat) /\ Len(g) = n /\ DOMAIN g = 1 .. n
  BY <1>1, <1>3
<1>5. FileSound(g)
  BY <1>3, <1>4 DEF FileSound, Svn!IsFile
<1>6. ASSUME NEW q \in Svn!Revs PROVE Svn!Lookup(g, q) <=> Svn!Lookup(f, q) \/ q = r
  <2>1. q \in Nat \ {0}
    BY <1>1 DEF Svn!Revs
  <2>2. q <= n => g[q] = Rec(q)
    BY <2>1, <1>1
  <2> HIDE DEF g
  <2> QED
    BY <2>1, <2>2, <1>1, <1>4 DEF Svn!Lookup
<1> QED
  BY <1>2, <1>5, <1>6

-----------------------------------------------------------------------------
(***************************************************************************)
(* The steps of svn2git.                                                   *)
(***************************************************************************)
LEMMA SvnCommit ==
  ASSUME SvnInv, Svn!Commit
  PROVE  SvnInv'
<1>1. PICK p \in {0} \cup Svn!Revs : parent' = Append(parent, p)
  BY DEF Svn!Commit
<1>2. /\ parent \in Seq(Nat) /\ Len(parent) \in Nat /\ p \in Nat /\ p <= Len(parent)
      /\ Len(parent) < MaxRev /\ MaxRev \in Nat
      /\ UNCHANGED <<mtdb, file, svnRun, faults>>
  BY PartsAssumption DEF SvnInv, TreeSound, Svn!Revs, Svn!Commit, Svn!Svn2GitAssumption
<1>3. /\ parent' \in Seq(Nat) /\ Len(parent') = Len(parent) + 1
      /\ \A r \in Svn!Revs : parent'[r] = parent[r]
      /\ parent'[Len(parent) + 1] = p
  BY <1>1, <1>2 DEF Svn!Revs
<1>4. Svn!Revs' = Svn!Revs \cup {Len(parent) + 1} /\ Svn!Revs \subseteq Nat
  BY <1>2, <1>3 DEF Svn!Revs
<1>5. TreeSound'
  <2>1. Len(parent') <= MaxRev
    BY <1>2, <1>3
  <2>2. ASSUME NEW r \in Svn!Revs' PROVE parent'[r] \in 0 .. r - 1
    BY <1>2, <1>3, <1>4 DEF SvnInv, TreeSound
  <2> QED
    BY <1>3, <2>1, <2>2 DEF TreeSound
<1>6. FileSound(mtdb)' /\ FileSound(file)'
  BY <1>2, <1>4 DEF SvnInv, FileSound, Svn!IsFile
<1>7. ASSUME NEW f, FileSound(f), Closed(f)
      PROVE  \A r \in Svn!Revs' : Svn!Lookup(f, r) /\ parent'[r] # 0 => Svn!Lookup(f, parent'[r])
  <2>1. ~ Svn!Lookup(f, Len(parent) + 1)
    <3>1. Len(f) \in Nat /\ Len(f) <= Len(parent)
      BY <1>7, <1>2, SMTT(30) DEF FileSound, Svn!IsFile, Svn!Revs
    <3> QED
      BY <3>1, <1>2 DEF Svn!Lookup
  <2> QED
    BY <2>1, <1>3, <1>4, <1>7 DEF Closed
<1>8. Closed(mtdb)'
  BY <1>2, <1>7 DEF SvnInv, Closed, Svn!Lookup
<1>9. SvnRunSound'
  <2>1. svnRun.at # "none" => Closed(file)'
    BY <1>2, <1>7 DEF SvnInv, SvnRunSound, Closed, Svn!Lookup
  <2>2. svnRun \in [at : {"none", "bisect", "insert"}, head : {0} \cup Svn!Revs',
                    todo : SUBSET Svn!Revs', buffer : {0} \cup Svn!Revs']
    <3>1. svnRun \in [at : {"none", "bisect", "insert"}, head : {0} \cup Svn!Revs,
                      todo : SUBSET Svn!Revs, buffer : {0} \cup Svn!Revs]
      BY DEF SvnInv, SvnRunSound
    <3> QED
      BY <3>1, <1>4
  <2>3. svnRun.buffer # 0 => parent'[svnRun.buffer] = parent[svnRun.buffer]
    BY <1>3 DEF SvnInv, SvnRunSound
  <2>4. \A r \in svnRun.todo : parent'[r] = parent[r]
    BY <1>3 DEF SvnInv, SvnRunSound
  <2> QED
    BY <1>2, <2>1, <2>2, <2>3, <2>4 DEF SvnInv, SvnRunSound, Svn!Lookup
<1> QED
  BY <1>2, <1>5, <1>6, <1>8, <1>9 DEF SvnInv

LEMMA SvnStart ==
  ASSUME SvnInv, NEW h \in Svn!Tips, Svn!Start(h)
  PROVE  SvnInv'
<1>1. /\ svnRun' = [at |-> "bisect", head |-> h, todo |-> {}, buffer |-> 0]
      /\ file' = mtdb /\ UNCHANGED <<parent, mtdb, faults>>
      /\ h \in Svn!Revs /\ h # 0
  <2>1. h \in Svn!Revs /\ h # 0
    BY DEF Svn!Tips, Svn!Revs, SvnInv, TreeSound
  <2>2. svnRun' = [at |-> "bisect", head |-> h, todo |-> {}, buffer |-> 0]
    BY DEF Svn!Start, Svn!NoRun
  <2> QED
    BY <2>1, <2>2 DEF Svn!Start
<1>2. TreeSound' /\ FileSound(mtdb)' /\ Closed(mtdb)' /\ FileSound(file)' /\ Closed(file)'
  BY <1>1 DEF SvnInv, TreeSound, FileSound, Closed, Svn!IsFile, Svn!Revs, Svn!Lookup
<1>3. SvnRunSound'
  BY <1>1, <1>2 DEF SvnRunSound, Svn!Revs
<1> QED
  BY <1>1, <1>2, <1>3 DEF SvnInv

\* What lies between a mapped commit and the head.
LEMMA SvnBisect ==
  ASSUME SvnInv, Svn!Bisect
  PROVE  SvnInv'
<1> DEFINE h == svnRun.head
<1>1. PICK k \in Svn!Boundaries(h) :
        svnRun' = [svnRun EXCEPT !.at = "insert", !.todo = Svn!RevList(h, k)]
  BY DEF Svn!Bisect
<1>2. /\ UNCHANGED <<parent, mtdb, file, faults>> /\ svnRun.at = "bisect" /\ TreeSound
      /\ h \in Svn!Revs /\ Closed(file) /\ svnRun.buffer = 0
      /\ svnRun \in [at : {"none", "bisect", "insert"}, head : {0} \cup Svn!Revs,
                      todo : SUBSET Svn!Revs, buffer : {0} \cup Svn!Revs]
  BY DEF SvnInv, SvnRunSound, Svn!Bisect
<1>3. Svn!Revs \subseteq Nat \ {0}
  BY <1>2 DEF TreeSound, Svn!Revs
<1>4. Svn!Line(h) = Lines[h] /\ Lines[h] \subseteq Svn!Revs
  <2>1. Lines[h] \subseteq Svn!Revs \cap Svn!Revs
    <3>1. \A s \in Svn!Revs \cap Svn!Revs : parent[s] # 0 => parent[s] \in Svn!Revs
      BY <1>2 DEF TreeSound, Svn!Revs
    <3> QED
      BY <1>2, <3>1, LineWithin
  <2> QED
    BY <2>1, <1>2, <1>3, LineIs
<1> DEFINE mapped == {s \in Svn!Revs : Svn!Lookup(file, s)}
<1>5. Svn!Line(k) \subseteq mapped
  <2>1. CASE k = 0
    BY <2>1, LineIs
  <2>2. CASE k # 0
    <3>1. k \in Lines[h] /\ Svn!Lookup(file, k)
      BY <1>1, <1>4, <2>2 DEF Svn!Boundaries
    <3>2. k \in Svn!Revs /\ k \in mapped
      BY <3>1, <1>4
    <3>3. \A s \in mapped \cap Svn!Revs : parent[s] # 0 => parent[s] \in mapped
      BY <1>2 DEF Closed, TreeSound, Svn!Revs
    <3>4. Lines[k] \subseteq mapped \cap Svn!Revs
      <4> HIDE DEF mapped
      <4> QED
        BY <1>2, <3>2, <3>3, LineWithin
    <3> QED
      BY <3>4, <2>2, LineIs
  <2> QED
    BY <2>1, <2>2
<1>6. Svn!RevList(h, k) = Lines[h] \ Svn!Line(k)
  BY <1>4 DEF Svn!RevList
<1>7. ASSUME NEW r \in Svn!RevList(h, k), parent[r] # 0
      PROVE  Svn!Lookup(file, parent[r]) \/ parent[r] \in Svn!RevList(h, k)
  <2>1. parent[r] \in Lines[h]
    BY <1>2, <1>6, <1>7, LineHasParents
  <2> QED
    BY <2>1, <1>5, <1>6
<1>8. SvnRunSound'
  <2>1. /\ svnRun'.at = "insert" /\ svnRun'.head = h /\ svnRun'.buffer = 0
        /\ svnRun'.todo = Svn!RevList(h, k)
        /\ svnRun' \in [at : {"none", "bisect", "insert"}, head : {0} \cup Svn!Revs,
                      todo : SUBSET Svn!Revs, buffer : {0} \cup Svn!Revs]
    BY <1>1, <1>2, <1>4, <1>6
  <2>2. Closed(file)' /\ Svn!Revs' = Svn!Revs /\ h # 0
    BY <1>2, <1>3 DEF Closed, Svn!Revs, Svn!Lookup
  <2>3. \A r \in svnRun'.todo : parent'[r] # 0
          => Svn!Lookup(file', parent'[r]) \/ parent'[r] \in svnRun'.todo
    BY <1>2, <1>7, <2>1
  <2> QED
    BY <2>1, <2>2, <2>3 DEF SvnRunSound, Svn!Lookup
<1>9. TreeSound' /\ FileSound(mtdb)' /\ Closed(mtdb)' /\ FileSound(file)'
  BY <1>2 DEF SvnInv, TreeSound, FileSound, Closed, Svn!IsFile, Svn!Revs, Svn!Lookup
<1> QED
  BY <1>2, <1>8, <1>9 DEF SvnInv

\* The buffer is written out: what has its parent in the buffer has it in the
\* file then.
LEMMA WriteOut ==
  ASSUME SvnInv, svnRun.at = "insert",
         NEW f, f = IF svnRun.buffer = 0 THEN file ELSE Svn!Put(file, svnRun.buffer)
  PROVE  /\ FileSound(f) /\ Closed(f)
         /\ \A q \in Svn!Revs : Svn!Lookup(f, q) <=> Svn!Lookup(file, q) \/ q = svnRun.buffer
<1>1. /\ TreeSound /\ FileSound(file) /\ Closed(file) /\ svnRun.buffer \in {0} \cup Svn!Revs
      /\ Svn!Revs \subseteq Nat \ {0}
  BY DEF SvnInv, SvnRunSound, TreeSound, Svn!Revs
<1>2. /\ FileSound(f)
      /\ \A q \in Svn!Revs : Svn!Lookup(f, q) <=> Svn!Lookup(file, q) \/ q = svnRun.buffer
  BY <1>1, PutRecord
<1>3. ASSUME NEW r \in Svn!Revs, Svn!Lookup(f, r), parent[r] # 0
      PROVE  Svn!Lookup(f, parent[r])
  <2>1. parent[r] \in Svn!Revs
    BY <1>1, <1>3 DEF TreeSound, Svn!Revs
  <2>2. CASE Svn!Lookup(file, r)
    BY <1>1, <1>2, <1>3, <2>1, <2>2 DEF Closed
  <2>3. CASE r = svnRun.buffer
    BY <1>1, <1>2, <1>3, <2>1, <2>3 DEF SvnInv, SvnRunSound
  <2> QED
    BY <1>2, <1>3, <2>2, <2>3
<1> QED
  BY <1>2, <1>3 DEF Closed

LEMMA SvnInsert ==
  ASSUME SvnInv, Svn!Insert
  PROVE  SvnInv'
<1> DEFINE n == Svn!NextListed(svnRun.todo)
<1>1. /\ UNCHANGED <<parent, mtdb, faults>> /\ svnRun.at = "insert" /\ TreeSound
      /\ svnRun.todo # {} /\ svnRun.todo \subseteq Svn!Revs
      /\ svnRun' = [svnRun EXCEPT !.buffer = n, !.todo = @ \ {n}]
      /\ svnRun \in [at : {"none", "bisect", "insert"}, head : {0} \cup Svn!Revs,
                      todo : SUBSET Svn!Revs, buffer : {0} \cup Svn!Revs]
      /\ svnRun.head # 0
  BY DEF SvnInv, SvnRunSound, Svn!Insert
<1>2. /\ FileSound(file') /\ Closed(file')
      /\ \A q \in Svn!Revs : Svn!Lookup(file', q) <=> Svn!Lookup(file, q) \/ q = svnRun.buffer
  BY <1>1, WriteOut DEF Svn!Insert
<1>3. Svn!Revs \subseteq Nat \ {0} /\ Svn!Revs' = Svn!Revs
  BY <1>1 DEF TreeSound, Svn!Revs
<1>4. n \in svnRun.todo /\ \A x \in svnRun.todo : n <= x
  <2>1. svnRun.todo \subseteq Nat
    BY <1>1, <1>3
  <2> QED
    BY <1>1, <2>1, MinOfNats DEF Svn!NextListed
<1>5. /\ svnRun'.at = "insert" /\ svnRun'.head = svnRun.head /\ svnRun'.buffer = n
      /\ svnRun'.todo = svnRun.todo \ {n}
      /\ svnRun' \in [at : {"none", "bisect", "insert"}, head : {0} \cup Svn!Revs,
                      todo : SUBSET Svn!Revs, buffer : {0} \cup Svn!Revs]
  <2> HIDE DEF n
  <2> QED
    BY <1>1, <1>4
<1>6. ASSUME NEW r \in svnRun.todo, parent[r] # 0
      PROVE  Svn!Lookup(file', parent[r]) \/ parent[r] \in svnRun.todo
  <2>1. r \in Svn!Revs /\ parent[r] \in Svn!Revs
    BY <1>1, <1>6, SMTT(30) DEF TreeSound, Svn!Revs
  <2> QED
    BY <1>2, <1>6, <2>1 DEF SvnInv, SvnRunSound
<1>7. parent[n] # 0 => Svn!Lookup(file', parent[n])
  <2>1. parent[n] \in 0 .. n - 1 /\ n \in Nat
    BY <1>1, <1>3, <1>4 DEF TreeSound
  <2>2. parent[n] \notin svnRun.todo
    BY <1>4, <2>1
  <2> QED
    BY <1>4, <1>6, <2>2
<1>8. SvnRunSound'
  <2> HIDE DEF n
  <2>1. Closed(file)'
    BY <1>1, <1>2, <1>3 DEF Closed, Svn!Lookup
  <2>2. \A r \in svnRun'.todo : parent'[r] # 0
          => \/ Svn!Lookup(file', parent'[r]) \/ parent'[r] = svnRun'.buffer
             \/ parent'[r] \in svnRun'.todo
    BY <1>1, <1>5, <1>6
  <2>3. svnRun'.buffer # 0 /\ parent'[svnRun'.buffer] # 0
          => Svn!Lookup(file', parent'[svnRun'.buffer])
    BY <1>1, <1>5, <1>7
  <2> QED
    BY <1>1, <1>3, <1>5, <2>1, <2>2, <2>3 DEF SvnRunSound, Svn!Lookup
<1>9. TreeSound' /\ FileSound(mtdb)' /\ Closed(mtdb)' /\ FileSound(file)'
  BY <1>1, <1>2, <1>3 DEF SvnInv, TreeSound, FileSound, Closed, Svn!IsFile, Svn!Revs, Svn!Lookup
<1> QED
  BY <1>1, <1>8, <1>9 DEF SvnInv

\* The end of a run, whether the last record is written or not.
LEMMA SvnEnd ==
  ASSUME SvnInv, Svn!Save \/ Svn!SaveWithoutLast \/ Svn!Kill
  PROVE  SvnInv'
<1>1. /\ UNCHANGED parent /\ svnRun' = [at |-> "none", head |-> 0, todo |-> {}, buffer |-> 0]
      /\ faults' \in 0 .. MaxFaults
  <2>1. faults' \in 0 .. MaxFaults
    BY PartsAssumption
    DEF SvnInv, Svn!Save, Svn!SaveWithoutLast, Svn!Kill, Svn!Svn2GitAssumption
  <2> QED
    BY <2>1 DEF Svn!Save, Svn!SaveWithoutLast, Svn!Kill, Svn!NoRun
<1>2. FileSound(mtdb') /\ Closed(mtdb') /\ FileSound(file')
  <2>1. CASE Svn!Save
    BY <2>1, WriteOut DEF Svn!Save
  <2>2. CASE Svn!SaveWithoutLast
    BY <2>2 DEF Svn!SaveWithoutLast, SvnInv, SvnRunSound
  <2>3. CASE Svn!Kill
    BY <2>3 DEF Svn!Kill, SvnInv
  <2> QED
    BY <2>1, <2>2, <2>3
<1>3. TreeSound' /\ FileSound(mtdb)' /\ Closed(mtdb)' /\ FileSound(file)'
  BY <1>1, <1>2 DEF SvnInv, TreeSound, FileSound, Closed, Svn!IsFile, Svn!Revs, Svn!Lookup
<1>4. SvnRunSound'
  BY <1>1 DEF SvnRunSound
<1> QED
  BY <1>1, <1>3, <1>4 DEF SvnInv

LEMMA SvnCutShort ==
  ASSUME SvnInv, Svn!CutShort
  PROVE  SvnInv'
<1>1. /\ UNCHANGED <<parent, mtdb, file>> /\ svnRun' = [svnRun EXCEPT !.todo = {}]
      /\ svnRun.at = "insert"
      /\ svnRun \in [at : {"none", "bisect", "insert"}, head : {0} \cup Svn!Revs,
                      todo : SUBSET Svn!Revs, buffer : {0} \cup Svn!Revs]
  BY DEF Svn!CutShort, SvnInv, SvnRunSound
<1>2. faults' \in 0 .. MaxFaults
  BY PartsAssumption DEF SvnInv, Svn!CutShort, Svn!Svn2GitAssumption
<1>3. TreeSound' /\ FileSound(mtdb)' /\ Closed(mtdb)' /\ FileSound(file)'
  BY <1>1 DEF SvnInv, TreeSound, FileSound, Closed, Svn!IsFile, Svn!Revs, Svn!Lookup
<1>4. SvnRunSound'
  BY <1>1 DEF SvnInv, SvnRunSound, Svn!Revs, Svn!Lookup, Closed
<1> QED
  BY <1>2, <1>3, <1>4 DEF SvnInv

LEMMA SvnInit == Svn!Init => SvnInv
<1> SUFFICES ASSUME Svn!Init PROVE SvnInv
  OBVIOUS
<1>1. /\ parent = <<>> /\ mtdb = <<>> /\ file = <<>> /\ faults = 0
      /\ svnRun = [at |-> "none", head |-> 0, todo |-> {}, buffer |-> 0]
  BY DEF Svn!Init, Svn!NoRun
<1>2. Svn!Revs = {} /\ MaxRev \in Nat /\ MaxFaults \in Nat
  BY <1>1, PartsAssumption DEF Svn!Revs, Svn!Svn2GitAssumption
<1>3. TreeSound /\ FileSound(mtdb) /\ FileSound(file) /\ Closed(mtdb)
  BY <1>1, <1>2 DEF TreeSound, FileSound, Svn!IsFile, Closed
<1>4. SvnRunSound
  BY <1>1 DEF SvnRunSound
<1> QED
  BY <1>1, <1>2, <1>3, <1>4 DEF SvnInv

LEMMA SvnNextOK == ASSUME SvnInv, [Svn!Next]_(Svn!vars) PROVE SvnInv'
<1>1. CASE UNCHANGED Svn!vars
  BY <1>1 DEF Svn!vars, SvnInv, TreeSound, FileSound, Closed, Svn!IsFile, Svn!Revs, Svn!Lookup,
     SvnRunSound
<1>2. CASE Svn!StartAny
  BY <1>2, SvnStart DEF Svn!StartAny
<1> QED
  BY <1>1, <1>2, SvnCommit, SvnBisect, SvnInsert, SvnEnd, SvnCutShort DEF Svn!Next, Svn!Run

-----------------------------------------------------------------------------
(***************************************************************************)
(* The zippered merge.  The target is in step; from a pair in step, the    *)
(* next merge is in step again and, where the lines of pairs in step cross *)
(* it, they are all of one merge base, so that a later merge reaches them. *)
(***************************************************************************)
Branches(s) ==
  /\ s \in Seq(Nat) /\ s # <<>>
  /\ \A a, b \in 1 .. Len(s) : a <= b => s[a] <= s[b]

ZipperInv ==
  /\ Branches(left) /\ Branches(right)
  /\ left \in Seq(0 .. MaxBase) /\ right \in Seq(0 .. MaxBase)
  /\ merged \in (1 .. Len(left)) \X (1 .. Len(right))
  /\ left[merged[1]] = right[merged[2]]

Pairs == (1 .. Zipper!LeftEnd) \X (1 .. Zipper!RightEnd)
InStepPair(p) == p \in Pairs /\ left[p[1]] = right[p[2]]
NotAfter(p, q) == p[1] <= q[1] /\ p[2] <= q[2]

LEMMA Ends ==
  ASSUME ZipperInv
  PROVE  /\ Zipper!LeftEnd \in Nat /\ Zipper!LeftEnd <= Len(left)
         /\ Zipper!RightEnd \in Nat /\ Zipper!RightEnd <= Len(right)
         /\ Len(left) \in Nat \ {0} /\ Len(right) \in Nat \ {0}
         /\ merged \in Pairs
<1>1. /\ Len(left) \in Nat \ {0} /\ Len(right) \in Nat \ {0}
      /\ merged \in (1 .. Len(left)) \X (1 .. Len(right))
      /\ Window \in Nat \ {0}
  <2>1. left \in Seq(Nat) /\ left # <<>> /\ right \in Seq(Nat) /\ right # <<>>
    BY DEF ZipperInv, Branches
  <2>2. Len(left) \in Nat \ {0} /\ Len(right) \in Nat \ {0}
    BY <2>1
  <2> QED
    BY <2>2, PartsAssumption DEF ZipperInv, Zipper!ZipperAssumption
<1>2. \A m \in Nat, k \in Nat, w \in Nat :
        m <= k => /\ Zipper!Least(m + w, k) \in Nat /\ Zipper!Least(m + w, k) <= k
                  /\ m <= Zipper!Least(m + w, k)
  BY DEF Zipper!Least
<1>3. merged[1] \in Nat /\ merged[2] \in Nat /\ merged[1] <= Len(left) /\ merged[2] <= Len(right)
  BY <1>1
<1> QED
  BY <1>1, <1>2, <1>3 DEF Zipper!LeftEnd, Zipper!RightEnd, Pairs

LEMMA PairValues ==
  ASSUME ZipperInv
  PROVE  /\ \A p \in Pairs : p[1] \in Nat \ {0} /\ p[2] \in Nat \ {0}
                             /\ p[1] <= Len(left) /\ p[2] <= Len(right)
                             /\ p[1] <= Zipper!LeftEnd /\ p[2] <= Zipper!RightEnd
                             /\ left[p[1]] \in Nat /\ right[p[2]] \in Nat
                             /\ p = <<p[1], p[2]>>
         /\ \A a, b \in 1 .. Zipper!LeftEnd : a <= b => left[a] <= left[b]
         /\ \A a, b \in 1 .. Zipper!RightEnd : a <= b => right[a] <= right[b]
         /\ \A a \in 1 .. Zipper!LeftEnd : left[a] \in Nat
         /\ \A a \in 1 .. Zipper!RightEnd : right[a] \in Nat
<1>1. /\ Zipper!LeftEnd \in Nat /\ Zipper!LeftEnd <= Len(left) /\ Len(left) \in Nat
      /\ Zipper!RightEnd \in Nat /\ Zipper!RightEnd <= Len(right) /\ Len(right) \in Nat
  BY Ends
<1>2. /\ \A a \in 1 .. Len(left) : left[a] \in Nat
      /\ \A a \in 1 .. Len(right) : right[a] \in Nat
  <2>1. left \in Seq(Nat) /\ right \in Seq(Nat)
    BY DEF ZipperInv, Branches
  <2> QED
    BY <2>1
<1>3. /\ \A a \in 1 .. Zipper!LeftEnd : a \in 1 .. Len(left)
      /\ \A a \in 1 .. Zipper!RightEnd : a \in 1 .. Len(right)
  BY <1>1
<1>4. ASSUME NEW p \in Pairs
      PROVE  p[1] \in 1 .. Zipper!LeftEnd /\ p[2] \in 1 .. Zipper!RightEnd /\ p = <<p[1], p[2]>>
  BY DEF Pairs
<1>5. /\ \A a, b \in 1 .. Zipper!LeftEnd : a <= b => left[a] <= left[b]
      /\ \A a, b \in 1 .. Zipper!RightEnd : a <= b => right[a] <= right[b]
  BY <1>3 DEF ZipperInv, Branches
<1>6. ASSUME NEW p \in Pairs
      PROVE  /\ p[1] \in Nat \ {0} /\ p[2] \in Nat \ {0}
             /\ p[1] <= Len(left) /\ p[2] <= Len(right)
             /\ p[1] <= Zipper!LeftEnd /\ p[2] <= Zipper!RightEnd
  BY <1>1, <1>4
<1> QED
  BY <1>2, <1>3, <1>4, <1>5, <1>6

\* The next merge is further on.
LEMMA NextIsFurther ==
  ASSUME ZipperInv, NEW p \in Pairs, NEW q \in Zipper!NextMerge(p[1], p[2])
  PROVE  q \in Pairs /\ NotAfter(p, q) /\ p[1] + p[2] < q[1] + q[2]
<1> DEFINE i == p[1]
           j == p[2]
<1>1. i \in 1 .. Zipper!LeftEnd /\ j \in 1 .. Zipper!RightEnd
  BY DEF Pairs
<1>2. Zipper!LeftEnd \in Nat /\ Zipper!RightEnd \in Nat
  BY Ends
<1>3. \/ q = <<i + 1, j>> /\ i < Zipper!LeftEnd
      \/ q = <<i, j + 1>> /\ j < Zipper!RightEnd
      \/ q \in (i + 1 .. Zipper!LeftEnd) \X (j + 1 .. Zipper!RightEnd)
  BY <1>1, <1>2 DEF Zipper!NextMerge, Zipper!NextMatch
<1> HIDE DEF i, j
<1>4. CASE q = <<i + 1, j>> /\ i < Zipper!LeftEnd
  BY <1>1, <1>2, <1>4 DEF Pairs, NotAfter, i, j
<1>5. CASE q = <<i, j + 1>> /\ j < Zipper!RightEnd
  BY <1>1, <1>2, <1>5 DEF Pairs, NotAfter, i, j
<1>6. CASE q \in (i + 1 .. Zipper!LeftEnd) \X (j + 1 .. Zipper!RightEnd)
  <2>1. q[1] \in i + 1 .. Zipper!LeftEnd /\ q[2] \in j + 1 .. Zipper!RightEnd /\ q = <<q[1], q[2]>>
    BY <1>6
  <2>2. q[1] \in Nat /\ q[2] \in Nat /\ i < q[1] /\ j < q[2]
    BY <1>1, <1>2, <2>1
  <2> QED
    BY <1>1, <1>2, <2>1, <2>2 DEF Pairs, NotAfter, i, j
<1> QED
  BY <1>3, <1>4, <1>5, <1>6

LEMMA NextInStep ==
  ASSUME ZipperInv, NEW p, InStepPair(p), NEW q \in Zipper!NextMerge(p[1], p[2])
  PROVE  InStepPair(q)
<1>1. q \in Pairs
  BY NextIsFurther DEF InStepPair
<1>2. \/ q = <<p[1] + 1, p[2]>> /\ right[p[2]] = left[p[1] + 1]
      \/ q = <<p[1], p[2] + 1>> /\ left[p[1]] = right[p[2] + 1]
      \/ left[q[1]] = right[q[2]]
  BY DEF Zipper!NextMerge, Zipper!NextMatch
<1> QED
  BY <1>1, <1>2 DEF InStepPair

\* There is a next merge as long as another pair is in step.
LEMMA NextExists ==
  ASSUME ZipperInv, NEW p, InStepPair(p), NEW r, InStepPair(r), NotAfter(p, r), r # p
  PROVE  Zipper!NextMerge(p[1], p[2]) # {}
<1> DEFINE i == p[1]
           j == p[2]
           L == Zipper!LeftEnd
           R == Zipper!RightEnd
<1>1. /\ i \in 1 .. L /\ j \in 1 .. R /\ L \in Nat /\ R \in Nat
      /\ r[1] \in i .. L /\ r[2] \in j .. R /\ (r[1] # i \/ r[2] # j)
      /\ left[i] = right[j] /\ left[r[1]] = right[r[2]]
  <2>1. p = <<i, j>> /\ r = <<r[1], r[2]>>
    BY PairValues DEF InStepPair
  <2> QED
    BY <2>1, Ends, PairValues DEF InStepPair, Pairs, NotAfter
<1>2. /\ \A a, b \in 1 .. L : a <= b => left[a] <= left[b]
      /\ \A a, b \in 1 .. R : a <= b => right[a] <= right[b]
      /\ \A a \in 1 .. L : left[a] \in Nat
      /\ \A a \in 1 .. R : right[a] \in Nat
  BY PairValues
<1> HIDE DEF i, j, L, R
<1>3. CASE r[1] = i
  <2>1. j + 1 \in 1 .. R /\ j + 1 <= r[2] /\ j < R /\ r[2] \in 1 .. R
    BY <1>1, <1>3
  <2>2. right[j] <= right[j + 1] /\ right[j + 1] <= right[r[2]] /\ right[r[2]] = right[j]
    BY <1>1, <1>2, <1>3, <2>1
  <2>3. right[j + 1] = left[i]
    BY <1>1, <1>2, <2>1, <2>2
  <2> QED
    BY <2>1, <2>3 DEF Zipper!NextMerge, i, j, L, R
<1>4. CASE r[2] = j
  <2>1. i + 1 \in 1 .. L /\ i + 1 <= r[1] /\ i < L /\ r[1] \in 1 .. L
    BY <1>1, <1>4
  <2>2. left[i] <= left[i + 1] /\ left[i + 1] <= left[r[1]] /\ left[r[1]] = left[i]
    BY <1>1, <1>2, <1>4, <2>1
  <2>3. left[i + 1] = right[j]
    BY <1>1, <1>2, <2>1, <2>2
  <2> QED
    BY <2>1, <2>3 DEF Zipper!NextMerge, i, j, L, R
<1>5. CASE r[1] # i /\ r[2] # j
  <2> DEFINE Ns == {n \in j + 1 .. R : \E k \in i + 1 .. L : left[k] = right[n]}
  <2>1. r[1] \in i + 1 .. L /\ r[2] \in Ns
    BY <1>1, <1>5
  <2>2. Ns \subseteq Nat /\ Ns # {}
    BY <1>1, <2>1
  <2>3. PICK n \in Ns : \A m \in Ns : n <= m
    <3> HIDE DEF Ns
    <3> QED
      BY <2>2, TrieP!SmallestNat
  <2> DEFINE Ks == {k \in i + 1 .. L : left[k] = right[n]}
  <2>4. Ks \subseteq Nat /\ Ks # {}
    BY <1>1, <2>3
  <2>5. PICK k \in Ks : \A m \in Ks : k <= m
    <3> HIDE DEF Ks, Ns
    <3> QED
      BY <2>4, TrieP!SmallestNat
  <2>6. <<k, n>> \in (i + 1 .. L) \X (j + 1 .. R) /\ left[k] = right[n]
    OBVIOUS
  <2>7. \A m \in i + 1 .. k - 1 : left[m] # right[n]
    <3>1. ASSUME NEW m \in i + 1 .. k - 1 PROVE m \in i + 1 .. L /\ ~ k <= m
      BY <1>1
    <3> QED
      BY <2>5, <3>1
  <2>8. \A m \in j + 1 .. n - 1, l \in i + 1 .. L : left[l] # right[m]
    <3>1. ASSUME NEW m \in j + 1 .. n - 1 PROVE m \in j + 1 .. R /\ ~ n <= m
      BY <1>1
    <3> QED
      BY <2>3, <3>1
  <2>9. <<k, n>> \in Zipper!NextMatch(i, j)
    <3> HIDE DEF Ks, Ns
    <3> QED
      BY <2>6, <2>7, <2>8 DEF Zipper!NextMatch, L, R
  <2> QED
    BY <2>9 DEF Zipper!NextMerge, i, j
<1> QED
  BY <1>3, <1>4, <1>5

\* What is in step and not reached by the next merge is part of a rectangle of
\* pairs in step that it lies in.
LEMMA NextMissesNothing ==
  ASSUME ZipperInv, NEW p, InStepPair(p), NEW q \in Zipper!NextMerge(p[1], p[2]),
         NEW r, InStepPair(r), NotAfter(p, r)
  PROVE  \E s : InStepPair(s) /\ NotAfter(q, s) /\ NotAfter(r, s)
<1>1. InStepPair(q) /\ q \in Pairs /\ r \in Pairs
  BY NextInStep DEF InStepPair
<1>2. /\ q[1] \in 1 .. Zipper!LeftEnd /\ q[2] \in 1 .. Zipper!RightEnd
      /\ r[1] \in 1 .. Zipper!LeftEnd /\ r[2] \in 1 .. Zipper!RightEnd
      /\ Zipper!LeftEnd \in Nat /\ Zipper!RightEnd \in Nat
      /\ left[q[1]] = right[q[2]] /\ left[r[1]] = right[r[2]]
  BY <1>1, Ends DEF Pairs, InStepPair
<1>3. /\ \A a, b \in 1 .. Zipper!LeftEnd : a <= b => left[a] <= left[b]
      /\ \A a, b \in 1 .. Zipper!RightEnd : a <= b => right[a] <= right[b]
      /\ \A a \in 1 .. Zipper!LeftEnd : left[a] \in Nat
      /\ \A a \in 1 .. Zipper!RightEnd : right[a] \in Nat
  BY PairValues
<1>4. CASE NotAfter(q, r)
  BY <1>2, <1>4 DEF NotAfter, InStepPair
<1>5. CASE NotAfter(r, q)
  BY <1>1, <1>2, <1>5 DEF NotAfter
<1>6. CASE r[1] < q[1] /\ q[2] < r[2]
  <2>1. left[r[1]] <= left[q[1]] /\ right[q[2]] <= right[r[2]]
    BY <1>2, <1>3, <1>6
  <2>2. left[q[1]] = right[r[2]]
    BY <1>2, <1>3, <2>1
  <2>3. InStepPair(<<q[1], r[2]>>)
    BY <1>2, <2>2 DEF InStepPair, Pairs
  <2> QED
    BY <1>2, <1>6, <2>3 DEF NotAfter
<1>7. CASE q[1] < r[1] /\ r[2] < q[2]
  <2>1. left[q[1]] <= left[r[1]] /\ right[r[2]] <= right[q[2]]
    BY <1>2, <1>3, <1>7
  <2>2. left[r[1]] = right[q[2]]
    BY <1>2, <1>3, <2>1
  <2>3. InStepPair(<<r[1], q[2]>>)
    BY <1>2, <2>2 DEF InStepPair, Pairs
  <2> QED
    BY <1>2, <1>7, <2>3 DEF NotAfter
<1> QED
  BY <1>2, <1>4, <1>5, <1>6, <1>7 DEF NotAfter

-----------------------------------------------------------------------------
(***************************************************************************)
(* The recursive function of Merges exists, and what it computes.          *)
(***************************************************************************)
NextMergeOf(p) == Zipper!NextMerge(p[1], p[2])
Chosen(p) == CHOOSE q \in NextMergeOf(p) : TRUE
MergesStep(f, p) == IF NextMergeOf(p) = {} THEN <<>> ELSE <<Chosen(p)>> \o f[Chosen(p)]
Within(n, p) == Zipper!LeftEnd + Zipper!RightEnd < n + (p[1] + p[2])

MergesUpTo(f, n) ==
  /\ f \in [Pairs -> Seq(Pairs)]
  /\ \A p \in Pairs : Within(n, p) => f[p] = MergesStep(f, p)

MergesFrom ==
  CHOOSE f : f = [p \in (1 .. Zipper!LeftEnd) \X (1 .. Zipper!RightEnd) |->
                    LET next == Zipper!NextMerge(p[1], p[2])
                        q == CHOOSE q \in next : TRUE
                    IN  IF next = {} THEN <<>> ELSE <<q>> \o f[q]]

LEMMA ChosenIsFurther ==
  ASSUME ZipperInv, NEW p \in Pairs, NextMergeOf(p) # {}
  PROVE  /\ Chosen(p) \in NextMergeOf(p) /\ Chosen(p) \in Pairs
         /\ \A n \in Nat \ {0} : Within(n, p) => Within(n - 1, Chosen(p))
<1>1. Chosen(p) \in Zipper!NextMerge(p[1], p[2])
  BY DEF Chosen, NextMergeOf
<1>2. Chosen(p) \in Pairs /\ p[1] + p[2] < Chosen(p)[1] + Chosen(p)[2]
  BY <1>1, NextIsFurther
<1>3. /\ Zipper!LeftEnd + Zipper!RightEnd \in Nat /\ p[1] + p[2] \in Nat
      /\ Chosen(p)[1] + Chosen(p)[2] \in Nat
  BY <1>2, Ends, PairValues
<1>4. \A e, a, b \in Nat, n \in Nat \ {0} : a < b /\ e < n + a => e < (n - 1) + b
  OBVIOUS
<1> QED
  BY <1>1, <1>2, <1>3, <1>4 DEF Within, NextMergeOf

LEMMA MergesStepType ==
  ASSUME ZipperInv, NEW f \in [Pairs -> Seq(Pairs)], NEW p \in Pairs
  PROVE  MergesStep(f, p) \in Seq(Pairs)
<1>1. CASE NextMergeOf(p) = {}
  BY <1>1 DEF MergesStep
<1>2. CASE NextMergeOf(p) # {}
  <2>1. Chosen(p) \in Pairs
    BY <1>2, ChosenIsFurther
  <2>2. f[Chosen(p)] \in Seq(Pairs) /\ <<Chosen(p)>> \in Seq(Pairs)
    BY <2>1
  <2> QED
    BY <1>2, <2>2 DEF MergesStep
<1> QED
  BY <1>1, <1>2

LEMMA MergesUpToAny ==
  ASSUME ZipperInv, NEW n \in Nat
  PROVE  \E f : MergesUpTo(f, n)
<1> DEFINE Bad == {m \in Nat : ~ \E f : MergesUpTo(f, m)}
<1>0. /\ Zipper!LeftEnd \in Nat /\ Zipper!RightEnd \in Nat
      /\ \A p \in Pairs : p[1] \in Nat /\ p[2] \in Nat
                           /\ p[1] <= Zipper!LeftEnd /\ p[2] <= Zipper!RightEnd
  BY Ends, PairValues
<1>1. SUFFICES ASSUME Bad # {} PROVE FALSE
  OBVIOUS
<1>2. PICK m \in Bad : \A k \in Bad : m <= k
  <2>1. Bad \subseteq Nat
    OBVIOUS
  <2> HIDE DEF Bad
  <2> QED
    BY <1>1, <2>1, TrieP!SmallestNat
<1>3. CASE m = 0
  <2>1. \A p \in Pairs : ~ Within(0, p)
    BY <1>0 DEF Within
  <2>2. MergesUpTo([p \in Pairs |-> <<>>], 0)
    BY <2>1 DEF MergesUpTo
  <2> QED
    BY <1>2, <1>3, <2>2
<1>4. CASE m # 0
  <2>1. m - 1 \in Nat /\ ~ m <= m - 1 /\ m \in Nat \ {0}
    BY <1>2, <1>4
  <2>2. m - 1 \notin Bad
    BY <1>2, <2>1
  <2>3. PICK f : MergesUpTo(f, m - 1)
    BY <2>1, <2>2
  <2> DEFINE g == [p \in Pairs |-> IF Within(m - 1, p) THEN f[p] ELSE MergesStep(f, p)]
  <2>4. f \in [Pairs -> Seq(Pairs)] /\ g \in [Pairs -> Seq(Pairs)]
    BY <2>3, MergesStepType DEF MergesUpTo
  <2>5. ASSUME NEW p \in Pairs, Within(m, p) PROVE g[p] = MergesStep(g, p)
    <3>1. g[p] = MergesStep(f, p)
      BY <2>3 DEF MergesUpTo
    <3>2. MergesStep(g, p) = MergesStep(f, p)
      <4>1. CASE NextMergeOf(p) = {}
        BY <4>1 DEF MergesStep
      <4>2. CASE NextMergeOf(p) # {}
        <5>1. Chosen(p) \in Pairs /\ Within(m - 1, Chosen(p))
          BY <4>2, <2>1, <2>5, ChosenIsFurther
        <5>2. g[Chosen(p)] = f[Chosen(p)]
          BY <5>1
        <5> QED
          BY <5>2 DEF MergesStep
      <4> QED
        BY <4>1, <4>2
    <3> QED
      BY <3>1, <3>2
  <2>6. MergesUpTo(g, m)
    <3> HIDE DEF g
    <3> QED
      BY <2>4, <2>5 DEF MergesUpTo
  <2> QED
    BY <1>2, <2>6
<1> QED
  BY <1>3, <1>4

LEMMA AllWithin ==
  ASSUME ZipperInv
  PROVE  /\ Zipper!LeftEnd + Zipper!RightEnd \in Nat
         /\ \A p \in Pairs : Within(Zipper!LeftEnd + Zipper!RightEnd, p)
<1>1. Zipper!LeftEnd + Zipper!RightEnd \in Nat
  BY Ends
<1>2. ASSUME NEW p \in Pairs PROVE Within(Zipper!LeftEnd + Zipper!RightEnd, p)
  <2>1. p[1] + p[2] \in Nat \ {0}
    BY PairValues
  <2>2. \A e \in Nat, a \in Nat \ {0} : e < e + a
    OBVIOUS
  <2> QED
    BY <1>1, <2>1, <2>2 DEF Within
<1> QED
  BY <1>1, <1>2

LEMMA MergesEquation ==
  ASSUME ZipperInv
  PROVE  \A p \in Pairs : MergesFrom[p] = MergesStep(MergesFrom, p)
<1> DEFINE n == Zipper!LeftEnd + Zipper!RightEnd
<1>1. n \in Nat /\ \A p \in Pairs : Within(n, p)
  BY AllWithin
<1>2. PICK f : MergesUpTo(f, n)
  BY <1>1, MergesUpToAny
<1>3. \A p \in Pairs : f[p] = MergesStep(f, p)
  BY <1>1, <1>2 DEF MergesUpTo
<1>4. f = [p \in Pairs |-> MergesStep(f, p)]
  BY <1>2, <1>3 DEF MergesUpTo
<1>5. MergesFrom = CHOOSE h : h = [p \in Pairs |-> MergesStep(h, p)]
  BY DEF MergesFrom, Pairs, MergesStep, NextMergeOf, Chosen
<1>6. MergesFrom = [p \in Pairs |-> MergesStep(MergesFrom, p)]
  BY <1>4, <1>5
<1> QED
  BY <1>6

\* The merges from a pair in step are in step, and none of those that are in
\* step is beyond the last one.
EndOf(p, ms) == IF ms = <<>> THEN p ELSE ms[Len(ms)]
MergesAll(p, ms) ==
  /\ ms \in Seq(Pairs)
  /\ \A k \in 1 .. Len(ms) : InStepPair(ms[k]) /\ NotAfter(p, ms[k])
  /\ \A r \in Pairs : InStepPair(r) /\ NotAfter(p, r) => NotAfter(r, EndOf(p, ms))

LEMMA MergesAllNone ==
  ASSUME ZipperInv, NEW p, InStepPair(p), NextMergeOf(p) = {}
  PROVE  MergesAll(p, <<>>)
<1>1. \A r : InStepPair(r) /\ NotAfter(p, r) => r = p
  BY NextExists DEF NextMergeOf
<1>2. NotAfter(p, p)
  BY PairValues DEF NotAfter, InStepPair
<1>3. EndOf(p, <<>>) = p /\ <<>> \in Seq(Pairs) /\ Len(<<>>) = 0
  BY DEF EndOf
<1> QED
  BY <1>1, <1>2, <1>3 DEF MergesAll

LEMMA MergesAllNext ==
  ASSUME ZipperInv, NEW p, InStepPair(p), NEW q \in NextMergeOf(p), NEW ms, MergesAll(q, ms)
  PROVE  MergesAll(p, <<q>> \o ms)
<1>1. InStepPair(q) /\ q \in Pairs /\ p \in Pairs /\ NotAfter(p, q) /\ ms \in Seq(Pairs)
  BY NextInStep, NextIsFurther DEF NextMergeOf, InStepPair, MergesAll
<1> DEFINE ns == <<q>> \o ms
<1>2. /\ ns \in Seq(Pairs) /\ Len(ns) = Len(ms) + 1 /\ Len(ms) \in Nat /\ ns[1] = q
      /\ \A k \in 1 .. Len(ms) : ns[k + 1] = ms[k]
  BY <1>1
<1> HIDE DEF ns
<1>3. \A a, b, c \in Pairs : NotAfter(a, b) /\ NotAfter(b, c) => NotAfter(a, c)
  BY PairValues DEF NotAfter
<1>4. ASSUME NEW k \in 1 .. Len(ns) PROVE InStepPair(ns[k]) /\ NotAfter(p, ns[k])
  <2>1. CASE k = 1
    BY <1>1, <1>2, <2>1
  <2>2. CASE k # 1
    <3>1. k - 1 \in 1 .. Len(ms) /\ ns[k] = ms[k - 1]
      <4>1. k - 1 \in 1 .. Len(ms) /\ (k - 1) + 1 = k
        BY <1>2, <2>2
      <4> QED
        BY <1>2, <4>1
    <3>2. InStepPair(ms[k - 1]) /\ NotAfter(q, ms[k - 1])
      BY <3>1 DEF MergesAll
    <3> QED
      BY <1>1, <1>3, <3>1, <3>2 DEF InStepPair
  <2> QED
    BY <2>1, <2>2
<1>5. EndOf(p, ns) = EndOf(q, ms) /\ EndOf(q, ms) \in Pairs
  <2>1. ns # <<>>
    BY <1>2
  <2>2. CASE ms = <<>>
    BY <1>1, <1>2, <2>1, <2>2 DEF EndOf
  <2>3. CASE ms # <<>>
    <3>1. Len(ms) \in 1 .. Len(ms)
      BY <1>1, <2>3
    <3> QED
      BY <1>1, <1>2, <2>1, <2>3, <3>1 DEF EndOf
  <2> QED
    BY <2>2, <2>3
<1>6. ASSUME NEW r \in Pairs, InStepPair(r), NotAfter(p, r) PROVE NotAfter(r, EndOf(p, ns))
  <2>1. PICK s : InStepPair(s) /\ NotAfter(q, s) /\ NotAfter(r, s)
    BY <1>6, NextMissesNothing DEF NextMergeOf
  <2>2. NotAfter(s, EndOf(q, ms)) /\ s \in Pairs
    BY <2>1 DEF MergesAll, InStepPair
  <2> QED
    BY <1>3, <1>5, <1>6, <2>1, <2>2
<1>7. MergesAll(p, ns)
  BY <1>2, <1>4, <1>6 DEF MergesAll
<1> QED
  BY <1>7 DEF ns

LEMMA MergesAllFrom ==
  ASSUME ZipperInv, NEW p, InStepPair(p)
  PROVE  MergesAll(p, MergesFrom[p])
<1> DEFINE Bad == {n \in Nat : \E s \in Pairs : /\ InStepPair(s) /\ Within(n, s)
                                             /\ ~ MergesAll(s, MergesFrom[s])}
           n0 == Zipper!LeftEnd + Zipper!RightEnd
<1>1. n0 \in Nat /\ Within(n0, p) /\ p \in Pairs
  BY AllWithin DEF InStepPair
<1>2. SUFFICES ASSUME Bad # {} PROVE FALSE
  BY <1>1
<1>3. PICK m \in Bad : \A k \in Bad : m <= k
  <2>1. Bad \subseteq Nat
    OBVIOUS
  <2> HIDE DEF Bad
  <2> QED
    BY <1>2, <2>1, TrieP!SmallestNat
<1>4. PICK s \in Pairs : InStepPair(s) /\ Within(m, s) /\ ~ MergesAll(s, MergesFrom[s])
  OBVIOUS
<1>5. m # 0
  <2>1. s[1] <= Zipper!LeftEnd /\ s[2] <= Zipper!RightEnd /\ s[1] \in Nat /\ s[2] \in Nat
    BY PairValues
  <2> QED
    BY <1>4, <2>1, Ends DEF Within
<1>6. m \in Nat \ {0} /\ m - 1 \in Nat /\ ~ m <= m - 1
  BY <1>3, <1>5
<1>7. m - 1 \notin Bad
  BY <1>3, <1>6
<1>8. MergesFrom[s] = MergesStep(MergesFrom, s)
  BY MergesEquation
<1>9. CASE NextMergeOf(s) = {}
  BY <1>4, <1>8, <1>9, MergesAllNone DEF MergesStep
<1>10. CASE NextMergeOf(s) # {}
  <2>1. /\ Chosen(s) \in NextMergeOf(s) /\ Chosen(s) \in Pairs
        /\ Within(m - 1, Chosen(s))
    BY <1>4, <1>6, <1>10, ChosenIsFurther
  <2>2. InStepPair(Chosen(s))
    BY <1>4, <2>1, NextInStep DEF NextMergeOf
  <2>3. MergesAll(Chosen(s), MergesFrom[Chosen(s)])
    BY <1>6, <1>7, <2>1, <2>2
  <2> QED
    BY <1>4, <1>8, <1>10, <2>1, <2>3, MergesAllNext DEF MergesStep
<1> QED
  BY <1>9, <1>10

LEMMA NothingLeft ==
  ASSUME ZipperInv
  PROVE  Zipper!NothingLeftBehind
<1> DEFINE ms == MergesFrom[merged]
<1>1. Zipper!Merges = ms
  BY DEF Zipper!Merges, MergesFrom
<1>2. merged \in Pairs /\ InStepPair(merged)
  BY Ends DEF ZipperInv, InStepPair
<1>3. MergesAll(merged, ms)
  BY <1>2, MergesAllFrom
<1> HIDE DEF ms
<1>4. ASSUME NEW p, InStepPair(p), NotAfter(merged, p)
      PROVE  p \in Zipper!InStep
  <2>1. /\ p = <<p[1], p[2]>> /\ p[1] \in 1 .. Zipper!LeftEnd /\ p[2] \in 1 .. Zipper!RightEnd
    BY <1>4 DEF InStepPair, Pairs
  <2>2. p[1] \in merged[1] .. Zipper!LeftEnd /\ p[2] \in merged[2] .. Zipper!RightEnd
    BY <1>2, <1>4, <2>1, Ends, PairValues DEF NotAfter
  <2>3. p \in (merged[1] .. Zipper!LeftEnd) \X (merged[2] .. Zipper!RightEnd)
    BY <2>1, <2>2
  <2> QED
    BY <1>4, <2>3 DEF Zipper!InStep, InStepPair
<1>5. ASSUME NEW p \in Zipper!InStep
      PROVE  InStepPair(p) /\ p \in Pairs /\ NotAfter(merged, p)
  <2>1. /\ p = <<p[1], p[2]>> /\ left[p[1]] = right[p[2]]
        /\ p[1] \in merged[1] .. Zipper!LeftEnd /\ p[2] \in merged[2] .. Zipper!RightEnd
    BY DEF Zipper!InStep
  <2>2. /\ p[1] \in 1 .. Zipper!LeftEnd /\ p[2] \in 1 .. Zipper!RightEnd
        /\ merged[1] <= p[1] /\ merged[2] <= p[2]
    BY <1>2, <2>1, Ends, PairValues
  <2> QED
    BY <2>1, <2>2 DEF InStepPair, Pairs, NotAfter
<1>6. \A k \in DOMAIN ms : ms[k] \in Zipper!InStep
  BY <1>3, <1>4 DEF MergesAll
<1>7. (IF ms = <<>> THEN merged ELSE Zipper!Last(ms)) = EndOf(merged, ms)
  BY DEF EndOf, Zipper!Last
<1>8. \A p \in Zipper!InStep : NotAfter(p, EndOf(merged, ms))
  BY <1>3, <1>5 DEF MergesAll
<1> QED
  BY <1>1, <1>6, <1>7, <1>8 DEF Zipper!NothingLeftBehind, NotAfter

-----------------------------------------------------------------------------
(***************************************************************************)
(* The steps of the zippered merge.                                        *)
(***************************************************************************)
LEMMA BranchGrows ==
  ASSUME NEW s, Branches(s), s \in Seq(0 .. MaxBase), NEW b \in s[Len(s)] .. MaxBase
  PROVE  /\ Branches(Append(s, b)) /\ Append(s, b) \in Seq(0 .. MaxBase)
         /\ Len(Append(s, b)) = Len(s) + 1 /\ Len(s) \in Nat
         /\ \A a \in 1 .. Len(s) : Append(s, b)[a] = s[a]
<1>1. Len(s) \in Nat \ {0} /\ s \in Seq(Nat) /\ MaxBase \in Nat
  BY PartsAssumption DEF Branches, Zipper!ZipperAssumption
<1>2. s[Len(s)] \in Nat
  BY <1>1
<1>3. b \in Nat /\ b \in 0 .. MaxBase /\ s[Len(s)] <= b
  BY <1>1, <1>2
<1>4. /\ Append(s, b) \in Seq(0 .. MaxBase) /\ Append(s, b) \in Seq(Nat)
      /\ Len(Append(s, b)) = Len(s) + 1 /\ Append(s, b)[Len(s) + 1] = b
      /\ \A a \in 1 .. Len(s) : Append(s, b)[a] = s[a]
  BY <1>1, <1>3
<1>5. ASSUME NEW a \in 1 .. Len(s) + 1, NEW c \in 1 .. Len(s) + 1, a <= c
      PROVE  Append(s, b)[a] <= Append(s, b)[c]
  <2>1. CASE c \in 1 .. Len(s)
    <3>1. a \in 1 .. Len(s)
      BY <1>1, <1>5, <2>1
    <3> QED
      BY <1>4, <1>5, <2>1, <3>1 DEF Branches
  <2>2. CASE c = Len(s) + 1 /\ a \in 1 .. Len(s)
    <3>1. Len(s) \in 1 .. Len(s) /\ a <= Len(s)
      BY <1>1, <2>2
    <3>2. s[a] <= s[Len(s)] /\ s[a] \in Nat
      BY <1>1, <2>2, <3>1 DEF Branches
    <3> QED
      BY <1>2, <1>3, <1>4, <2>2, <3>2
  <2>3. CASE c = Len(s) + 1 /\ a = Len(s) + 1
    BY <1>3, <1>4, <2>3
  <2> QED
    BY <1>1, <2>1, <2>2, <2>3
<1>6. Append(s, b) # <<>>
  BY <1>1, <1>4
<1> QED
  BY <1>1, <1>4, <1>5, <1>6 DEF Branches

LEMMA ZipperInit == Zipper!Init => ZipperInv
<1> SUFFICES ASSUME Zipper!Init PROVE ZipperInv
  OBVIOUS
<1>1. MaxBase \in Nat
  BY PartsAssumption DEF Zipper!ZipperAssumption
<1>2. left = <<0>> /\ right = <<0>> /\ merged = <<1, 1>>
  BY DEF Zipper!Init
<1> QED
  BY <1>1, <1>2 DEF ZipperInv, Branches

LEMMA ZipperNextOK == ASSUME ZipperInv, [Zipper!Next]_(Zipper!vars) PROVE ZipperInv'
<1>1. CASE UNCHANGED Zipper!vars
  BY <1>1 DEF Zipper!vars, ZipperInv, Branches
<1>2. CASE Zipper!Merge
  <2>1. merged' \in Zipper!NextMerge(merged[1], merged[2]) /\ UNCHANGED <<left, right>>
    BY <1>2 DEF Zipper!Merge
  <2>2. InStepPair(merged)
    BY Ends DEF ZipperInv, InStepPair
  <2>3. InStepPair(merged')
    BY <2>1, <2>2, NextInStep
  <2>4. merged' \in (1 .. Len(left)) \X (1 .. Len(right))
    BY <2>3, Ends DEF InStepPair, Pairs
  <2> QED
    BY <2>1, <2>3, <2>4 DEF ZipperInv, Branches, InStepPair
<1>3. CASE Zipper!Commit
  <2>0. /\ Len(left) \in Nat /\ Len(right) \in Nat
        /\ merged[1] \in 1 .. Len(left) /\ merged[2] \in 1 .. Len(right)
        /\ merged = <<merged[1], merged[2]>> /\ merged' = merged
    BY <1>3 DEF ZipperInv, Branches, Zipper!Commit
  <2>1. CASE right' = right /\ \E b \in Zipper!Last(left) .. MaxBase : left' = Append(left, b)
    <3>1. PICK b \in left[Len(left)] .. MaxBase : left' = Append(left, b)
      BY <2>1 DEF Zipper!Last
    <3>2. /\ Branches(left') /\ left' \in Seq(0 .. MaxBase) /\ Len(left') = Len(left) + 1
          /\ \A a \in 1 .. Len(left) : left'[a] = left[a]
      BY <3>1, BranchGrows DEF ZipperInv
    <3>3. merged' \in (1 .. Len(left')) \X (1 .. Len(right'))
      BY <2>0, <2>1, <3>2
    <3> QED
      BY <2>0, <2>1, <3>2, <3>3 DEF ZipperInv, Branches
  <2>2. CASE left' = left /\ \E b \in Zipper!Last(right) .. MaxBase : right' = Append(right, b)
    <3>1. PICK b \in right[Len(right)] .. MaxBase : right' = Append(right, b)
      BY <2>2 DEF Zipper!Last
    <3>2. /\ Branches(right') /\ right' \in Seq(0 .. MaxBase) /\ Len(right') = Len(right) + 1
          /\ \A a \in 1 .. Len(right) : right'[a] = right[a]
      BY <3>1, BranchGrows DEF ZipperInv
    <3>3. merged' \in (1 .. Len(left')) \X (1 .. Len(right'))
      BY <2>0, <2>2, <3>2
    <3> QED
      BY <2>0, <2>2, <3>2, <3>3 DEF ZipperInv, Branches
  <2> QED
    BY <1>3, <2>1, <2>2 DEF Zipper!Commit
<1> QED
  BY <1>1, <1>2, <1>3 DEF Zipper!Next

-----------------------------------------------------------------------------
(***************************************************************************)
(* The list of directories.  The comparison of as many characters as the   *)
(* name that is looked up has is the lexicographic order of the names, so  *)
(* that the bisection finds the place of a name in a sorted list.          *)
(***************************************************************************)
\* m and n agree up to c, where m ends or has the smaller character.
LexAt(m, n, c) ==
  /\ c \in Nat /\ c <= Len(m) /\ c <= Len(n)
  /\ \A i \in 1 .. c : m[i] = n[i]
  /\ c = Len(m) \/ (c < Len(m) /\ c < Len(n) /\ m[c + 1] < n[c + 1])
Lex(m, n) == Dirs!AtMost(m, n, Len(m))

LEMMA DirNames == \A n \in DirName : n \in Seq(Nat) /\ Len(n) \in Nat \ {0}
BY PartsAssumption DEF Dirs!DirListAssumption

\* What the names have in common, and no more.
LEMMA CommonIs ==
  ASSUME NEW m \in Seq(Nat), NEW n \in Seq(Nat)
  PROVE  LET c == Dirs!Common(m, n, Len(m))
         IN  /\ c \in Nat /\ c <= Len(m) /\ c <= Len(n)
             /\ \A i \in 1 .. c : m[i] = n[i]
             /\ c < Len(m) /\ c < Len(n) => m[c + 1] # n[c + 1]
<1> DEFINE k == IF Len(m) <= Len(n) THEN Len(m) ELSE Len(n)
           S == {0} \cup {l \in 1 .. k : SubSeq(m, 1, l) = SubSeq(n, 1, l)}
<1>1. Len(m) \in Nat /\ Len(n) \in Nat /\ k \in Nat /\ k <= Len(m) /\ k <= Len(n)
  OBVIOUS
<1>2. Dirs!Min({Len(m), Len(m), Len(n)}) = k
  BY <1>1 DEF Dirs!Min
<1>3. Dirs!Common(m, n, Len(m)) = Dirs!Max(S)
  BY <1>2 DEF Dirs!Common
<1> HIDE DEF k
<1>4. S \subseteq 0 .. k /\ S # {}
  BY <1>1
<1>5. PICK c \in S : \A l \in S : c >= l
  <2> DEFINE T == {k - l : l \in S}
  <2>1. T \subseteq Nat /\ T # {}
    BY <1>1, <1>4
  <2>2. PICK t \in T : \A u \in T : t <= u
    <3> HIDE DEF T
    <3> QED
      BY <2>1, TrieP!SmallestNat
  <2>3. PICK c \in S : t = k - c
    BY <2>2
  <2>4. ASSUME NEW l \in S PROVE c >= l
    <3>1. k - c <= k - l /\ c \in 0 .. k /\ l \in 0 .. k
      BY <1>4, <2>2, <2>3
    <3> QED
      BY <1>1, <3>1
  <2> QED
    BY <2>3, <2>4
<1>6. Dirs!Max(S) \in S /\ \A l \in S : Dirs!Max(S) >= l
  <2> HIDE DEF S
  <2> QED
    BY <1>5 DEF Dirs!Max
<1> DEFINE e == Dirs!Max(S)
<1>7. e \in 0 .. k /\ (e # 0 => SubSeq(m, 1, e) = SubSeq(n, 1, e))
  <2>1. e \in S
    BY <1>6
  <2> HIDE DEF e
  <2> QED
    BY <1>1, <2>1
<1>8. \A l \in S : e >= l
  BY <1>6
<1> HIDE DEF e
<1>9. \A i \in 1 .. e : m[i] = n[i]
  <2> SUFFICES ASSUME NEW i \in 1 .. e PROVE m[i] = n[i]
    OBVIOUS
  <2>1. e # 0 /\ e \in Nat /\ e <= Len(m) /\ e <= Len(n)
    BY <1>1, <1>7
  <2>2. SubSeq(m, 1, e)[i] = m[i] /\ SubSeq(n, 1, e)[i] = n[i]
    BY <2>1
  <2> QED
    BY <1>7, <2>1, <2>2
<1>10. e < Len(m) /\ e < Len(n) => m[e + 1] # n[e + 1]
  <2> SUFFICES ASSUME e < Len(m), e < Len(n), m[e + 1] = n[e + 1] PROVE FALSE
    OBVIOUS
  <2>1. e \in Nat /\ e + 1 \in 1 .. k
    BY <1>1, <1>7 DEF k
  <2>2. e + 1 <= Len(m) /\ e + 1 <= Len(n) /\ e + 1 \in Nat
    BY <1>1, <2>1
  <2>3. \A i \in 1 .. e + 1 : m[i] = n[i]
    <3>1. \A i \in 1 .. e + 1 : i \in 1 .. e \/ i = e + 1
      BY <2>1
    <3> QED
      BY <1>9, <3>1
  <2>4. /\ SubSeq(m, 1, e + 1) = [i \in 1 .. e + 1 |-> m[i]]
        /\ SubSeq(n, 1, e + 1) = [i \in 1 .. e + 1 |-> n[i]]
    BY <1>1, <2>2
  <2>5. SubSeq(m, 1, e + 1) = SubSeq(n, 1, e + 1)
    BY <2>3, <2>4
  <2>6. e + 1 \in S
    BY <2>1, <2>5
  <2>7. e >= e + 1
    BY <1>8, <2>6
  <2> QED
    BY <2>1, <2>7
<1>11. e \in Nat /\ e <= Len(m) /\ e <= Len(n)
  BY <1>1, <1>7
<1> QED
  BY <1>3, <1>9, <1>10, <1>11 DEF e

LEMMA LexIs ==
  ASSUME NEW m \in Seq(Nat), NEW n \in Seq(Nat)
  PROVE  Lex(m, n) <=> \E c \in Nat : LexAt(m, n, c)
<1> DEFINE c == Dirs!Common(m, n, Len(m))
<1>1. /\ c \in Nat /\ c <= Len(m) /\ c <= Len(n)
      /\ \A i \in 1 .. c : m[i] = n[i]
      /\ c < Len(m) /\ c < Len(n) => m[c + 1] # n[c + 1]
  BY CommonIs
<1>2. Lex(m, n) <=> c = Len(m) \/ (c < Len(n) /\ m[c + 1] < n[c + 1])
  BY DEF Lex, Dirs!AtMost
<1> HIDE DEF c
<1>3. Len(m) \in Nat /\ Len(n) \in Nat
  OBVIOUS
<1>4. ASSUME Lex(m, n) PROVE LexAt(m, n, c)
  BY <1>1, <1>2, <1>3, <1>4 DEF LexAt
<1>5. ASSUME NEW d \in Nat, LexAt(m, n, d) PROVE Lex(m, n)
  <2>1. CASE d < c
    <3>1. d + 1 \in 1 .. c /\ d < Len(m) /\ m[d + 1] = n[d + 1]
      BY <1>1, <1>3, <2>1
    <3>2. m[d + 1] \in Nat
      BY <3>1
    <3> QED
      BY <1>3, <1>5, <3>1, <3>2 DEF LexAt
  <2>2. CASE c < d
    <3>1. c + 1 \in 1 .. d /\ c < Len(m) /\ c < Len(n)
      BY <1>1, <1>3, <1>5, <2>2 DEF LexAt
    <3> QED
      BY <1>1, <1>5, <3>1 DEF LexAt
  <2>3. CASE c = d
    BY <1>2, <1>5, <2>3 DEF LexAt
  <2> QED
    BY <1>1, <2>1, <2>2, <2>3
<1> QED
  BY <1>1, <1>4, <1>5

LEMMA LexReflexive == \A m \in Seq(Nat) : Lex(m, m)
<1> SUFFICES ASSUME NEW m \in Seq(Nat) PROVE Lex(m, m)
  OBVIOUS
<1>1. LexAt(m, m, Len(m)) /\ Len(m) \in Nat
  BY DEF LexAt
<1> QED
  BY <1>1, LexIs

LEMMA LexTotal ==
  ASSUME NEW m \in Seq(Nat), NEW n \in Seq(Nat), ~ Lex(m, n)
  PROVE  Lex(n, m)
<1> DEFINE c == Dirs!Common(m, n, Len(m))
<1>1. /\ c \in Nat /\ c <= Len(m) /\ c <= Len(n)
      /\ \A i \in 1 .. c : m[i] = n[i]
      /\ c < Len(m) /\ c < Len(n) => m[c + 1] # n[c + 1]
  BY CommonIs
<1> HIDE DEF c
<1>2. c # Len(m) /\ ~ (c < Len(m) /\ c < Len(n) /\ m[c + 1] < n[c + 1])
  BY <1>1, LexIs DEF LexAt
<1>3. CASE c = Len(n)
  <2>1. LexAt(n, m, c)
    BY <1>1, <1>3 DEF LexAt
  <2> QED
    BY <1>1, <2>1, LexIs
<1>4. CASE c # Len(n)
  <2>1. c < Len(m) /\ c < Len(n) /\ c + 1 \in 1 .. Len(m) /\ c + 1 \in 1 .. Len(n)
    BY <1>1, <1>2, <1>4
  <2>2. m[c + 1] \in Nat /\ n[c + 1] \in Nat
    BY <2>1
  <2>3. n[c + 1] < m[c + 1]
    BY <1>1, <1>2, <2>1, <2>2, SMTT(30)
  <2>4. LexAt(n, m, c)
    BY <1>1, <2>1, <2>3 DEF LexAt
  <2> QED
    BY <1>1, <2>4, LexIs
<1> QED
  BY <1>3, <1>4

LEMMA LexAntisymmetric ==
  ASSUME NEW m \in Seq(Nat), NEW n \in Seq(Nat), Lex(m, n), Lex(n, m)
  PROVE  m = n
<1>1. PICK c \in Nat : LexAt(m, n, c)
  BY LexIs
<1>2. PICK d \in Nat : LexAt(n, m, d)
  BY LexIs
<1>3. Len(m) \in Nat /\ Len(n) \in Nat
  OBVIOUS
<1>4. \A i \in 1 .. Len(m) : m[i] \in Nat
  OBVIOUS
<1>5. \A i \in 1 .. Len(n) : n[i] \in Nat
  OBVIOUS
<1>6. ~ c < d
  <2> SUFFICES ASSUME c < d PROVE FALSE
    OBVIOUS
  <2>1. c + 1 \in 1 .. d /\ d <= Len(m) /\ d <= Len(n) /\ c # Len(m)
    BY <1>2, <1>3 DEF LexAt
  <2>2. m[c + 1] = n[c + 1] /\ m[c + 1] < n[c + 1] /\ c + 1 \in 1 .. Len(m)
    BY <1>1, <1>2, <1>3, <2>1 DEF LexAt
  <2> QED
    BY <1>4, <2>2
<1>7. ~ d < c
  <2> SUFFICES ASSUME d < c PROVE FALSE
    OBVIOUS
  <2>1. d + 1 \in 1 .. c /\ c <= Len(m) /\ c <= Len(n) /\ d # Len(n)
    BY <1>1, <1>3 DEF LexAt
  <2>2. m[d + 1] = n[d + 1] /\ n[d + 1] < m[d + 1] /\ d + 1 \in 1 .. Len(n)
    BY <1>1, <1>2, <1>3, <2>1 DEF LexAt
  <2> QED
    BY <1>5, <2>2
<1>8. c = d
  BY <1>6, <1>7
<1>9. c = Len(m) /\ c = Len(n)
  <2>1. CASE c < Len(m) /\ c < Len(n) /\ m[c + 1] < n[c + 1]
    <3>1. d < Len(n) /\ n[c + 1] < m[c + 1]
      BY <1>2, <1>8, <2>1 DEF LexAt
    <3>2. c + 1 \in 1 .. Len(m) /\ c + 1 \in 1 .. Len(n)
      BY <1>3, <2>1
    <3> QED
      BY <1>4, <1>5, <2>1, <3>1, <3>2
  <2>2. CASE c = Len(m)
    BY <1>2, <1>3, <1>8, <2>2 DEF LexAt
  <2> QED
    BY <1>1, <2>1, <2>2 DEF LexAt
<1>10. \A i \in 1 .. Len(m) : m[i] = n[i]
  BY <1>1, <1>9 DEF LexAt
<1>11. m = [i \in 1 .. Len(m) |-> m[i]] /\ n = [i \in 1 .. Len(n) |-> n[i]]
  OBVIOUS
<1>12. [i \in 1 .. Len(m) |-> m[i]] = [i \in 1 .. Len(n) |-> n[i]]
  BY <1>9, <1>10
<1> QED
  BY <1>11, <1>12

LEMMA LexTransitive ==
  ASSUME NEW m \in Seq(Nat), NEW n \in Seq(Nat), NEW k \in Seq(Nat), Lex(m, n), Lex(n, k)
  PROVE  Lex(m, k)
<1>1. PICK c \in Nat : LexAt(m, n, c)
  BY LexIs
<1>2. PICK d \in Nat : LexAt(n, k, d)
  BY LexIs
<1>3. Len(m) \in Nat /\ Len(n) \in Nat /\ Len(k) \in Nat
  OBVIOUS
<1>4. /\ \A i \in 1 .. Len(m) : m[i] \in Nat
      /\ \A i \in 1 .. Len(n) : n[i] \in Nat
      /\ \A i \in 1 .. Len(k) : k[i] \in Nat
  OBVIOUS
<1>5. CASE c < d
  <2>1. c <= Len(k) /\ c < Len(k) /\ c + 1 \in 1 .. d /\ \A i \in 1 .. c : m[i] = k[i]
    BY <1>1, <1>2, <1>3, <1>5 DEF LexAt
  <2>2. c < Len(m) /\ c < Len(n) /\ m[c + 1] < n[c + 1] => m[c + 1] < k[c + 1]
    BY <1>2, <2>1 DEF LexAt
  <2>3. LexAt(m, k, c)
    BY <1>1, <2>1, <2>2 DEF LexAt
  <2> QED
    BY <2>3, LexIs
<1>6. CASE d < c
  <2>1. /\ d < Len(m) /\ d < Len(n) /\ d < Len(k) /\ d + 1 \in 1 .. c
        /\ n[d + 1] < k[d + 1] /\ \A i \in 1 .. d : m[i] = k[i]
    BY <1>1, <1>2, <1>3, <1>6, SMTT(30) DEF LexAt
  <2>2. m[d + 1] < k[d + 1]
    BY <1>1, <2>1 DEF LexAt
  <2>3. LexAt(m, k, d)
    BY <1>3, <2>1, <2>2, SMTT(30) DEF LexAt
  <2> QED
    BY <2>3, LexIs
<1>7. CASE c = d
  <2>1. c <= Len(m) /\ c <= Len(k) /\ \A i \in 1 .. c : m[i] = k[i]
    BY <1>1, <1>2, <1>7 DEF LexAt
  <2>2. CASE c = Len(m)
    <3>1. LexAt(m, k, c)
      BY <2>1, <2>2 DEF LexAt
    <3> QED
      BY <3>1, LexIs
  <2>3. CASE c < Len(m) /\ c < Len(n) /\ m[c + 1] < n[c + 1]
    <3>1. c < Len(k) /\ n[c + 1] < k[c + 1]
      BY <1>2, <1>7, <2>3 DEF LexAt
    <3>2. c + 1 \in 1 .. Len(m) /\ c + 1 \in 1 .. Len(n) /\ c + 1 \in 1 .. Len(k)
      BY <1>3, <2>3, <3>1, SMTT(30)
    <3>3. m[c + 1] < k[c + 1]
      BY <1>4, <2>3, <3>1, <3>2, SMTT(30)
    <3>4. LexAt(m, k, c)
      BY <2>1, <2>3, <3>1, <3>3 DEF LexAt
    <3> QED
      BY <3>4, LexIs
  <2> QED
    BY <1>1, <2>2, <2>3 DEF LexAt
<1> QED
  BY <1>5, <1>6, <1>7

-----------------------------------------------------------------------------
(***************************************************************************)
(* The bisection: its recursive function exists, and finds the place of a  *)
(* name.                                                                   *)
(***************************************************************************)
Sorted ==
  /\ list \in Seq(DirName)
  /\ \A a, b \in 1 .. Len(list) : a < b => Lex(list[a], list[b]) /\ list[a] # list[b]

Ranges == (0 .. Len(list)) \X (0 .. Len(list))
Middle(r) == r[1] + (r[2] - r[1]) \div 2
FindStep(f, n, r) ==
  IF r[1] >= r[2] THEN r[1]
  ELSE IF Lex(n, list[Middle(r) + 1]) THEN f[<<r[1], Middle(r)>>]
  ELSE f[<<Middle(r) + 1, r[2]>>]

Shorter(k, r) == r[2] < k + r[1]
FindUpTo(f, n, k) ==
  /\ f \in [Ranges -> Nat]
  /\ \A r \in Ranges : Shorter(k, r) => f[r] = FindStep(f, n, r)

Finder(n) ==
  CHOOSE f : f = [range \in (0 .. Len(list)) \X (0 .. Len(list)) |->
                    LET first == range[1]
                        last == range[2]
                        mid == first + (last - first) \div 2
                    IN  IF first >= last THEN first
                        ELSE IF Dirs!AtMost(n, list[mid + 1], Len(n)) THEN f[<<first, mid>>]
                        ELSE f[<<mid + 1, last>>]]

LEMMA RangeIs ==
  ASSUME Len(list) \in Nat
  PROVE  \A r \in Ranges : /\ r = <<r[1], r[2]>> /\ r[1] \in Nat /\ r[2] \in Nat
                           /\ r[1] <= Len(list) /\ r[2] <= Len(list)
                           /\ r[1] < r[2] <=> ~ r[1] >= r[2]
<1> SUFFICES ASSUME NEW r \in Ranges
             PROVE  /\ r = <<r[1], r[2]>> /\ r[1] \in Nat /\ r[2] \in Nat
                    /\ r[1] <= Len(list) /\ r[2] <= Len(list)
                    /\ r[1] < r[2] <=> ~ r[1] >= r[2]
  OBVIOUS
<1>1. r = <<r[1], r[2]>> /\ r[1] \in 0 .. Len(list) /\ r[2] \in 0 .. Len(list)
  BY DEF Ranges
<1> QED
  BY <1>1

LEMMA MiddleIs ==
  ASSUME Len(list) \in Nat, NEW r \in Ranges, r[1] < r[2]
  PROVE  /\ Middle(r) \in Nat /\ Middle(r) >= r[1] /\ Middle(r) < r[2]
         /\ <<r[1], Middle(r)>> \in Ranges /\ <<Middle(r) + 1, r[2]>> \in Ranges
         /\ \A k \in Nat \ {0} :
              Shorter(k, r) => /\ Shorter(k - 1, <<r[1], Middle(r)>>)
                               /\ Shorter(k - 1, <<Middle(r) + 1, r[2]>>)
<1>1. r = <<r[1], r[2]>> /\ r[1] \in 0 .. Len(list) /\ r[2] \in 0 .. Len(list)
  BY DEF Ranges
<1>2. Middle(r) \in Nat /\ Middle(r) >= r[1] /\ Middle(r) < r[2]
  <2>1. \A a, b \in Nat : a < b => /\ a + (b - a) \div 2 \in Nat
                                   /\ a + (b - a) \div 2 >= a /\ a + (b - a) \div 2 < b
    OBVIOUS
  <2> QED
    BY <1>1, <2>1 DEF Middle
<1>3. <<r[1], Middle(r)>> \in Ranges /\ <<Middle(r) + 1, r[2]>> \in Ranges
  <2>1. Middle(r) \in 0 .. Len(list) /\ Middle(r) + 1 \in 0 .. Len(list)
    BY <1>1, <1>2
  <2> QED
    BY <1>1, <2>1 DEF Ranges
<1>4. ASSUME NEW k \in Nat \ {0}, Shorter(k, r)
      PROVE  /\ Shorter(k - 1, <<r[1], Middle(r)>>)
             /\ Shorter(k - 1, <<Middle(r) + 1, r[2]>>)
  <2>1. \A a, b, m \in Nat : a <= m /\ m < b /\ b < k + a
          => m < (k - 1) + a /\ b < (k - 1) + (m + 1)
    OBVIOUS
  <2>2. r[1] \in Nat /\ r[2] \in Nat
    BY <1>1
  <2> QED
    BY <1>2, <1>4, <2>1, <2>2 DEF Shorter
<1> QED
  BY <1>1, <1>2, <1>3, <1>4

LEMMA FindUpToAny ==
  ASSUME Len(list) \in Nat, NEW n, NEW k \in Nat
  PROVE  \E f : FindUpTo(f, n, k)
<1> DEFINE Bad == {m \in Nat : ~ \E f : FindUpTo(f, n, m)}
<1>1. SUFFICES ASSUME Bad # {} PROVE FALSE
  OBVIOUS
<1>2. PICK m \in Bad : \A l \in Bad : m <= l
  <2>1. Bad \subseteq Nat
    OBVIOUS
  <2> HIDE DEF Bad
  <2> QED
    BY <1>1, <2>1, TrieP!SmallestNat
<1>3. CASE m = 0
  <2> DEFINE g == [r \in Ranges |-> r[1]]
  <2>1. g \in [Ranges -> Nat]
    BY RangeIs
  <2>2. ASSUME NEW r \in Ranges, Shorter(0, r) PROVE g[r] = FindStep(g, n, r)
    <3>1. r[1] >= r[2]
      BY <2>2, RangeIs DEF Shorter
    <3> QED
      BY <3>1 DEF FindStep
  <2>3. FindUpTo(g, n, 0)
    <3> HIDE DEF g
    <3> QED
      BY <2>1, <2>2 DEF FindUpTo
  <2> QED
    BY <1>2, <1>3, <2>3
<1>4. CASE m # 0
  <2>1. m - 1 \in Nat /\ ~ m <= m - 1 /\ m \in Nat \ {0}
    BY <1>2, <1>4
  <2>2. m - 1 \notin Bad
    BY <1>2, <2>1
  <2>3. PICK f : FindUpTo(f, n, m - 1)
    BY <2>1, <2>2
  <2> DEFINE g == [r \in Ranges |-> IF Shorter(m - 1, r) THEN f[r] ELSE FindStep(f, n, r)]
  <2>4. g \in [Ranges -> Nat]
    <3>1. ASSUME NEW r \in Ranges PROVE FindStep(f, n, r) \in Nat /\ f[r] \in Nat
      <4>1. r[1] \in Nat
        BY RangeIs
      <4>2. r[1] < r[2] => f[<<r[1], Middle(r)>>] \in Nat /\ f[<<Middle(r) + 1, r[2]>>] \in Nat
        BY <2>3, MiddleIs DEF FindUpTo
      <4>3. r[1] >= r[2] \/ r[1] < r[2]
        BY RangeIs
      <4> QED
        BY <2>3, <4>1, <4>2, <4>3 DEF FindStep, FindUpTo
    <3> QED
      BY <3>1
  <2>5. ASSUME NEW r \in Ranges, Shorter(m, r) PROVE g[r] = FindStep(g, n, r)
    <3>1. g[r] = FindStep(f, n, r)
      BY <2>3 DEF FindUpTo
    <3>2. FindStep(g, n, r) = FindStep(f, n, r)
      <4>1. CASE r[1] >= r[2]
        BY <4>1 DEF FindStep
      <4>2. CASE r[1] < r[2]
        <5>1. /\ <<r[1], Middle(r)>> \in Ranges /\ <<Middle(r) + 1, r[2]>> \in Ranges
              /\ Shorter(m - 1, <<r[1], Middle(r)>>) /\ Shorter(m - 1, <<Middle(r) + 1, r[2]>>)
          BY <2>1, <2>5, <4>2, MiddleIs
        <5>2. /\ g[<<r[1], Middle(r)>>] = f[<<r[1], Middle(r)>>]
              /\ g[<<Middle(r) + 1, r[2]>>] = f[<<Middle(r) + 1, r[2]>>]
          BY <5>1
        <5> HIDE DEF g
        <5> QED
          BY <5>2 DEF FindStep
      <4> QED
        BY <4>1, <4>2, RangeIs
    <3> QED
      BY <3>1, <3>2
  <2>6. FindUpTo(g, n, m)
    <3> HIDE DEF g
    <3> QED
      BY <2>4, <2>5 DEF FindUpTo
  <2> QED
    BY <1>2, <2>6
<1> QED
  BY <1>3, <1>4

LEMMA FinderEquation ==
  ASSUME Len(list) \in Nat, NEW n
  PROVE  \A r \in Ranges : Finder(n)[r] = FindStep(Finder(n), n, r)
<1>1. \A r \in Ranges : Shorter(Len(list) + 1, r)
  <2>1. \A k, a, b \in Nat : b <= k => b < (k + 1) + a
    OBVIOUS
  <2>2. \A r \in Ranges : r[1] \in Nat /\ r[2] \in Nat /\ r[2] <= Len(list)
    BY RangeIs
  <2> QED
    BY <2>1, <2>2 DEF Shorter
<1>2. PICK f : FindUpTo(f, n, Len(list) + 1)
  <2>1. Len(list) + 1 \in Nat
    OBVIOUS
  <2> QED
    BY <2>1, FindUpToAny
<1>3. f = [r \in Ranges |-> FindStep(f, n, r)]
  BY <1>1, <1>2 DEF FindUpTo
<1>4. Finder(n) = CHOOSE h : h = [r \in Ranges |-> FindStep(h, n, r)]
  BY DEF Finder, Ranges, FindStep, Lex, Middle
<1>5. Finder(n) = [r \in Ranges |-> FindStep(Finder(n), n, r)]
  BY <1>3, <1>4
<1> QED
  BY <1>5

\* The names up to place p are before n, and those behind it are not.
PlaceOf(n, p) ==
  /\ p \in 0 .. Len(list)
  /\ \A a \in 1 .. p : ~ Lex(n, list[a])
  /\ \A a \in p + 1 .. Len(list) : Lex(n, list[a])
\* The place of n is in the range r.
PlaceIn(n, r) ==
  /\ r \in Ranges /\ r[1] <= r[2]
  /\ \A a \in 1 .. r[1] : ~ Lex(n, list[a])
  /\ \A a \in r[2] + 1 .. Len(list) : Lex(n, list[a])

LEMMA HalvesHaveIt ==
  ASSUME Sorted, NEW n \in DirName, NEW r, PlaceIn(n, r), r[1] < r[2]
  PROVE  IF Lex(n, list[Middle(r) + 1]) THEN PlaceIn(n, <<r[1], Middle(r)>>)
         ELSE PlaceIn(n, <<Middle(r) + 1, r[2]>>)
<1> DEFINE m == Middle(r)
<1>1. /\ Len(list) \in Nat /\ r \in Ranges
      /\ \A a \in 1 .. Len(list) : list[a] \in Seq(Nat)
      /\ n \in Seq(Nat)
  BY DirNames DEF Sorted, PlaceIn
<1>2. /\ m \in Nat /\ m >= r[1] /\ m < r[2] /\ m + 1 \in 1 .. Len(list)
      /\ <<r[1], m>> \in Ranges /\ <<m + 1, r[2]>> \in Ranges
      /\ r[1] \in Nat /\ r[2] \in Nat /\ r[2] <= Len(list)
  <2>1. r[1] \in Nat /\ r[2] \in Nat /\ r[2] <= Len(list)
    BY <1>1, RangeIs
  <2>2. /\ m \in Nat /\ m >= r[1] /\ m < r[2]
        /\ <<r[1], m>> \in Ranges /\ <<m + 1, r[2]>> \in Ranges
    BY <1>1, MiddleIs
  <2> HIDE DEF m
  <2> QED
    BY <1>1, <2>1, <2>2
<1> HIDE DEF m
<1>3. ASSUME Lex(n, list[m + 1]), NEW a \in m + 1 .. Len(list)
      PROVE  Lex(n, list[a])
  <2>1. a \in 1 .. Len(list) /\ (a = m + 1 \/ m + 1 < a)
    BY <1>1, <1>2
  <2>2. m + 1 < a => Lex(list[m + 1], list[a])
    BY <1>2, <2>1 DEF Sorted
  <2> QED
    BY <1>1, <1>2, <1>3, <2>1, <2>2, LexTransitive
<1>4. ASSUME ~ Lex(n, list[m + 1]), NEW a \in 1 .. m + 1
      PROVE  ~ Lex(n, list[a])
  <2>1. a \in 1 .. Len(list) /\ (a = m + 1 \/ a < m + 1)
    BY <1>1, <1>2
  <2>2. a < m + 1 => Lex(list[a], list[m + 1])
    BY <1>2, <2>1 DEF Sorted
  <2> QED
    BY <1>1, <1>2, <1>4, <2>1, <2>2, LexTransitive
<1>5. CASE Lex(n, list[m + 1])
  <2>1. PlaceIn(n, <<r[1], m>>)
    BY <1>2, <1>3, <1>5 DEF PlaceIn
  <2> QED
    BY <1>5, <2>1 DEF m
<1>6. CASE ~ Lex(n, list[m + 1])
  <2>1. PlaceIn(n, <<m + 1, r[2]>>)
    BY <1>2, <1>4, <1>6 DEF PlaceIn
  <2> QED
    BY <1>6, <2>1 DEF m
<1> QED
  BY <1>5, <1>6

LEMMA PositionIs ==
  ASSUME Sorted, NEW n \in DirName
  PROVE  PlaceOf(n, Dirs!Position(n))
<1> DEFINE Bad == {k \in Nat : \E r \in Ranges : /\ PlaceIn(n, r) /\ Shorter(k, r)
                                                 /\ ~ PlaceOf(n, Finder(n)[r])}
           all == <<0, Len(list)>>
<1>1. Len(list) \in Nat
  BY DEF Sorted
<1>2. Dirs!Position(n) = Finder(n)[all]
  BY DEF Dirs!Position, Finder
<1>3. all \in Ranges /\ PlaceIn(n, all) /\ Shorter(Len(list) + 1, all) /\ Len(list) + 1 \in Nat
  BY <1>1 DEF Ranges, PlaceIn, Shorter
<1>4. SUFFICES ASSUME Bad # {} PROVE FALSE
  BY <1>2, <1>3
<1>5. PICK k \in Bad : \A l \in Bad : k <= l
  <2>1. Bad \subseteq Nat
    OBVIOUS
  <2> HIDE DEF Bad
  <2> QED
    BY <1>4, <2>1, TrieP!SmallestNat
<1>6. PICK r \in Ranges : PlaceIn(n, r) /\ Shorter(k, r) /\ ~ PlaceOf(n, Finder(n)[r])
  OBVIOUS
<1>7. Finder(n)[r] = FindStep(Finder(n), n, r)
  BY <1>1, FinderEquation
<1>8. CASE r[1] >= r[2]
  <2>1. r[1] = r[2] /\ Finder(n)[r] = r[1]
    BY <1>1, <1>6, <1>7, <1>8, RangeIs DEF PlaceIn, FindStep
  <2> QED
    BY <1>1, <1>6, <2>1, RangeIs DEF PlaceIn, PlaceOf
<1>9. CASE r[1] < r[2]
  <2>1. k # 0
    BY <1>1, <1>6, <1>9, RangeIs DEF Shorter
  <2>2. k \in Nat \ {0} /\ k - 1 \in Nat /\ ~ k <= k - 1
    BY <1>5, <2>1
  <2>3. k - 1 \notin Bad
    BY <1>5, <2>2
  <2>4. /\ <<r[1], Middle(r)>> \in Ranges /\ <<Middle(r) + 1, r[2]>> \in Ranges
        /\ Shorter(k - 1, <<r[1], Middle(r)>>) /\ Shorter(k - 1, <<Middle(r) + 1, r[2]>>)
    BY <1>1, <1>6, <1>9, <2>2, MiddleIs
  <2>5. ~ r[1] >= r[2]
    BY <1>1, <1>9, RangeIs
  <2>6. CASE Lex(n, list[Middle(r) + 1])
    <3>1. PlaceIn(n, <<r[1], Middle(r)>>)
      BY <1>6, <1>9, <2>6, HalvesHaveIt
    <3> QED
      BY <1>6, <1>7, <2>2, <2>3, <2>4, <2>5, <2>6, <3>1 DEF FindStep
  <2>7. CASE ~ Lex(n, list[Middle(r) + 1])
    <3>1. PlaceIn(n, <<Middle(r) + 1, r[2]>>)
      BY <1>6, <1>9, <2>7, HalvesHaveIt
    <3> QED
      BY <1>6, <1>7, <2>2, <2>3, <2>4, <2>5, <2>7, <3>1 DEF FindStep
  <2> QED
    BY <2>6, <2>7
<1> QED
  BY <1>1, <1>8, <1>9, RangeIs

\* A name is found if it is in the list.
LEMMA FoundIs ==
  ASSUME Sorted, NEW n \in DirName
  PROVE  Dirs!Found(n) <=> \E a \in 1 .. Len(list) : list[a] = n
<1> DEFINE p == Dirs!Position(n)
<1>1. PlaceOf(n, p) /\ Len(list) \in Nat /\ p \in 0 .. Len(list)
  BY PositionIs DEF Sorted, PlaceOf
<1>2. Dirs!Found(n) <=> p < Len(list) /\ list[p + 1] = n
  BY DEF Dirs!Found
<1> HIDE DEF p
<1>3. ASSUME NEW a \in 1 .. Len(list), list[a] = n PROVE p < Len(list) /\ list[p + 1] = n
  <2>1. n \in Seq(Nat) /\ \A b \in 1 .. Len(list) : list[b] \in Seq(Nat)
    BY DirNames DEF Sorted
  <2>2. Lex(n, list[a])
    BY <1>3, <2>1, LexReflexive
  <2>3. a \notin 1 .. p
    BY <1>1, <2>2 DEF PlaceOf
  <2>4. p < Len(list) /\ p + 1 \in 1 .. Len(list) /\ (a = p + 1 \/ p + 1 < a)
    BY <1>1, <2>3
  <2>5. Lex(n, list[p + 1])
    BY <1>1, <2>4 DEF PlaceOf
  <2>6. p + 1 < a => Lex(list[p + 1], n)
    BY <1>3, <2>4 DEF Sorted
  <2> QED
    BY <1>3, <2>1, <2>4, <2>5, <2>6, LexAntisymmetric
<1>4. p < Len(list) => p + 1 \in 1 .. Len(list)
  BY <1>1
<1> QED
  BY <1>2, <1>3, <1>4

-----------------------------------------------------------------------------
(***************************************************************************)
(* The masks.                                                              *)
(***************************************************************************)
Places == 1 .. Len(list)

\* The masks say of every place what was declared of the name there.
MasksSound ==
  /\ tracked \cup repeated \cup active \subseteq {a - 1 : a \in Places}
  /\ \A a \in Places :
       /\ a - 1 \in tracked <=> declared[list[a]] # "declared"
       /\ a - 1 \in repeated <=> declared[list[a]] = "repeated"
       /\ declared[list[a]] = "tracked with head" => a - 1 \in active
  /\ active \subseteq tracked

DirsInv ==
  /\ Sorted /\ Len(list) <= MaxSize
  /\ declared \in [{list[a] : a \in Places} -> Dirs!Kinds]
  /\ stable \in BOOLEAN
  /\ MasksSound

\* What adding a directory at place d + 1 does to a mask, but for its own bit.
Moved(mask, d) == IF d = Len(list) THEN mask ELSE Dirs!MaskInsert(mask, d)

LEMMA MovedIs ==
  ASSUME Len(list) \in Nat, Len(list) < MaxSize, NEW mask, NEW d \in 0 .. Len(list),
         mask \subseteq {a - 1 : a \in Places}
  PROVE  /\ \A a \in 1 .. d : a - 1 \in Moved(mask, d) <=> a - 1 \in mask
         /\ d \notin Moved(mask, d)
         /\ \A a \in d + 1 .. Len(list) : a \in Moved(mask, d) <=> a - 1 \in mask
         /\ Moved(mask, d) \subseteq {a - 1 : a \in 1 .. Len(list) + 1}
<1>1. MaxSize \in Nat /\ \A i \in mask : i \in Nat /\ i < Len(list)
  BY PartsAssumption DEF Dirs!DirListAssumption, Places
<1>2. CASE d = Len(list)
  <2>1. Moved(mask, d) = mask
    BY <1>2 DEF Moved
  <2>2. \A i \in mask : i = (i + 1) - 1 /\ i + 1 \in 1 .. Len(list) + 1
    BY <1>1
  <2> QED
    BY <1>1, <1>2, <2>1, <2>2
<1>3. CASE d # Len(list)
  <2>1. Moved(mask, d) = ({i \in mask : i < d} \cup {i + 1 : i \in {j \in mask : j >= d}})
                           \cap 0 .. MaxSize - 1
    BY <1>3 DEF Moved, Dirs!MaskInsert
  <2> DEFINE M == {i \in mask : i < d} \cup {i + 1 : i \in {j \in mask : j >= d}}
  <2>2. \A i \in M : i \in Nat /\ i <= Len(list) /\ i # d
    BY <1>1
  <2>3. Moved(mask, d) = M
    BY <1>1, <2>1, <2>2
  <2>4. ASSUME NEW a \in 1 .. d PROVE a - 1 \in M <=> a - 1 \in mask
    <3>1. a - 1 \in Nat /\ a - 1 < d
      OBVIOUS
    <3>2. \A i \in mask : i >= d => i + 1 # a - 1
      BY <1>1, <3>1
    <3> QED
      BY <3>1, <3>2
  <2>5. ASSUME NEW a \in d + 1 .. Len(list) PROVE a \in M <=> a - 1 \in mask
    <3>1. a \in Nat /\ a - 1 \in Nat /\ a - 1 >= d /\ ~ a < d /\ (a - 1) + 1 = a
      OBVIOUS
    <3>2. \A i \in mask : i + 1 = a => i = a - 1
      BY <1>1, <3>1
    <3> QED
      BY <3>1, <3>2
  <2>6. \A i \in M : i = (i + 1) - 1 /\ i + 1 \in 1 .. Len(list) + 1
    BY <1>1, <2>2
  <2> HIDE DEF M
  <2> QED
    BY <2>2, <2>3, <2>4, <2>5, <2>6
<1> QED
  BY <1>2, <1>3

OfMask(new, mask, is, d) ==
  /\ \A a \in 1 .. d : a - 1 \in new <=> a - 1 \in mask
  /\ d \in new <=> is
  /\ \A a \in d + 1 .. Len(list) : a \in new <=> a - 1 \in mask
  /\ new \subseteq {a - 1 : a \in 1 .. Len(list) + 1}

LEMMA WithIs ==
  ASSUME Len(list) \in Nat, Len(list) < MaxSize, NEW d \in 0 .. Len(list)
  PROVE  \A mask, new : \A is \in BOOLEAN :
           mask \subseteq {a - 1 : a \in Places} /\ new = Dirs!With(Moved(mask, d), is, d)
             => OfMask(new, mask, is, d)
<1> SUFFICES ASSUME NEW mask, mask \subseteq {a - 1 : a \in Places}, NEW is \in BOOLEAN,
                    NEW new, new = Dirs!With(Moved(mask, d), is, d)
             PROVE  OfMask(new, mask, is, d)
  OBVIOUS
<1>1. new = IF is THEN Moved(mask, d) \cup {d} ELSE Moved(mask, d)
  BY DEF Dirs!With
<1>2. /\ \A a \in 1 .. d : a - 1 \in Moved(mask, d) <=> a - 1 \in mask
      /\ d \notin Moved(mask, d)
      /\ \A a \in d + 1 .. Len(list) : a \in Moved(mask, d) <=> a - 1 \in mask
      /\ Moved(mask, d) \subseteq {a - 1 : a \in 1 .. Len(list) + 1}
  BY MovedIs
<1>3. /\ \A a \in 1 .. d : a - 1 # d
      /\ \A a \in d + 1 .. Len(list) : a # d
      /\ d = (d + 1) - 1 /\ d + 1 \in 1 .. Len(list) + 1
  OBVIOUS
<1> QED
  BY <1>1, <1>2, <1>3 DEF OfMask

LEMMA InsertedIs ==
  ASSUME list \in Seq(DirName), NEW n \in DirName, NEW d \in 0 .. Len(list)
  PROVE  /\ Dirs!InsertAt(list, d + 1, n) \in Seq(DirName)
         /\ Len(Dirs!InsertAt(list, d + 1, n)) = Len(list) + 1
         /\ \A a \in 1 .. d : Dirs!InsertAt(list, d + 1, n)[a] = list[a]
         /\ Dirs!InsertAt(list, d + 1, n)[d + 1] = n
         /\ \A a \in d + 1 .. Len(list) : Dirs!InsertAt(list, d + 1, n)[a + 1] = list[a]
<1> DEFINE s == SubSeq(list, 1, d)
           t == SubSeq(list, d + 1, Len(list))
<1>1. Len(list) \in Nat /\ d \in Nat /\ d <= Len(list)
  OBVIOUS
<1>2. s \in Seq(DirName) /\ Len(s) = d /\ \A a \in 1 .. d : s[a] = list[a]
  BY <1>1
<1>3. /\ t \in Seq(DirName) /\ Len(t) = Len(list) - d
      /\ \A a \in 1 .. Len(list) - d : t[a] = list[a + d]
  <2>1. \A a \in 1 .. Len(list) - d : t[a] = list[(d + 1) + a - 1] /\ (d + 1) + a - 1 = a + d
    BY <1>1
  <2>2. Len(t) = Len(list) - d /\ t \in Seq(DirName)
    BY <1>1
  <2> QED
    BY <2>1, <2>2
<1>4. (d + 1) - 1 = d
  BY <1>1
<1>5. Dirs!InsertAt(list, d + 1, n) = s \o <<n>> \o t
  BY <1>4 DEF Dirs!InsertAt
<1> HIDE DEF s, t
<1> DEFINE u == s \o <<n>>
<1>6. /\ u \in Seq(DirName) /\ Len(u) = d + 1 /\ u[d + 1] = n
      /\ \A a \in 1 .. d : u[a] = list[a]
  BY <1>1, <1>2
<1> HIDE DEF u
<1>7. /\ u \o t \in Seq(DirName) /\ Len(u \o t) = Len(list) + 1
      /\ \A a \in 1 .. d + 1 : (u \o t)[a] = u[a]
      /\ \A a \in 1 .. Len(list) - d : (u \o t)[a + (d + 1)] = t[a]
  BY <1>1, <1>3, <1>6
<1>8. ASSUME NEW a \in d + 1 .. Len(list) PROVE (u \o t)[a + 1] = list[a]
  <2>1. /\ a - d \in 1 .. Len(list) - d /\ (a - d) + (d + 1) = a + 1 /\ (a - d) + d = a
    BY <1>1
  <2> QED
    BY <1>3, <1>7, <2>1
<1>9. Dirs!InsertAt(list, d + 1, n) = u \o t
  BY <1>5 DEF u
<1>10. d + 1 \in 1 .. d + 1 /\ \A a \in 1 .. d : a \in 1 .. d + 1
  BY <1>1
<1> QED
  BY <1>6, <1>7, <1>8, <1>9, <1>10

LEMMA AddDirOK ==
  ASSUME DirsInv, NEW n \in DirName, NEW kind \in Dirs!Kinds, Dirs!AddDir(n, kind)
  PROVE  DirsInv'
<1> DEFINE d == Dirs!Position(n)
           L == Len(list)
           D == {list[a] : a \in Places}
<1>1. /\ Sorted /\ list \in Seq(DirName) /\ L \in Nat /\ L < MaxSize /\ MaxSize \in Nat
      /\ ~ Dirs!Found(n)
      /\ declared \in [D -> Dirs!Kinds] /\ MasksSound
      /\ stable \in BOOLEAN /\ stable' = stable
      /\ list' = Dirs!InsertAt(list, d + 1, n)
      /\ declared' = [m \in DOMAIN declared \cup {n} |-> IF m = n THEN kind ELSE declared[m]]
  <2>1. MaxSize \in Nat
    BY PartsAssumption DEF Dirs!DirListAssumption
  <2>2. /\ Sorted /\ list \in Seq(DirName) /\ L \in Nat /\ declared \in [D -> Dirs!Kinds]
        /\ MasksSound /\ stable \in BOOLEAN
    BY DEF DirsInv, Sorted
  <2>3. /\ L < MaxSize /\ ~ Dirs!Found(n) /\ stable' = stable
        /\ list' = Dirs!InsertAt(list, d + 1, n)
        /\ declared' = [m \in DOMAIN declared \cup {n} |-> IF m = n THEN kind ELSE declared[m]]
    BY DEF Dirs!AddDir
  <2> QED
    BY <2>1, <2>2, <2>3
<1>2. PlaceOf(n, d) /\ d \in 0 .. L
  BY <1>1, PositionIs DEF PlaceOf
<1>3. \A a \in 1 .. L : list[a] # n
  BY <1>1, FoundIs
<1>4. /\ list' \in Seq(DirName) /\ Len(list') = L + 1 /\ list'[d + 1] = n
      /\ \A a \in 1 .. d : list'[a] = list[a]
      /\ \A a \in d + 1 .. L : list'[a + 1] = list[a]
  BY <1>1, <1>2, InsertedIs
<1>5. /\ tracked' = Dirs!With(Moved(tracked, d), kind # "declared", d)
      /\ repeated' = Dirs!With(Moved(repeated, d), kind = "repeated", d)
      /\ active' = Dirs!With(Moved(active, d), kind = "tracked with head", d)
  BY DEF Dirs!AddDir, Moved
<1> HIDE DEF d
\* Old places and the new one.
<1>6. \A a \in 1 .. L + 1 : a \in 1 .. d \/ a = d + 1 \/ (\E b \in d + 1 .. L : a = b + 1)
  <2> SUFFICES ASSUME NEW a \in 1 .. L + 1, a \notin 1 .. d, a # d + 1
               PROVE  \E b \in d + 1 .. L : a = b + 1
    OBVIOUS
  <2>1. a - 1 \in d + 1 .. L /\ a = (a - 1) + 1
    BY <1>1, <1>2
  <2> QED
    BY <2>1
<1>7. /\ \A a \in 1 .. d : a \in 1 .. L
      /\ \A a \in d + 1 .. L : a \in 1 .. L /\ a + 1 \in 1 .. L + 1
      /\ d + 1 \in 1 .. L + 1 /\ d \in Nat
  BY <1>1, <1>2
<1>8. Sorted'
  <2>1. n \in Seq(Nat) /\ \A a \in 1 .. L : list[a] \in Seq(Nat)
    BY <1>1, DirNames
  <2>2. /\ \A a \in 1 .. d : Lex(list[a], n)
        /\ \A a \in d + 1 .. L : Lex(n, list[a])
    BY <1>2, <1>7, <2>1, LexTotal DEF PlaceOf
  <2>3. ASSUME NEW a \in 1 .. L + 1, NEW b \in 1 .. L + 1, a < b
        PROVE  Lex(list'[a], list'[b]) /\ list'[a] # list'[b]
    <3>1. CASE a \in 1 .. d /\ b \in 1 .. d
      <4>1. Lex(list[a], list[b]) /\ list[a] # list[b]
        BY <1>1, <1>7, <2>3, <3>1 DEF Sorted
      <4> QED
        BY <1>4, <3>1, <4>1
    <3>2. CASE a \in 1 .. d /\ b = d + 1
      BY <1>3, <1>4, <1>7, <2>2, <3>2
    <3>3. CASE a \in 1 .. d /\ \E c \in d + 1 .. L : b = c + 1
      <4>1. PICK c \in d + 1 .. L : b = c + 1
        BY <3>3
      <4>2. a < c /\ c \in 1 .. L /\ a \in 1 .. L
        BY <1>1, <1>2, <1>7, <3>3
      <4> QED
        BY <1>1, <1>4, <3>3, <4>1, <4>2 DEF Sorted
    <3>4. CASE a = d + 1 /\ \E c \in d + 1 .. L : b = c + 1
      BY <1>3, <1>4, <1>7, <2>2, <3>4
    <3>5. CASE (\E e \in d + 1 .. L : a = e + 1) /\ \E c \in d + 1 .. L : b = c + 1
      <4>1. PICK e \in d + 1 .. L : a = e + 1
        BY <3>5
      <4>2. PICK c \in d + 1 .. L : b = c + 1
        BY <3>5
      <4>3. e < c /\ c \in 1 .. L /\ e \in 1 .. L
        BY <1>1, <1>2, <1>7, <2>3, <4>1, <4>2
      <4> QED
        BY <1>1, <1>4, <4>1, <4>2, <4>3 DEF Sorted
    <3>6. ~ (a = d + 1 /\ (b \in 1 .. d \/ b = d + 1))
      BY <1>2, <2>3
    <3>7. ~ ((\E e \in d + 1 .. L : a = e + 1) /\ (b \in 1 .. d \/ b = d + 1))
      BY <1>1, <1>2, <2>3
    <3> QED
      BY <1>6, <3>1, <3>2, <3>3, <3>4, <3>5, <3>6, <3>7
  <2>4. \A a, b \in 1 .. Len(list') : a < b => Lex(list'[a], list'[b]) /\ list'[a] # list'[b]
    BY <1>4, <2>3
  <2> QED
    BY <1>4, <2>4 DEF Sorted
<1>9. Len(list') <= MaxSize /\ stable' \in BOOLEAN
  BY <1>1, <1>4
<1>10. declared' \in [{list'[a] : a \in Places'} -> Dirs!Kinds]
  <2>1. {list'[a] : a \in 1 .. L + 1} = D \cup {n}
    <3>1. ASSUME NEW a \in 1 .. L + 1 PROVE list'[a] \in D \cup {n}
      <4>1. \A b \in 1 .. L : list[b] \in D
        BY DEF Places
      <4>2. CASE a \in 1 .. d
        BY <1>4, <1>7, <4>1, <4>2
      <4>3. CASE a = d + 1
        BY <1>4, <4>3
      <4>4. ASSUME NEW b \in d + 1 .. L, a = b + 1 PROVE list'[a] \in D
        BY <1>4, <1>7, <4>1, <4>4
      <4> QED
        BY <1>6, <4>2, <4>3, <4>4
    <3>2. ASSUME NEW a \in Places PROVE \E b \in 1 .. L + 1 : list'[b] = list[a]
      <4>1. a \in 1 .. d \/ a \in d + 1 .. L
        BY <1>1, <1>2 DEF Places
      <4>2. a \in 1 .. L + 1
        BY <1>1 DEF Places
      <4> QED
        BY <1>4, <1>7, <4>1, <4>2
    <3>3. n \in {list'[a] : a \in 1 .. L + 1}
      BY <1>4, <1>7
    <3> QED
      BY <3>1, <3>2, <3>3
  <2>2. declared' \in [D \cup {n} -> Dirs!Kinds]
    <3> HIDE DEF D
    <3> QED
      BY <1>1
  <2>3. Places' = 1 .. L + 1
    BY <1>4 DEF Places
  <2> QED
    BY <2>1, <2>2, <2>3
<1>11. \A a \in 1 .. L : declared'[list[a]] = declared[list[a]]
  <2>1. \A a \in 1 .. L : list[a] \in DOMAIN declared
    BY <1>1 DEF Places
  <2> QED
    BY <1>1, <1>3, <2>1
<1>12. declared'[n] = kind
  BY <1>1
<1>13. /\ OfMask(tracked', tracked, kind # "declared", d)
       /\ OfMask(repeated', repeated, kind = "repeated", d)
       /\ OfMask(active', active, kind = "tracked with head", d)
  <2>1. /\ tracked \subseteq {a - 1 : a \in Places} /\ repeated \subseteq {a - 1 : a \in Places}
        /\ active \subseteq {a - 1 : a \in Places}
    BY <1>1 DEF MasksSound
  <2> QED
    BY <1>1, <1>2, <1>5, <2>1, WithIs
<1>14. ASSUME NEW a \in 1 .. L + 1
       PROVE  /\ a - 1 \in tracked' <=> declared'[list'[a]] # "declared"
              /\ a - 1 \in repeated' <=> declared'[list'[a]] = "repeated"
              /\ declared'[list'[a]] = "tracked with head" => a - 1 \in active'
              /\ a - 1 \in active' => a - 1 \in tracked'
  <2>1. CASE a \in 1 .. d
    <3>1. a \in Places /\ list'[a] = list[a] /\ declared'[list[a]] = declared[list[a]]
      BY <1>4, <1>7, <1>11, <2>1 DEF Places
    <3>2. /\ a - 1 \in tracked' <=> a - 1 \in tracked
          /\ a - 1 \in repeated' <=> a - 1 \in repeated
          /\ a - 1 \in active' <=> a - 1 \in active
      BY <1>13, <2>1 DEF OfMask
    <3> QED
      BY <1>1, <3>1, <3>2 DEF MasksSound
  <2>2. CASE a = d + 1
    <3>1. a - 1 = d /\ list'[a] = n
      BY <1>2, <1>4, <2>2
    <3>2. /\ d \in tracked' <=> kind # "declared"
          /\ d \in repeated' <=> kind = "repeated"
          /\ d \in active' <=> kind = "tracked with head"
      BY <1>13 DEF OfMask
    <3> QED
      BY <1>12, <3>1, <3>2
  <2>3. CASE \E b \in d + 1 .. L : a = b + 1
    <3>1. PICK b \in d + 1 .. L : a = b + 1
      BY <2>3
    <3>2. /\ b \in Places /\ a - 1 = b /\ list'[a] = list[b]
          /\ declared'[list[b]] = declared[list[b]]
      BY <1>2, <1>4, <1>7, <1>11, <3>1 DEF Places
    <3>3. /\ b \in tracked' <=> b - 1 \in tracked
          /\ b \in repeated' <=> b - 1 \in repeated
          /\ b \in active' <=> b - 1 \in active
      BY <1>13, <3>1 DEF OfMask
    <3> QED
      BY <1>1, <3>2, <3>3 DEF MasksSound
  <2> QED
    BY <1>6, <2>1, <2>2, <2>3
<1>15. MasksSound'
  <2>1. Places' = 1 .. L + 1
    BY <1>4 DEF Places
  <2>2. tracked' \cup repeated' \cup active' \subseteq {a - 1 : a \in 1 .. L + 1}
    BY <1>13 DEF OfMask
  <2>3. active' \subseteq tracked'
    BY <1>14, <2>2
  <2> QED
    BY <1>14, <2>1, <2>2, <2>3 DEF MasksSound
<1> QED
  BY <1>8, <1>9, <1>10, <1>15 DEF DirsInv

LEMMA DirsInit == Dirs!Init => DirsInv
<1> SUFFICES ASSUME Dirs!Init PROVE DirsInv
  OBVIOUS
<1>1. /\ list = <<>> /\ tracked = {} /\ repeated = {} /\ active = {} /\ stable = FALSE
      /\ declared = [n \in {} |-> "-"]
  BY DEF Dirs!Init
<1>2. MaxSize \in Nat /\ Len(list) = 0 /\ Places = {}
  BY <1>1, PartsAssumption DEF Dirs!DirListAssumption, Places
<1>3. Sorted
  BY <1>1, <1>2 DEF Sorted
<1>4. declared \in [{list[a] : a \in Places} -> Dirs!Kinds]
  BY <1>1, <1>2
<1>5. MasksSound
  BY <1>1, <1>2 DEF MasksSound
<1>6. Len(list) <= MaxSize
  BY <1>2
<1>7. stable \in BOOLEAN
  BY <1>1
<1> QED
  BY <1>3, <1>4, <1>5, <1>6, <1>7 DEF DirsInv

LEMMA DirsSame ==
  ASSUME DirsInv, UNCHANGED <<list, declared>>, MasksSound', stable' \in BOOLEAN
  PROVE  DirsInv'
<1>1. Places' = Places /\ Sorted'
  BY DEF DirsInv, Sorted, Places
<1>2. {list'[a] : a \in Places'} = {list[a] : a \in Places}
  BY <1>1
<1> QED
  BY <1>1, <1>2 DEF DirsInv

LEMMA DirsNextOK == ASSUME DirsInv, [Dirs!Next]_(Dirs!vars) PROVE DirsInv'
<1>1. CASE UNCHANGED Dirs!vars
  BY <1>1, DirsSame DEF Dirs!vars, Dirs!masks, DirsInv, MasksSound, Places
<1>2. ASSUME NEW n \in DirName, NEW kind \in Dirs!Kinds, Dirs!AddDir(n, kind) PROVE DirsInv'
  BY <1>2, AddDirOK
<1>3. CASE Dirs!EndDirs
  <2>1. /\ UNCHANGED <<list, tracked, repeated, declared>> /\ stable' = TRUE
        /\ active' \in {active, active \cup repeated}
    BY <1>3, ZenonT(60) DEF Dirs!EndDirs
  <2>2. repeated \subseteq tracked
    BY ZenonT(60) DEF DirsInv, MasksSound
  <2>3. MasksSound'
    BY <2>1, <2>2 DEF DirsInv, MasksSound, Places
  <2> QED
    BY <2>1, <2>3, DirsSame
<1>4. ASSUME NEW n \in DirName, Dirs!SetHead(n) PROVE DirsInv'
  <2>1. /\ UNCHANGED <<list, tracked, repeated, declared>> /\ stable' = stable
        /\ Dirs!Position(n) \in tracked /\ active' = active \cup {Dirs!Position(n)}
    BY <1>4 DEF Dirs!SetHead
  <2>2. MasksSound'
    BY <2>1 DEF DirsInv, MasksSound, Places
  <2> QED
    BY <2>1, <2>2, DirsSame DEF DirsInv
<1> QED
  BY <1>1, <1>2, <1>3, <1>4 DEF Dirs!Next

LEMMA DirsTyped == DirsInv => Dirs!TypeOK
<1> SUFFICES ASSUME DirsInv PROVE Dirs!TypeOK
  OBVIOUS
<1>1. list \in Seq(DirName) /\ Len(list) \in Nat /\ Len(list) <= MaxSize /\ MaxSize \in Nat
  BY PartsAssumption DEF DirsInv, Sorted, Dirs!DirListAssumption
<1>2. \A a \in Places : a - 1 \in 0 .. MaxSize - 1
  BY <1>1 DEF Places
<1>3. tracked \cup repeated \cup active \subseteq 0 .. MaxSize - 1
  BY <1>2 DEF DirsInv, MasksSound
<1>4. /\ DOMAIN declared \subseteq DirName
      /\ \A n \in DOMAIN declared : declared[n] \in Dirs!Kinds
  BY <1>1 DEF DirsInv, Places
<1> QED
  BY <1>1, <1>3, <1>4 DEF Dirs!TypeOK, DirsInv

LEMMA MasksFollowTheNames == DirsInv => Dirs!MasksFollow
<1> SUFFICES ASSUME DirsInv PROVE Dirs!MasksFollow
  OBVIOUS
<1>1. /\ Len(list) \in Nat /\ DOMAIN declared = {list[a] : a \in Places}
      /\ MasksSound
  BY DEF DirsInv, Sorted
<1>2. /\ \A a \in Places : a - 1 \in 0 .. Len(list) - 1 /\ (a - 1) + 1 = a
      /\ \A d \in 0 .. Len(list) - 1 : d + 1 \in Places /\ (d + 1) - 1 = d
  BY <1>1 DEF Places
<1>3. ASSUME NEW mask, NEW x
      PROVE  x \in Dirs!Of(mask) <=> \E a \in Places : x = list[a] /\ a - 1 \in mask
  <2>1. x \in Dirs!Of(mask) <=> \E d \in mask \cap 0 .. Len(list) - 1 : x = list[d + 1]
    BY DEF Dirs!Of
  <2> QED
    BY <1>2, <2>1
<1>4. Dirs!Of(tracked) = {n \in DOMAIN declared : declared[n] # "declared"}
  <2> SUFFICES ASSUME NEW x
               PROVE  x \in Dirs!Of(tracked) <=> x \in DOMAIN declared /\ declared[x] # "declared"
    OBVIOUS
  <2>1. x \in Dirs!Of(tracked) <=> \E a \in Places : x = list[a] /\ a - 1 \in tracked
    BY <1>3
  <2> QED
    BY <1>1, <2>1 DEF MasksSound
<1>5. Dirs!Of(repeated) = {n \in DOMAIN declared : declared[n] = "repeated"}
  <2> SUFFICES ASSUME NEW x
               PROVE  x \in Dirs!Of(repeated) <=> x \in DOMAIN declared /\ declared[x] = "repeated"
    OBVIOUS
  <2>1. x \in Dirs!Of(repeated) <=> \E a \in Places : x = list[a] /\ a - 1 \in repeated
    BY <1>3
  <2> QED
    BY <1>1, <2>1 DEF MasksSound
<1>6. {n \in DOMAIN declared : declared[n] = "tracked with head"} \subseteq Dirs!Of(active)
  <2> SUFFICES ASSUME NEW x \in DOMAIN declared, declared[x] = "tracked with head"
               PROVE  x \in Dirs!Of(active)
    OBVIOUS
  <2>1. PICK a \in Places : x = list[a]
    BY <1>1
  <2>2. a - 1 \in active
    BY <1>1, <2>1 DEF MasksSound
  <2> QED
    BY <1>3, <2>1, <2>2
<1>7. Dirs!Of(active) \subseteq Dirs!Of(tracked)
  <2>1. active \subseteq tracked
    BY <1>1 DEF MasksSound
  <2> SUFFICES ASSUME NEW x \in Dirs!Of(active) PROVE x \in Dirs!Of(tracked)
    OBVIOUS
  <2>2. PICK a \in Places : x = list[a] /\ a - 1 \in active
    BY <1>3
  <2> QED
    BY <1>3, <2>1, <2>2
<1> QED
  BY <1>4, <1>5, <1>6, <1>7 DEF Dirs!MasksFollow

LEMMA NamesClaimed == DirsInv => Dirs!EveryNameIsClaimed
<1> SUFFICES ASSUME DirsInv, NEW n \in DirName,
                    NEW owner, owner = IF n \in DOMAIN declared THEN n ELSE RootDir
             PROVE  IF owner \in DOMAIN declared
                    THEN Dirs!FindDir(n) < Len(list) /\ list[Dirs!FindDir(n) + 1] = owner
                    ELSE Dirs!FindDir(n) = Dirs!None
  BY DEF Dirs!EveryNameIsClaimed
<1>1. /\ RootDir \in DirName /\ Sorted /\ Len(list) \in Nat
      /\ DOMAIN declared = {list[a] : a \in Places}
  BY PartsAssumption DEF Dirs!DirListAssumption, DirsInv, Sorted
<1>2. ASSUME NEW m \in DirName
      PROVE  /\ Dirs!Found(m) <=> m \in DOMAIN declared
             /\ Dirs!Found(m) => Dirs!Position(m) < Len(list) /\ list[Dirs!Position(m) + 1] = m
  <2>1. Dirs!Found(m) <=> m \in DOMAIN declared
    BY <1>1, FoundIs DEF Places
  <2> QED
    BY <2>1 DEF Dirs!Found
<1>3. CASE n \in DOMAIN declared
  BY <1>2, <1>3 DEF Dirs!FindDir
<1>4. CASE n \notin DOMAIN declared
  BY <1>1, <1>2, <1>4 DEF Dirs!FindDir
<1> QED
  BY <1>3, <1>4

-----------------------------------------------------------------------------
(***************************************************************************)
(* Revisions.  What is listed, what is to be translated and what has a     *)
(* monorepo commit contains the parents of its members.  Parents come      *)
(* first, so that the parent of a commit that is looked at has a monorepo  *)
(* commit or is being translated; so a downstream commit that names a      *)
(* revision is never taken for it.                                         *)
(***************************************************************************)
\* Commits are made from older ones; a revision named by a downstream commit
\* is that of a cherry-pick onto a downstream commit.
HistorySound ==
  /\ par \in Seq(Seq(Nat)) /\ id \in Seq({0} \cup Revs!Revs)
  /\ Len(id) = Len(par) /\ Upstream <= Len(par)
  /\ \A c \in Revs!Revs : par[c] = (IF c = 1 THEN <<>> ELSE <<c - 1>>) /\ id[c] = c
  /\ \A c \in Revs!Commits \ Revs!Revs :
       /\ Len(par[c]) \in {1, 2}
       /\ \A i \in 1 .. Len(par[c]) : par[c][i] \in 1 .. c - 1
       /\ id[c] # 0 => Len(par[c]) = 1 /\ par[c][1] \notin Revs!Revs

\* The commits that have a monorepo commit.
Known == Revs!Revs \cup DOMAIN base

TablesSound ==
  /\ DOMAIN base \subseteq Revs!Commits \ Revs!Revs /\ DOMAIN content = DOMAIN base
  /\ \A c \in DOMAIN base : /\ base[c] \in Int /\ -base[c] \in 0 .. Upstream
                            /\ content[c] \in Revs!Commits
                            /\ Revs!Parents(c) \subseteq Known
  /\ tip \in [Branch -> {0} \cup Known]

\* What a process may have noted.
MemoSound(m) ==
  /\ DOMAIN m = {"split", "mono", "monos", "based", "being"}
  /\ DOMAIN m.split \subseteq Revs!Commits
  /\ \A c \in DOMAIN m.split : m.split[c] = IF c \in Revs!Revs THEN c ELSE 0
  /\ DOMAIN m.monos \subseteq Known
  /\ \A c \in DOMAIN m.monos : m.monos[c] = c
  /\ m.based = DOMAIN m.monos \cap Revs!Revs
  /\ DOMAIN m.mono \subseteq Revs!Commits
  /\ \A c \in DOMAIN m.mono : m.mono[c] \in -Upstream .. Upstream
  /\ m.being \subseteq Revs!Commits \ Revs!Revs

Pending == Known \cup revRun.listed \cup revRun.todo

RevRunSound ==
  /\ revRun \in [at : {"none", "list", "translate"}, branch : Branch \cup {"none"},
                 goal : {0} \cup Revs!Commits,
                 listed : SUBSET Revs!Commits, todo : SUBSET Revs!Commits]
  /\ revRun.at = "none" => revRun.todo = {}
  /\ revRun.at # "list" => revRun.listed = {}
  /\ revRun.todo \subseteq memo.being /\ revRun.todo \cap DOMAIN base = {}
  /\ revRun.at # "none" => revRun.goal \in Pending
  /\ \A c \in revRun.listed \cup revRun.todo : Revs!Parents(c) \subseteq Pending

(***************************************************************************)
(* In the first run: what was translated was noted, and what is noted of a *)
(* commit is what the tables say, so that the parent with the newest       *)
(* revision wins.                                                          *)
(***************************************************************************)
RevOf(p) == IF p \in Revs!Revs THEN p ELSE -base[p]

BaseFromParents(c) ==
  /\ \A i \in DOMAIN par[c] : RevOf(par[c][i]) <= -base[c]
  /\ \E i \in DOMAIN par[c] : RevOf(par[c][i]) = -base[c]
  /\ content[c] = -base[c]

NotedSound(m) ==
  /\ m.based \subseteq DOMAIN m.mono /\ DOMAIN m.mono \subseteq Known
  /\ \A d \in DOMAIN m.mono : m.mono[d] = IF d \in Revs!Revs THEN d ELSE base[d]

FirstRunSound ==
  /\ runs = 0 => revRun.at = "none"
  /\ revRun.at = "list" \/ runs = 0 => DOMAIN base = {}
  /\ revRun.at = "translate" => DOMAIN base \subseteq DOMAIN memo.mono
  /\ NotedSound(memo)
  /\ \A c \in DOMAIN base : BaseFromParents(c)

RevsInv ==
  /\ HistorySound /\ TablesSound /\ MemoSound(memo) /\ RevRunSound
  /\ runs \in 0 .. MaxRuns
  /\ runs <= 1 => FirstRunSound

(***************************************************************************)
(* What is reached from a number by going up: the least set that has the   *)
(* number and whatever is above its members.                               *)
(***************************************************************************)
Upwards(u, n) == \A d \in 1 .. n : u[d] \subseteq 1 .. d - 1
Reaches(f, u, n) ==
  /\ f \in [1 .. n -> SUBSET (1 .. n)]
  /\ \A d \in 1 .. n : f[d] = {d} \cup UNION {f[p] : p \in u[d]}

LEMMA ReachExists ==
  ASSUME NEW n \in Nat, NEW u, Upwards(u, n)
  PROVE  \E f : Reaches(f, u, n)
<1> DEFINE Right(f, m) ==
             /\ f \in [1 .. n -> SUBSET (1 .. n)]
             /\ \A d \in 1 .. n : d <= m => f[d] = {d} \cup UNION {f[p] : p \in u[d]}
           Bad == {m \in Nat : ~ \E f : Right(f, m)}
<1>1. Bad = {}
  <2> SUFFICES ASSUME Bad # {} PROVE FALSE
    OBVIOUS
  <2>1. PICK m \in Bad : \A k \in Bad : m <= k
    <3>1. Bad \subseteq Nat
      OBVIOUS
    <3> HIDE DEF Bad
    <3> QED
      BY <3>1, TrieP!SmallestNat
  <2>2. CASE m = 0
    <3>1. Right([d \in 1 .. n |-> {}], 0)
      OBVIOUS
    <3> QED
      BY <2>1, <2>2, <3>1
  <2>3. CASE m # 0
    <3>1. m - 1 \in Nat /\ ~ m <= m - 1 /\ m \in Nat
      BY <2>1, <2>3
    <3>2. PICK f : Right(f, m - 1)
      BY <2>1, <3>1
    <3> DEFINE g == [d \in 1 .. n |-> IF d = m THEN {d} \cup UNION {f[p] : p \in u[d]} ELSE f[d]]
    <3>3. ASSUME NEW d \in 1 .. n, d <= m PROVE g[d] = {d} \cup UNION {g[p] : p \in u[d]}
      <4>1. \A p \in u[d] : p \in 1 .. n /\ p # m
        BY <3>1, <3>3 DEF Upwards
      <4>2. \A p \in u[d] : g[p] = f[p]
        BY <4>1
      <4>3. d # m => f[d] = {d} \cup UNION {f[p] : p \in u[d]}
        BY <3>1, <3>2, <3>3
      <4>4. g[d] = {d} \cup UNION {f[p] : p \in u[d]}
        BY <4>3
      <4>5. {g[p] : p \in u[d]} = {f[p] : p \in u[d]}
        <5> HIDE DEF g
        <5> QED
          BY <4>2
      <4> QED
        BY <4>4, <4>5
    <3>4. g \in [1 .. n -> SUBSET (1 .. n)]
      <4>1. \A d \in 1 .. n : UNION {f[p] : p \in u[d]} \subseteq 1 .. n
        BY <3>2 DEF Upwards
      <4> QED
        BY <3>2, <4>1
    <3>5. Right(g, m)
      BY <3>3, <3>4
    <3> QED
      BY <2>1, <3>5
  <2> QED
    BY <2>2, <2>3
<1>2. PICK f : Right(f, n)
  BY <1>1
<1>3. Reaches(f, u, n)
  BY <1>2 DEF Reaches
<1> QED
  BY <1>3

LEMMA ReachWithin ==
  ASSUME NEW n \in Nat, NEW u, Upwards(u, n), NEW f, Reaches(f, u, n),
         NEW A, \A d \in A \cap (1 .. n) : u[d] \subseteq A, NEW h \in A \cap (1 .. n)
  PROVE  f[h] \subseteq A
<1> DEFINE Bad == {d \in A \cap (1 .. n) : ~ f[d] \subseteq A}
<1>1. SUFFICES ASSUME Bad # {} PROVE FALSE
  OBVIOUS
<1>2. PICK m \in Bad : \A k \in Bad : m <= k
  <2>1. Bad \subseteq Nat
    OBVIOUS
  <2> HIDE DEF Bad
  <2> QED
    BY <1>1, <2>1, TrieP!SmallestNat
<1>3. \A p \in u[m] : p \in A \cap (1 .. n) /\ ~ m <= p
  BY <1>2 DEF Upwards
<1>4. \A p \in u[m] : f[p] \subseteq A
  BY <1>2, <1>3
<1> QED
  BY <1>2, <1>4 DEF Reaches

LEMMA ReachHasAbove ==
  ASSUME NEW n \in Nat, NEW u, Upwards(u, n), NEW f, Reaches(f, u, n), NEW h \in 1 .. n,
         NEW c \in f[h]
  PROVE  u[c] \subseteq f[h]
<1> DEFINE Bad == {d \in 1 .. n : \E b \in f[d] : ~ u[b] \subseteq f[d]}
<1>1. SUFFICES ASSUME Bad # {} PROVE FALSE
  OBVIOUS
<1>2. PICK m \in Bad : \A k \in Bad : m <= k
  <2>1. Bad \subseteq Nat
    OBVIOUS
  <2> HIDE DEF Bad
  <2> QED
    BY <1>1, <2>1, TrieP!SmallestNat
<1>3. \A p \in u[m] : p \in 1 .. n /\ ~ m <= p /\ p \in f[p] /\ f[p] \subseteq f[m]
  BY <1>2 DEF Upwards, Reaches
<1>4. \A p \in u[m] : p \in f[m] /\ \A b \in f[p] : u[b] \subseteq f[p]
  BY <1>2, <1>3
<1>5. \A b \in f[m] : b = m \/ \E p \in u[m] : b \in f[p]
  BY <1>2 DEF Reaches
<1>6. \A b \in f[m] : u[b] \subseteq f[m]
  BY <1>3, <1>4, <1>5
<1> QED
  BY <1>2, <1>6

LEMMA CommitsAre ==
  ASSUME HistorySound
  PROVE  /\ Upstream \in Nat \ {0} /\ Len(par) \in Nat
         /\ Revs!Commits = 1 .. Len(par) /\ Revs!Revs = 1 .. Upstream
         /\ Revs!Revs \subseteq Revs!Commits
BY PartsAssumption DEF HistorySound, Revs!RevsAssumption, Revs!Commits, Revs!Revs

LEMMA ParentsAre ==
  ASSUME HistorySound, NEW c \in Revs!Commits
  PROVE  /\ Len(par[c]) \in 0 .. 2
         /\ Revs!Parents(c) = {par[c][i] : i \in 1 .. Len(par[c])}
         /\ \A i \in 1 .. Len(par[c]) : par[c][i] \in 1 .. c - 1 /\ par[c][i] \in Revs!Commits
         /\ Revs!Parents(c) \subseteq 1 .. c - 1
         /\ Revs!FirstParent(c) = (IF Len(par[c]) = 0 THEN 0 ELSE par[c][1])
<1>1. par[c] \in Seq(Nat) /\ c \in Nat \ {0} /\ c <= Len(par)
  BY CommitsAre DEF HistorySound
<1>2. /\ Len(par[c]) \in 0 .. 2
      /\ \A i \in 1 .. Len(par[c]) : par[c][i] \in 1 .. c - 1
  <2>1. CASE c \in Revs!Revs
    <3>1. par[c] = IF c = 1 THEN <<>> ELSE <<c - 1>>
      BY <2>1 DEF HistorySound
    <3>2. CASE c = 1
      BY <3>1, <3>2
    <3>3. CASE c # 1
      <4>1. par[c] = <<c - 1>> /\ Len(par[c]) = 1 /\ par[c][1] = c - 1
        BY <3>1, <3>3
      <4> QED
        BY <1>1, <3>3, <4>1
    <3> QED
      BY <3>2, <3>3
  <2>2. CASE c \notin Revs!Revs
    BY <2>2 DEF HistorySound
  <2> QED
    BY <2>1, <2>2
<1>3. DOMAIN par[c] = 1 .. Len(par[c])
  BY <1>1
<1>4. Revs!Parents(c) = {par[c][i] : i \in 1 .. Len(par[c])}
  BY <1>3 DEF Revs!Parents, Revs!Range
<1>5. par[c] = <<>> <=> Len(par[c]) = 0
  BY <1>1
<1>6. \A i \in 1 .. Len(par[c]) : par[c][i] \in Revs!Commits
  BY <1>1, <1>2, CommitsAre
<1> QED
  BY <1>2, <1>4, <1>5, <1>6 DEF Revs!FirstParent

\* The ancestors of a commit.
ParentSets == [d \in Revs!Commits |-> Revs!Parents(d)]
AncestorSets ==
  CHOOSE f : f = [d \in Revs!Commits |-> {d} \cup UNION {f[p] : p \in Revs!Parents(d)}]

LEMMA AncestorSetsReach ==
  ASSUME HistorySound
  PROVE  /\ Upwards(ParentSets, Len(par)) /\ Reaches(AncestorSets, ParentSets, Len(par))
         /\ \A h : Revs!Ancestors(h) = IF h = 0 THEN {} ELSE AncestorSets[h]
<1>1. Upwards(ParentSets, Len(par))
  BY CommitsAre, ParentsAre DEF Upwards, ParentSets
<1>2. PICK f : Reaches(f, ParentSets, Len(par))
  BY <1>1, CommitsAre, ReachExists
<1>3. f = [d \in Revs!Commits |-> {d} \cup UNION {f[p] : p \in Revs!Parents(d)}]
  BY <1>2, CommitsAre DEF Reaches, ParentSets
<1>4. AncestorSets
        = [d \in Revs!Commits |-> {d} \cup UNION {AncestorSets[p] : p \in Revs!Parents(d)}]
  BY <1>3 DEF AncestorSets
<1>5. \A d \in 1 .. Len(par) :
        AncestorSets[d] = {d} \cup UNION {AncestorSets[p] : p \in ParentSets[d]}
  BY <1>4, CommitsAre DEF ParentSets
<1>6. AncestorSets \in [1 .. Len(par) -> SUBSET (1 .. Len(par))]
  <2> DEFINE Bad == {d \in 1 .. Len(par) : ~ AncestorSets[d] \subseteq 1 .. Len(par)}
  <2>1. SUFFICES ASSUME Bad # {} PROVE FALSE
    BY <1>4, CommitsAre
  <2>2. PICK m \in Bad : \A k \in Bad : m <= k
    <3>1. Bad \subseteq Nat
      OBVIOUS
    <3> HIDE DEF Bad
    <3> QED
      BY <2>1, <3>1, TrieP!SmallestNat
  <2>3. \A p \in ParentSets[m] : p \in 1 .. Len(par) /\ ~ m <= p
    BY <1>1, <2>2, CommitsAre DEF Upwards
  <2>4. \A p \in ParentSets[m] : AncestorSets[p] \subseteq 1 .. Len(par)
    BY <2>2, <2>3
  <2> QED
    BY <1>5, <2>2, <2>4
<1>7. \A h : Revs!Ancestors(h) = IF h = 0 THEN {} ELSE AncestorSets[h]
  BY DEF Revs!Ancestors, AncestorSets
<1> QED
  BY <1>1, <1>5, <1>6, <1>7 DEF Reaches

LEMMA AncestorsAre ==
  ASSUME HistorySound, NEW h \in Revs!Commits
  PROVE  /\ h \in Revs!Ancestors(h) /\ Revs!Ancestors(h) \subseteq Revs!Commits
         /\ \A c \in Revs!Ancestors(h) : Revs!Parents(c) \subseteq Revs!Ancestors(h)
<1>1. h \in 1 .. Len(par) /\ Revs!Ancestors(h) = AncestorSets[h] /\ Len(par) \in Nat
  BY CommitsAre, AncestorSetsReach
<1>2. h \in AncestorSets[h] /\ AncestorSets[h] \subseteq Revs!Commits
  BY <1>1, AncestorSetsReach, CommitsAre DEF Reaches
<1>3. \A c \in AncestorSets[h] : ParentSets[c] \subseteq AncestorSets[h]
  BY <1>1, AncestorSetsReach, ReachHasAbove
<1> QED
  BY <1>1, <1>2, <1>3 DEF ParentSets

LEMMA AncestorsWithin ==
  ASSUME HistorySound, NEW A, \A c \in A \cap Revs!Commits : Revs!Parents(c) \subseteq A,
         NEW h \in A \cap Revs!Commits
  PROVE  Revs!Ancestors(h) \subseteq A
<1>1. \A c \in A \cap (1 .. Len(par)) : ParentSets[c] \subseteq A
  BY CommitsAre DEF ParentSets
<1>2. h \in A \cap (1 .. Len(par)) /\ Len(par) \in Nat /\ h # 0
  BY CommitsAre
<1>3. AncestorSets[h] \subseteq A
  BY <1>1, <1>2, AncestorSetsReach, ReachWithin
<1> QED
  BY <1>2, <1>3, AncestorSetsReach

\* The line of first parents of a commit.
FirstParentSets ==
  [d \in Revs!Commits |-> IF Revs!FirstParent(d) = 0 THEN {} ELSE {Revs!FirstParent(d)}]
LineSets ==
  CHOOSE f : f = [d \in Revs!Commits |->
                    {d} \cup (IF Revs!FirstParent(d) = 0 THEN {} ELSE f[Revs!FirstParent(d)])]

LEMMA FirstParentsWithin ==
  ASSUME HistorySound, NEW A, \A c \in A \cap Revs!Commits : Revs!Parents(c) \subseteq A,
         NEW h \in A \cap Revs!Commits
  PROVE  Revs!FirstParents(h) \subseteq A \cap Revs!Commits
<1> DEFINE n == Len(par)
<1>1. h \in A \cap (1 .. n) /\ n \in Nat /\ h # 0 /\ Revs!Commits = 1 .. n
  BY CommitsAre
<1>2. \A d \in Revs!Commits :
        FirstParentSets[d] \subseteq Revs!Parents(d) /\ FirstParentSets[d] \subseteq 1 .. d - 1
  BY ParentsAre DEF FirstParentSets
<1>3. Upwards(FirstParentSets, n)
  BY <1>1, <1>2 DEF Upwards
<1>4. \A f : f = [d \in Revs!Commits |->
                    {d} \cup (IF Revs!FirstParent(d) = 0 THEN {} ELSE f[Revs!FirstParent(d)])]
             <=> f = [d \in Revs!Commits |-> {d} \cup UNION {f[p] : p \in FirstParentSets[d]}]
  <2> SUFFICES ASSUME NEW f
               PROVE  [d \in Revs!Commits |->
                         {d} \cup (IF Revs!FirstParent(d) = 0 THEN {} ELSE f[Revs!FirstParent(d)])]
                      = [d \in Revs!Commits |-> {d} \cup UNION {f[p] : p \in FirstParentSets[d]}]
    BY Zenon
  <2>1. ASSUME NEW d \in Revs!Commits
        PROVE  {d} \cup (IF Revs!FirstParent(d) = 0 THEN {} ELSE f[Revs!FirstParent(d)])
               = {d} \cup UNION {f[p] : p \in FirstParentSets[d]}
    BY DEF FirstParentSets
  <2> QED
    BY <2>1
<1>5. PICK f : Reaches(f, FirstParentSets, n)
  BY <1>1, <1>3, ReachExists
<1>6. f = [d \in Revs!Commits |-> {d} \cup UNION {f[p] : p \in FirstParentSets[d]}]
  BY <1>1, <1>5 DEF Reaches
<1>7. LineSets = [d \in Revs!Commits |-> {d} \cup UNION {LineSets[p] : p \in FirstParentSets[d]}]
  BY <1>4, <1>6 DEF LineSets
<1> DEFINE B == A \cap (1 .. n)
           Bad == {d \in B : ~ LineSets[d] \subseteq B}
<1>8. Bad = {}
  <2> SUFFICES ASSUME Bad # {} PROVE FALSE
    OBVIOUS
  <2>1. PICK m \in Bad : \A k \in Bad : m <= k
    <3>1. Bad \subseteq Nat
      BY <1>1
    <3> HIDE DEF Bad
    <3> QED
      BY <3>1, TrieP!SmallestNat
  <2>2. \A p \in FirstParentSets[m] : p \in B /\ ~ m <= p
    BY <1>1, <1>2, <2>1
  <2>3. \A p \in FirstParentSets[m] : LineSets[p] \subseteq B
    BY <2>1, <2>2
  <2>4. LineSets[m] = {m} \cup UNION {LineSets[p] : p \in FirstParentSets[m]}
    BY <1>1, <1>7, <2>1
  <2> QED
    BY <2>1, <2>3, <2>4
<1>9. Revs!FirstParents(h) = LineSets[h]
  BY <1>1 DEF Revs!FirstParents, LineSets
<1> QED
  BY <1>1, <1>8, <1>9

(***************************************************************************)
(* What compute_mono leaves in the memo.                                   *)
(***************************************************************************)
LEMMA KnownAre ==
  ASSUME HistorySound, TablesSound
  PROVE  Known \subseteq Revs!Commits /\ 0 \notin Revs!Commits
BY CommitsAre DEF TablesSound, Known

LEMMA RevisionsAre ==
  ASSUME HistorySound, TablesSound, NEW m, MemoSound(m), NEW c \in Revs!Revs
  PROVE  /\ ~Revs!IsMerge(c) /\ ~Revs!Translated(m, Revs!FirstParent(c))
         /\ Revs!SplitRev(m, c) = c
<1>1. c \in Revs!Commits /\ c \in Nat \ {0} /\ par[c] = (IF c = 1 THEN <<>> ELSE <<c - 1>>)
        /\ id[c] = c
  BY CommitsAre DEF HistorySound
<1>2. /\ ~Revs!IsMerge(c)
      /\ Revs!FirstParent(c) = IF c = 1 THEN 0 ELSE c - 1
  <2>1. CASE c = 1
    <3>1. par[c] = <<>>
      BY <1>1, <2>1
    <3> QED
      BY <2>1, <3>1 DEF Revs!IsMerge, Revs!FirstParent
  <2>2. CASE c # 1
    <3>1. par[c] = <<c - 1>>
      BY <1>1, <2>2
    <3>2. Len(par[c]) = 1 /\ par[c][1] = c - 1 /\ par[c] # <<>>
      BY <3>1
    <3> QED
      BY <2>2, <3>2 DEF Revs!IsMerge, Revs!FirstParent
  <2> QED
    BY <2>1, <2>2
<1>3. Revs!FirstParent(c) = 0 \/ Revs!FirstParent(c) \in Revs!Revs
  BY <1>1, <1>2, CommitsAre
<1>4. /\ DOMAIN m.monos \subseteq Revs!Commits /\ DOMAIN base \subseteq Revs!Commits \ Revs!Revs
      /\ m.being \subseteq Revs!Commits \ Revs!Revs /\ m.based = DOMAIN m.monos \cap Revs!Revs
  BY KnownAre DEF MemoSound, TablesSound
<1>5. ~Revs!Translated(m, Revs!FirstParent(c))
  BY <1>3, <1>4, KnownAre DEF Revs!Translated
<1>6. Revs!SplitRev(m, c) = c
  BY <1>1, <1>2, <1>5 DEF Revs!SplitRev, MemoSound
<1> QED
  BY <1>2, <1>5, <1>6

LEMMA KnowMonoOfKnown ==
  ASSUME HistorySound, TablesSound, NEW m, MemoSound(m), NEW c \in Known
  PROVE  /\ MemoSound(Revs!KnowMono(m, c))
         /\ c \in DOMAIN Revs!KnowMono(m, c).monos
         /\ DOMAIN m.monos \subseteq DOMAIN Revs!KnowMono(m, c).monos
         /\ DOMAIN m.mono \subseteq DOMAIN Revs!KnowMono(m, c).mono
         /\ NotedSound(m) => NotedSound(Revs!KnowMono(m, c))
         /\ Revs!KnowMono(m, c).being = m.being
<1> DEFINE k == Revs!KnowMono(m, c)
<1>1. CASE c \in DOMAIN m.monos
  BY <1>1 DEF Revs!KnowMono
<1>2. CASE c \notin DOMAIN m.monos /\ c \in DOMAIN base
  <2>1. k = [m EXCEPT !.monos = Revs!Put(@, c, c)]
    BY <1>2 DEF Revs!KnowMono
  <2>2. /\ DOMAIN k = DOMAIN m /\ k.split = m.split /\ k.mono = m.mono
        /\ k.monos = Revs!Put(m.monos, c, c) /\ k.based = m.based /\ k.being = m.being
    BY <2>1 DEF MemoSound
  <2> HIDE DEF k
  <2>3. DOMAIN k.monos = DOMAIN m.monos \cup {c} /\ \A d \in DOMAIN k.monos : k.monos[d] = d
    BY <2>2 DEF MemoSound, Revs!Put
  <2>4. c \notin Revs!Revs
    BY <1>2 DEF TablesSound
  <2>5. MemoSound(k)
    BY <2>2, <2>3, <2>4 DEF MemoSound
  <2>6. NotedSound(m) => NotedSound(k)
    BY <2>2 DEF NotedSound
  <2> QED
    BY <2>2, <2>3, <2>5, <2>6 DEF k
<1>3. CASE c \notin DOMAIN m.monos /\ c \notin DOMAIN base
  <2>1. c \in Revs!Revs
    BY <1>3 DEF Known
  <2>2. ~Revs!IsMerge(c) /\ ~Revs!Translated(m, Revs!FirstParent(c)) /\ Revs!SplitRev(m, c) = c
    BY <2>1, RevisionsAre
  <2>3. c # 0 /\ c \in Revs!Commits /\ c \in 1 .. Upstream
    BY <2>1, CommitsAre
  <2>4. k = [[m EXCEPT !.split = Revs!Put(@, c, c)] EXCEPT !.monos = Revs!Put(@, c, c),
               !.based = @ \cup {c}, !.mono = Revs!Put(@, c, c)]
    BY <1>3, <2>2, <2>3 DEF Revs!KnowMono
  <2>5. /\ DOMAIN k = DOMAIN m /\ k.split = Revs!Put(m.split, c, c)
        /\ k.mono = Revs!Put(m.mono, c, c) /\ k.monos = Revs!Put(m.monos, c, c)
        /\ k.based = m.based \cup {c} /\ k.being = m.being
    BY <2>4 DEF MemoSound
  <2> HIDE DEF k
  <2>6. DOMAIN k.monos = DOMAIN m.monos \cup {c} /\ \A d \in DOMAIN k.monos : k.monos[d] = d
    BY <2>5 DEF MemoSound, Revs!Put
  <2>7. /\ DOMAIN k.split = DOMAIN m.split \cup {c}
        /\ \A d \in DOMAIN k.split : k.split[d] = IF d \in Revs!Revs THEN d ELSE 0
    BY <2>1, <2>5 DEF MemoSound, Revs!Put
  <2>8. /\ DOMAIN k.mono = DOMAIN m.mono \cup {c}
        /\ \A d \in DOMAIN k.mono : k.mono[d] \in -Upstream .. Upstream
    <3>1. c \in -Upstream .. Upstream
      BY <2>3, CommitsAre
    <3>2. DOMAIN k.mono = DOMAIN m.mono \cup {c}
      BY <2>5 DEF Revs!Put
    <3>3. k.mono[c] = c /\ \A d \in DOMAIN m.mono : d # c => k.mono[d] = m.mono[d]
      BY <2>5 DEF Revs!Put
    <3> QED
      BY <3>1, <3>2, <3>3 DEF MemoSound
  <2>9. MemoSound(k)
    BY <2>1, <2>3, <2>5, <2>6, <2>7, <2>8 DEF MemoSound
  <2>10. NotedSound(m) => NotedSound(k)
    <3>1. \A d \in DOMAIN k.mono : k.mono[d] = IF d = c THEN c ELSE m.mono[d]
      BY <2>5 DEF Revs!Put
    <3> QED
      BY <2>1, <2>5, <2>8, <3>1 DEF NotedSound
  <2> QED
    BY <2>5, <2>6, <2>8, <2>9, <2>10 DEF k
<1> QED
  BY <1>1, <1>2, <1>3

\* A downstream commit whose first parent is translated is not taken for a
\* revision, whatever its message says.
LEMMA KnowMonoOfOther ==
  ASSUME HistorySound, TablesSound, NEW m, MemoSound(m), NEW c \in Revs!Commits \ Known,
         id[c] # 0 => Revs!Translated(m, Revs!FirstParent(c))
  PROVE  /\ MemoSound(Revs!KnowMono(m, c))
         /\ c \notin DOMAIN Revs!KnowMono(m, c).monos
         /\ Revs!KnowMono(m, c).being = m.being
         /\ NotedSound(m) => NotedSound(Revs!KnowMono(m, c))
<1> DEFINE k == Revs!KnowMono(m, c)
<1>1. c \notin DOMAIN m.monos /\ c \notin DOMAIN base /\ c \notin Revs!Revs
  BY DEF MemoSound, Known
<1>2. Revs!SplitRev(m, c) = 0
  BY <1>1 DEF Revs!SplitRev, MemoSound
<1>3. k = IF Revs!IsMerge(c) \/ Revs!Translated(m, Revs!FirstParent(c)) THEN m
          ELSE [m EXCEPT !.split = Revs!Put(@, c, 0)]
  BY <1>1, <1>2 DEF Revs!KnowMono
<1>4. CASE k = m
  BY <1>1, <1>4
<1>5. CASE k = [m EXCEPT !.split = Revs!Put(@, c, 0)]
  <2>1. /\ DOMAIN k = DOMAIN m /\ k.split = Revs!Put(m.split, c, 0)
        /\ k.mono = m.mono /\ k.monos = m.monos /\ k.based = m.based /\ k.being = m.being
    BY <1>5 DEF MemoSound
  <2> HIDE DEF k
  <2>2. /\ DOMAIN k.split = DOMAIN m.split \cup {c}
        /\ \A d \in DOMAIN k.split : k.split[d] = IF d \in Revs!Revs THEN d ELSE 0
    BY <1>1, <2>1 DEF MemoSound, Revs!Put
  <2>3. MemoSound(k)
    BY <2>1, <2>2 DEF MemoSound
  <2>4. NotedSound(m) => NotedSound(k)
    BY <2>1 DEF NotedSound
  <2> QED
    BY <1>1, <2>1, <2>3, <2>4 DEF k
<1> QED
  BY <1>3, <1>4, <1>5

LEMMA MinIs ==
  ASSUME NEW S \in SUBSET Nat, S # {}
  PROVE  Revs!Min(S) \in S /\ \A x \in S : Revs!Min(S) <= x
BY TrieP!SmallestNat DEF Revs!Min

LEMMA MaxIs ==
  ASSUME NEW n \in Nat, NEW S \in SUBSET (0 .. n), S # {}
  PROVE  Revs!Max(S) \in S /\ \A x \in S : Revs!Max(S) >= x
<1> DEFINE T == {n - x : x \in S}
<1>0. \A x \in 0 .. n : n - x \in Nat /\ x \in Nat /\ x <= n
  OBVIOUS
<1>1. T \subseteq Nat /\ T # {}
  BY <1>0
<1>2. PICK t \in T : \A u \in T : t <= u
  BY <1>1, TrieP!SmallestNat
<1>3. PICK x \in S : t = n - x
  BY <1>2
<1>4. \A y \in S : n - y \in T /\ y \in 0 .. n
  OBVIOUS
<1>5. \A y \in S : n - x <= n - y
  BY <1>2, <1>3, <1>4
<1>6. \A a, b \in 0 .. n : n - a <= n - b => a >= b
  OBVIOUS
<1>7. \A y \in S : x >= y
  BY <1>4, <1>5, <1>6
<1> QED
  BY <1>3, <1>7 DEF Revs!Max

\* The monorepo commits of at most two commits that have one.
LEMMA KnowMonosOf ==
  ASSUME HistorySound, TablesSound, NEW m, MemoSound(m),
         NEW cs \in Seq(Known), Len(cs) \in 0 .. 2
  PROVE  /\ MemoSound(Revs!KnowMonos(m, cs))
         /\ \A i \in 1 .. Len(cs) : cs[i] \in DOMAIN Revs!KnowMonos(m, cs).monos
         /\ Revs!KnowMonos(m, cs).being = m.being
         /\ DOMAIN m.mono \subseteq DOMAIN Revs!KnowMonos(m, cs).mono
         /\ NotedSound(m) => NotedSound(Revs!KnowMonos(m, cs))
<1> DEFINE I == 0 .. Len(cs)
           first == Revs!KnowMono(m, cs[1])
           second == Revs!KnowMono(first, cs[2])
           w == [i \in I |-> IF i = 0 THEN m ELSE IF i = 1 THEN first ELSE second]
           f == CHOOSE g : g = [i \in I |-> IF i = 0 THEN m ELSE Revs!KnowMono(g[i - 1], cs[i])]
<1>1. w = [i \in I |-> IF i = 0 THEN m ELSE Revs!KnowMono(w[i - 1], cs[i])]
  <2>1. ASSUME NEW i \in I
        PROVE  w[i] = IF i = 0 THEN m ELSE Revs!KnowMono(w[i - 1], cs[i])
    <3>1. i \in {0, 1, 2}
      <4>1. \A n \in 0 .. 2 : \A j \in 0 .. n : j \in {0, 1, 2}
        OBVIOUS
      <4> HIDE DEF w, f
      <4> QED
        BY <4>1
    <3>2. i = 1 => w[i - 1] = m
      OBVIOUS
    <3>3. i = 2 => w[i - 1] = first
      OBVIOUS
    <3> HIDE DEF first, second
    <3>4. CASE i = 0
      BY <3>4
    <3>5. CASE i = 1
      BY <3>2, <3>5 DEF first
    <3>6. CASE i = 2
      BY <3>3, <3>6 DEF second
    <3> QED
      BY <3>1, <3>4, <3>5, <3>6
  <2> HIDE DEF first, second
  <2> QED
    BY <2>1
<1>2. f = [i \in I |-> IF i = 0 THEN m ELSE Revs!KnowMono(f[i - 1], cs[i])]
  <2> HIDE DEF w
  <2> QED
    BY <1>1
<1>3. Revs!KnowMonos(m, cs) = f[Len(cs)]
  BY DEF Revs!KnowMonos
<1> HIDE DEF f
<1>4. f[0] = m
  BY <1>2
<1>5. \A i \in 1 .. Len(cs) : f[i] = Revs!KnowMono(f[i - 1], cs[i])
  BY <1>2
<1>6. \A i \in 1 .. Len(cs) : cs[i] \in Known
  OBVIOUS
<1>7. CASE Len(cs) = 0
  BY <1>3, <1>4, <1>7
<1>8. ASSUME Len(cs) # 0
      PROVE  /\ MemoSound(f[1]) /\ cs[1] \in DOMAIN f[1].monos /\ f[1].being = m.being
             /\ DOMAIN m.mono \subseteq DOMAIN f[1].mono
             /\ NotedSound(m) => NotedSound(f[1])
  <2>1. f[1] = Revs!KnowMono(m, cs[1]) /\ cs[1] \in Known
    BY <1>4, <1>5, <1>6, <1>8
  <2> QED
    BY <2>1, KnowMonoOfKnown
<1>9. CASE Len(cs) = 1
  BY <1>3, <1>8, <1>9
<1>10. CASE Len(cs) = 2
  <2>1. f[2] = Revs!KnowMono(f[1], cs[2]) /\ cs[2] \in Known
    BY <1>5, <1>6, <1>10
  <2>2. /\ MemoSound(f[2]) /\ cs[2] \in DOMAIN f[2].monos /\ f[2].being = m.being
        /\ DOMAIN f[1].monos \subseteq DOMAIN f[2].monos
        /\ DOMAIN f[1].mono \subseteq DOMAIN f[2].mono
        /\ NotedSound(f[1]) => NotedSound(f[2])
    BY <1>8, <1>10, <2>1, KnowMonoOfKnown
  <2> QED
    BY <1>3, <1>8, <1>10, <2>2
<1> QED
  BY <1>7, <1>9, <1>10

\* A set that has the parents of its members has their ancestors.
LEMMA KnownClosed ==
  ASSUME HistorySound, TablesSound, NEW c \in Known
  PROVE  Revs!Parents(c) \subseteq Known
<1>1. CASE c \in Revs!Revs
  <2>1. Revs!Parents(c) \subseteq 1 .. c - 1 /\ c \in 1 .. Upstream
    BY <1>1, CommitsAre, ParentsAre
  <2>2. Revs!Parents(c) \subseteq Revs!Revs
    BY <2>1, CommitsAre
  <2> QED
    BY <2>2 DEF Known
<1>2. CASE c \in DOMAIN base
  BY <1>2 DEF TablesSound
<1> QED
  BY <1>1, <1>2 DEF Known

LEMMA TipsKnown ==
  ASSUME HistorySound, TablesSound, NEW b \in Branch
  PROVE  Revs!Ancestors(tip[b]) \subseteq Known
<1>1. CASE tip[b] = 0
  BY <1>1 DEF Revs!Ancestors
<1>2. CASE tip[b] # 0
  <2>1. tip[b] \in Known \cap Revs!Commits
    BY <1>2, KnownAre DEF TablesSound
  <2> QED
    BY <2>1, KnownClosed, AncestorsWithin
<1> QED
  BY <1>1, <1>2

(***************************************************************************)
(* Each step keeps the invariant.                                          *)
(***************************************************************************)
LEMMA RevsInit == Revs!Init => RevsInv
<1> SUFFICES ASSUME Revs!Init PROVE RevsInv
  OBVIOUS
<1> USE DEF Revs!Init
<1>1. Upstream \in Nat \ {0} /\ MaxRuns \in Nat
  BY PartsAssumption DEF Revs!RevsAssumption
<1>2. HistorySound
  <2>1. par \in Seq(Seq(Nat)) /\ Len(par) = Upstream
    <3>1. \A c \in 1 .. Upstream : (IF c = 1 THEN <<>> ELSE <<c - 1>>) \in Seq(Nat)
      OBVIOUS
    <3> QED
      BY <1>1, <3>1 DEF Revs!Revs
  <2>2. id \in Seq({0} \cup Revs!Revs) /\ Len(id) = Upstream
    BY <1>1 DEF Revs!Revs
  <2>3. Revs!Commits = Revs!Revs
    BY <2>1 DEF Revs!Commits, Revs!Revs
  <2>4. \A c \in Revs!Revs : par[c] = (IF c = 1 THEN <<>> ELSE <<c - 1>>) /\ id[c] = c
    OBVIOUS
  <2> QED
    BY <1>1, <2>1, <2>2, <2>3, <2>4 DEF HistorySound
<1>3. DOMAIN base = {} /\ DOMAIN content = {} /\ Known = Revs!Revs
  BY DEF Revs!Empty, Known
<1>4. TablesSound
  BY <1>3 DEF TablesSound
<1>5. MemoSound(memo)
  BY DEF MemoSound, Revs!NoMemo, Revs!Empty
<1>6. RevRunSound
  BY DEF RevRunSound, Revs!NoRun
<1>7. FirstRunSound
  BY <1>3 DEF FirstRunSound, NotedSound, Revs!NoRun, Revs!NoMemo, Revs!Empty
<1> QED
  BY <1>1, <1>2, <1>4, <1>5, <1>6, <1>7 DEF RevsInv

LEMMA RevsCommit == ASSUME RevsInv, Revs!Commit PROVE RevsInv'
<1>1. /\ HistorySound /\ TablesSound /\ MemoSound(memo) /\ RevRunSound /\ runs \in 0 .. MaxRuns
      /\ revRun.at = "none"
      /\ UNCHANGED <<tip, base, content, revRun, memo, runs>>
  BY DEF RevsInv, Revs!Commit, Revs!tables
<1> DEFINE n == Len(par)
<1>2. PICK ps, r :
        /\ par' = Append(par, ps) /\ id' = Append(id, r)
        /\ ps \in Seq(Revs!Commits) /\ Len(ps) \in {1, 2}
        /\ r \in {0} \cup Revs!Revs
        /\ r # 0 => Len(ps) = 1 /\ ps[1] \notin Revs!Revs
  <2>1. CASE \E p \in Revs!Commits : par' = Append(par, <<p>>) /\ id' = Append(id, 0)
    <3>1. PICK p \in Revs!Commits : par' = Append(par, <<p>>) /\ id' = Append(id, 0)
      BY <2>1
    <3>2. <<p>> \in Seq(Revs!Commits) /\ Len(<<p>>) = 1
      OBVIOUS
    <3> QED
      BY <3>1, <3>2
  <2>2. CASE \E p \in Revs!Commits : \E q \in Revs!Commits \ Revs!Ancestors(p) :
               par' = Append(par, <<p, q>>) /\ id' = Append(id, 0)
    <3>1. PICK p \in Revs!Commits, q \in Revs!Commits :
            par' = Append(par, <<p, q>>) /\ id' = Append(id, 0)
      BY <2>2
    <3>2. <<p, q>> \in Seq(Revs!Commits) /\ Len(<<p, q>>) = 2
      OBVIOUS
    <3> QED
      BY <3>1, <3>2
  <2>3. CASE \E p \in Revs!Commits \ Revs!Revs, r \in Revs!Revs :
               par' = Append(par, <<p>>) /\ id' = Append(id, r)
    <3>1. PICK p \in Revs!Commits \ Revs!Revs, r \in Revs!Revs :
            par' = Append(par, <<p>>) /\ id' = Append(id, r)
      BY <2>3
    <3>2. <<p>> \in Seq(Revs!Commits) /\ Len(<<p>>) = 1 /\ <<p>>[1] = p
      OBVIOUS
    <3> QED
      BY <3>1, <3>2
  <2> QED
    BY <2>1, <2>2, <2>3 DEF Revs!Commit
<1>3. /\ n \in Nat /\ Revs!Commits = 1 .. n /\ Revs!Revs \subseteq Revs!Commits
      /\ Upstream \in Nat /\ Revs!Revs = 1 .. Upstream
  BY <1>1, CommitsAre
<1>4. /\ par \in Seq(Seq(Nat)) /\ id \in Seq({0} \cup Revs!Revs) /\ Len(id) = n /\ Upstream <= n
      /\ ps \in Seq(Nat)
  BY <1>1, <1>2, <1>3 DEF HistorySound
<1>5. /\ par' \in Seq(Seq(Nat)) /\ Len(par') = n + 1 /\ par'[n + 1] = ps
      /\ \A c \in 1 .. n : par'[c] = par[c]
  BY <1>2, <1>3, <1>4
<1>6. /\ id' \in Seq({0} \cup Revs!Revs) /\ Len(id') = n + 1 /\ id'[n + 1] = r
      /\ \A c \in 1 .. n : id'[c] = id[c]
  BY <1>2, <1>3, <1>4
<1>7. /\ Revs!Commits' = Revs!Commits \cup {n + 1} /\ n + 1 \notin Revs!Commits
      /\ Revs!Revs' = Revs!Revs
  BY <1>3, <1>5 DEF Revs!Commits, Revs!Revs
<1>8. HistorySound'
  <2>1. \A c \in Revs!Revs :
          par'[c] = (IF c = 1 THEN <<>> ELSE <<c - 1>>) /\ id'[c] = c
    BY <1>1, <1>3, <1>5, <1>6 DEF HistorySound
  <2>2. ASSUME NEW c \in Revs!Commits \ Revs!Revs
        PROVE  /\ Len(par'[c]) \in {1, 2}
               /\ \A i \in 1 .. Len(par'[c]) : par'[c][i] \in 1 .. c - 1
               /\ id'[c] # 0 => Len(par'[c]) = 1 /\ par'[c][1] \notin Revs!Revs
    <3>1. par'[c] = par[c] /\ id'[c] = id[c]
      BY <1>3, <1>5, <1>6
    <3> QED
      BY <1>1, <3>1 DEF HistorySound
  <2>3. /\ Len(par'[n + 1]) \in {1, 2}
        /\ \A i \in 1 .. Len(par'[n + 1]) : par'[n + 1][i] \in 1 .. (n + 1) - 1
        /\ id'[n + 1] # 0 => Len(par'[n + 1]) = 1 /\ par'[n + 1][1] \notin Revs!Revs
    <3>1. (n + 1) - 1 = n
      BY <1>3
    <3> QED
      BY <1>2, <1>3, <1>5, <1>6, <3>1
  <2>4. Upstream <= n + 1
    BY <1>3, <1>4
  <2> QED
    BY <1>5, <1>6, <1>7, <2>1, <2>2, <2>3, <2>4 DEF HistorySound
<1>9. Known' = Known
  BY <1>1, <1>7 DEF Known
<1>10. TablesSound'
  <2>1. ASSUME NEW c \in DOMAIN base PROVE Revs!Parents(c)' = Revs!Parents(c)
    <3>1. c \in 1 .. n
      BY <1>1, <1>3 DEF TablesSound
    <3>2. par'[c] = par[c]
      BY <1>5, <3>1
    <3> QED
      BY <3>2 DEF Revs!Parents
  <2> QED
    BY <1>1, <1>7, <1>9, <2>1 DEF TablesSound
<1>11. MemoSound(memo)'
  BY <1>1, <1>3, <1>7, <1>9 DEF MemoSound
<1>12. RevRunSound'
  <2>1. revRun.listed = {} /\ revRun.todo = {}
    BY <1>1 DEF RevRunSound
  <2> QED
    BY <1>1, <1>7, <2>1 DEF RevRunSound
<1>13. ASSUME runs <= 1 PROVE FirstRunSound'
  <2>1. FirstRunSound
    BY <1>13 DEF RevsInv
  <2>2. ASSUME NEW c \in DOMAIN base PROVE BaseFromParents(c)'
    <3>1. c \in 1 .. n
      BY <1>1, <1>3 DEF TablesSound
    <3>2. par'[c] = par[c]
      BY <1>5, <3>1
    <3> QED
      BY <1>1, <1>7, <2>1, <3>2 DEF FirstRunSound, BaseFromParents, RevOf
  <2> QED
    BY <1>1, <1>7, <1>9, <2>1, <2>2 DEF FirstRunSound, NotedSound
<1> QED
  BY <1>1, <1>8, <1>10, <1>11, <1>12, <1>13 DEF RevsInv

\* Steps that leave the history and the tables as they are.
LEMMA SameHistory ==
  ASSUME RevsInv, UNCHANGED <<par, id, base, content>>
  PROVE  /\ HistorySound' /\ Known' = Known /\ Revs!Commits' = Revs!Commits
         /\ Revs!Revs' = Revs!Revs /\ \A c : Revs!Parents(c)' = Revs!Parents(c)
         /\ tip' \in [Branch -> {0} \cup Known] => TablesSound'
         /\ \A c : BaseFromParents(c)' <=> BaseFromParents(c)
<1>1. Known' = Known /\ Revs!Commits' = Revs!Commits /\ Revs!Revs' = Revs!Revs
  BY DEF Known, Revs!Commits, Revs!Revs
<1>2. \A c : Revs!Parents(c)' = Revs!Parents(c)
  BY DEF Revs!Parents
<1>3. HistorySound'
  BY <1>1 DEF RevsInv, HistorySound
<1>4. tip' \in [Branch -> {0} \cup Known] => TablesSound'
  BY <1>1, <1>2 DEF RevsInv, TablesSound
<1>5. \A c : BaseFromParents(c)' <=> BaseFromParents(c)
  BY <1>1 DEF BaseFromParents, RevOf
<1> QED
  BY <1>1, <1>2, <1>3, <1>4, <1>5

LEMMA RevsStart == ASSUME RevsInv, Revs!Start PROVE RevsInv'
<1>1. /\ HistorySound /\ TablesSound /\ MemoSound(memo) /\ RevRunSound /\ runs \in 0 .. MaxRuns
      /\ UNCHANGED <<par, id, tip, base, content, memo>>
      /\ revRun.at = "none" /\ runs < MaxRuns /\ runs' = runs + 1
  BY DEF RevsInv, Revs!Start, Revs!tables, Revs!history
<1>2. PICK b \in Branch, g \in Revs!Commits :
        revRun' = [at |-> "list", branch |-> b, goal |-> g, todo |-> {},
                   listed |-> Revs!Ancestors(g) \ UNION {Revs!Ancestors(tip[o]) : o \in Branch}]
  BY DEF Revs!Start
<1>3. /\ HistorySound' /\ Known' = Known /\ Revs!Commits' = Revs!Commits
      /\ Revs!Revs' = Revs!Revs /\ \A c : Revs!Parents(c)' = Revs!Parents(c)
      /\ TablesSound'
  BY <1>1, SameHistory DEF TablesSound
<1>4. MemoSound(memo)'
  BY <1>1, <1>3 DEF MemoSound
<1>5. UNION {Revs!Ancestors(tip[o]) : o \in Branch} \subseteq Known
  BY <1>1, TipsKnown
<1>6. /\ g \in Revs!Ancestors(g) /\ Revs!Ancestors(g) \subseteq Revs!Commits
      /\ \A c \in Revs!Ancestors(g) : Revs!Parents(c) \subseteq Revs!Ancestors(g)
  BY <1>1, AncestorsAre
<1>7. /\ revRun'.at = "list" /\ revRun'.todo = {} /\ revRun'.goal = g
      /\ revRun'.listed \subseteq Revs!Ancestors(g)
      /\ Revs!Ancestors(g) \subseteq Known \cup revRun'.listed
  BY <1>2, <1>5
<1>8. revRun' \in [at : {"none", "list", "translate"}, branch : Branch \cup {"none"},
                   goal : {0} \cup Revs!Commits,
                   listed : SUBSET Revs!Commits, todo : SUBSET Revs!Commits]
  BY <1>2, <1>6
<1>9. Pending' = Known \cup revRun'.listed
  BY <1>3, <1>7 DEF Pending
<1>10. RevRunSound'
  BY <1>3, <1>6, <1>7, <1>8, <1>9 DEF RevRunSound
<1>11. runs' \in 0 .. MaxRuns
  BY <1>1, PartsAssumption DEF Revs!RevsAssumption
<1>12. ASSUME runs' <= 1 PROVE FirstRunSound'
  <2>1. runs = 0
    BY <1>1, <1>12
  <2>2. FirstRunSound
    BY <2>1 DEF RevsInv
  <2>3. DOMAIN base = {} /\ NotedSound(memo) /\ base' = base /\ memo' = memo
    BY <1>1, <2>1, <2>2 DEF FirstRunSound
  <2>4. NotedSound(memo)'
    BY <1>3, <2>3 DEF NotedSound
  <2>5. runs' # 0 /\ revRun'.at = "list"
    BY <1>1, <1>7, <2>1
  <2> QED
    BY <2>3, <2>4, <2>5 DEF FirstRunSound
<1> QED
  BY <1>3, <1>4, <1>10, <1>11, <1>12 DEF RevsInv

LEMMA RevsList == ASSUME RevsInv, Revs!List PROVE RevsInv'
<1> DEFINE c == Revs!Min(revRun.listed)
           m == Revs!KnowMono(memo, c)
           skip == c \in DOMAIN m.monos
<1>1. /\ HistorySound /\ TablesSound /\ MemoSound(memo) /\ RevRunSound /\ runs \in 0 .. MaxRuns
      /\ UNCHANGED <<par, id, tip, base, content, runs>>
      /\ revRun.at = "list" /\ revRun.listed # {}
      /\ memo' = (IF skip THEN m ELSE [m EXCEPT !.being = @ \cup {c}])
      /\ revRun' = [revRun EXCEPT !.listed = @ \ {c},
                                  !.todo = IF skip THEN @ ELSE @ \cup {c}]
  BY DEF RevsInv, Revs!List, Revs!tables, Revs!history
<1>2. /\ HistorySound' /\ Known' = Known /\ Revs!Commits' = Revs!Commits
      /\ Revs!Revs' = Revs!Revs /\ \A d : Revs!Parents(d)' = Revs!Parents(d)
      /\ TablesSound'
  BY <1>1, SameHistory DEF TablesSound
<1>3. Revs!Commits \subseteq Nat
  BY <1>1, CommitsAre
<1>4. c \in revRun.listed /\ c \in Revs!Commits /\ \A d \in revRun.listed : c <= d
  BY <1>1, <1>3, MinIs DEF RevRunSound
<1>s. \A d : BaseFromParents(d)' <=> BaseFromParents(d)
  BY <1>1, SameHistory
<1> HIDE DEF c, m, skip
<1>5. CASE c \in Known
  <2>1. /\ MemoSound(m) /\ skip /\ m.being = memo.being
        /\ NotedSound(memo) => NotedSound(m)
    BY <1>1, <1>5, KnowMonoOfKnown DEF m, skip
  <2>2. memo' = m /\ revRun' = [revRun EXCEPT !.listed = @ \ {c}]
    BY <1>1, <2>1
  <2>3. MemoSound(memo)'
    BY <1>2, <2>1, <2>2 DEF MemoSound
  <2>4. /\ revRun'.listed = revRun.listed \ {c} /\ revRun'.todo = revRun.todo
        /\ revRun'.at = "list" /\ revRun'.goal = revRun.goal
    BY <1>1, <2>2 DEF RevRunSound
  <2>5. Pending' = Pending
    BY <1>2, <1>5, <2>4 DEF Pending
  <2>6. revRun' \in [at : {"none", "list", "translate"}, branch : Branch \cup {"none"},
                     goal : {0} \cup Revs!Commits,
                     listed : SUBSET Revs!Commits, todo : SUBSET Revs!Commits]
    BY <1>1, <2>2 DEF RevRunSound
  <2>7. RevRunSound'
    BY <1>1, <1>2, <2>1, <2>2, <2>4, <2>5, <2>6 DEF RevRunSound
  <2>8. ASSUME runs <= 1 PROVE FirstRunSound'
    <3>1. FirstRunSound /\ NotedSound(m) /\ memo' = m
      BY <2>1, <2>2, <2>8 DEF RevsInv, FirstRunSound
    <3>2. NotedSound(memo)'
      BY <1>1, <1>2, <3>1 DEF NotedSound
    <3> QED
      BY <1>1, <1>s, <2>4, <3>1, <3>2 DEF FirstRunSound
  <2> QED
    BY <1>1, <1>2, <2>3, <2>7, <2>8 DEF RevsInv
<1>6. CASE c \notin Known
  <2>1. c \notin Revs!Revs
    BY <1>6 DEF Known
  <2>2. ASSUME id[c] # 0 PROVE Revs!Translated(memo, Revs!FirstParent(c))
    <3>1. Len(par[c]) = 1 /\ par[c][1] \notin Revs!Revs
      BY <1>1, <1>4, <2>1, <2>2 DEF HistorySound
    <3> DEFINE p == par[c][1]
    <3>2. /\ Revs!FirstParent(c) = p /\ p \in Revs!Parents(c)
          /\ Revs!Parents(c) \subseteq 1 .. c - 1
      BY <1>1, <1>4, <3>1, ParentsAre
    <3>3. p \in Pending
      BY <1>1, <1>4, <3>2 DEF RevRunSound
    <3>4. p \notin revRun.listed
      BY <1>3, <1>4, <3>2
    <3>5. p \in DOMAIN base \/ p \in memo.being
      BY <1>1, <3>1, <3>3, <3>4 DEF Pending, Known, RevRunSound
    <3>6. p \notin memo.based
      BY <1>1, <3>1 DEF MemoSound
    <3> QED
      BY <3>2, <3>5, <3>6 DEF Revs!Translated
  <2>3. /\ MemoSound(m) /\ ~skip /\ m.being = memo.being
        /\ NotedSound(memo) => NotedSound(m)
    BY <1>1, <1>4, <1>6, <2>2, KnowMonoOfOther DEF m, skip
  <2>4. /\ memo' = [m EXCEPT !.being = @ \cup {c}]
        /\ revRun' = [revRun EXCEPT !.listed = @ \ {c}, !.todo = @ \cup {c}]
    BY <1>1, <2>3
  <2>5. /\ DOMAIN memo' = DOMAIN m /\ memo'.split = m.split /\ memo'.mono = m.mono
        /\ memo'.monos = m.monos /\ memo'.based = m.based
        /\ memo'.being = memo.being \cup {c}
    BY <2>3, <2>4 DEF MemoSound
  <2>6. MemoSound(memo)'
    BY <1>2, <1>4, <2>1, <2>3, <2>5 DEF MemoSound
  <2>7. /\ revRun'.listed = revRun.listed \ {c} /\ revRun'.todo = revRun.todo \cup {c}
        /\ revRun'.at = "list" /\ revRun'.goal = revRun.goal
    BY <1>1, <2>4 DEF RevRunSound
  <2>8. Pending' = Pending
    BY <1>2, <1>4, <2>7 DEF Pending
  <2>9. revRun' \in [at : {"none", "list", "translate"}, branch : Branch \cup {"none"},
                     goal : {0} \cup Revs!Commits,
                     listed : SUBSET Revs!Commits, todo : SUBSET Revs!Commits]
    <3>1. revRun.listed \ {c} \subseteq Revs!Commits /\ revRun.todo \cup {c} \subseteq Revs!Commits
      BY <1>1, <1>4 DEF RevRunSound
    <3>2. revRun' = [at |-> revRun.at, branch |-> revRun.branch, goal |-> revRun.goal,
                     listed |-> revRun.listed \ {c}, todo |-> revRun.todo \cup {c}]
      BY <1>1, <2>4 DEF RevRunSound
    <3> QED
      BY <1>1, <3>1, <3>2 DEF RevRunSound
  <2>10. RevRunSound'
    BY <1>1, <1>2, <1>4, <1>6, <2>5, <2>7, <2>8, <2>9 DEF RevRunSound, Known
  <2>11. ASSUME runs <= 1 PROVE FirstRunSound'
    <3>1. FirstRunSound /\ NotedSound(m)
      BY <2>3, <2>11 DEF RevsInv, FirstRunSound
    <3>2. NotedSound(memo)'
      BY <1>1, <1>2, <2>5, <3>1 DEF NotedSound
    <3> QED
      BY <1>1, <1>s, <2>7, <3>1, <3>2 DEF FirstRunSound
  <2> QED
    BY <1>1, <1>2, <2>6, <2>10, <2>11 DEF RevsInv
<1> QED
  BY <1>5, <1>6

LEMMA RevsFindHead == ASSUME RevsInv, Revs!FindHead PROVE RevsInv'
<1> DEFINE heads == Revs!FirstParents(revRun.goal) \ memo.being
           h == Revs!Max(heads)
           m == Revs!KnowMono(memo, h)
           head == m.monos[h]
<1>1. /\ HistorySound /\ TablesSound /\ MemoSound(memo) /\ RevRunSound /\ runs \in 0 .. MaxRuns
      /\ UNCHANGED <<par, id, tip, base, content, runs>>
      /\ revRun.at = "list" /\ revRun.listed = {}
      /\ memo' = (IF heads = {} THEN memo
                  ELSE [m EXCEPT !.mono = Revs!Put(@, head, Revs!MonoRev(m, head))])
      /\ revRun' = [revRun EXCEPT !.at = "translate"]
  BY DEF RevsInv, Revs!FindHead, Revs!tables, Revs!history
<1>2. /\ HistorySound' /\ Known' = Known /\ Revs!Commits' = Revs!Commits
      /\ Revs!Revs' = Revs!Revs /\ \A d : Revs!Parents(d)' = Revs!Parents(d)
      /\ TablesSound'
  BY <1>1, SameHistory DEF TablesSound
<1>s. \A d : BaseFromParents(d)' <=> BaseFromParents(d)
  BY <1>1, SameHistory
<1> HIDE DEF heads, h, m, head
<1>3. /\ revRun'.listed = revRun.listed /\ revRun'.todo = revRun.todo
      /\ revRun'.at = "translate" /\ revRun'.goal = revRun.goal /\ Pending' = Pending
      /\ revRun' \in [at : {"none", "list", "translate"}, branch : Branch \cup {"none"},
                      goal : {0} \cup Revs!Commits,
                      listed : SUBSET Revs!Commits, todo : SUBSET Revs!Commits]
  BY <1>1, <1>2 DEF RevRunSound, Pending
<1>4. /\ MemoSound(memo)' /\ memo'.being = memo.being
      /\ DOMAIN base = {} /\ NotedSound(memo) => NotedSound(memo)'
  <2>1. CASE heads = {}
    BY <1>1, <1>2, <2>1 DEF MemoSound, NotedSound
  <2>2. CASE heads # {}
    <3>1. \A d \in Pending \cap Revs!Commits : Revs!Parents(d) \subseteq Pending
      BY <1>1, KnownClosed DEF RevRunSound, Pending
    <3>2. revRun.goal \in Pending \cap Revs!Commits
      BY <1>1, KnownAre DEF RevRunSound, Pending
    <3>3. heads \subseteq Known
      <4>1. Revs!FirstParents(revRun.goal) \subseteq Pending
        BY <1>1, <3>1, <3>2, FirstParentsWithin
      <4> QED
        BY <1>1, <4>1 DEF heads, RevRunSound, Pending
    <3>4. heads \subseteq 0 .. Len(par) /\ Len(par) \in Nat
      BY <1>1, <3>3, CommitsAre, KnownAre
    <3>5. h \in Known
      BY <2>2, <3>3, <3>4, MaxIs DEF h
    <3>6. /\ MemoSound(m) /\ h \in DOMAIN m.monos /\ m.being = memo.being
          /\ NotedSound(memo) => NotedSound(m)
      BY <1>1, <3>5, KnowMonoOfKnown DEF m
    <3>7. head = h /\ h \in Revs!Commits
      BY <1>1, <3>5, <3>6, KnownAre DEF head, MemoSound
    <3> DEFINE r == Revs!MonoRev(m, head)
    <3>8. r \in -Upstream .. Upstream
      <4>1. CASE h \in DOMAIN m.mono
        BY <3>6, <3>7, <4>1 DEF Revs!MonoRev, MemoSound
      <4>2. CASE h \notin DOMAIN m.mono /\ h \in DOMAIN base
        <5>1. r = base[h] /\ base[h] \in Int /\ -base[h] \in 0 .. Upstream /\ Upstream \in Nat
          BY <1>1, <3>7, <4>2, CommitsAre DEF Revs!MonoRev, TablesSound
        <5>2. \A n \in Nat, b \in Int : -b \in 0 .. n => b \in -n .. n
          OBVIOUS
        <5> HIDE DEF r
        <5> QED
          BY <5>1, <5>2
      <4>3. CASE h \notin DOMAIN m.mono /\ h \notin DOMAIN base
        <5>1. r = h /\ h \in 1 .. Upstream /\ Upstream \in Nat
          BY <1>1, <3>5, <3>7, <4>3, CommitsAre DEF Revs!MonoRev, Known
        <5>2. \A n \in Nat : \A b \in 1 .. n : b \in -n .. n
          OBVIOUS
        <5> HIDE DEF r
        <5> QED
          BY <5>1, <5>2
      <4> QED
        BY <4>1, <4>2, <4>3
    <3>9. ASSUME DOMAIN base = {}, NotedSound(memo) PROVE r = h
      <4>1. h \in Revs!Revs
        BY <3>5, <3>9 DEF Known
      <4> QED
        BY <3>6, <3>7, <3>9, <4>1 DEF NotedSound, Revs!MonoRev
    <3>10. memo' = [m EXCEPT !.mono = Revs!Put(@, h, r)]
      BY <1>1, <2>2, <3>7
    <3> HIDE DEF r
    <3>11. /\ DOMAIN memo' = DOMAIN m /\ memo'.split = m.split
           /\ memo'.mono = Revs!Put(m.mono, h, r)
           /\ memo'.monos = m.monos /\ memo'.based = m.based /\ memo'.being = m.being
      BY <3>6, <3>10 DEF MemoSound
    <3>12. /\ DOMAIN memo'.mono = DOMAIN m.mono \cup {h}
           /\ \A d \in DOMAIN memo'.mono : memo'.mono[d] \in -Upstream .. Upstream
      BY <3>6, <3>8, <3>11 DEF MemoSound, Revs!Put
    <3>13. MemoSound(memo)'
      BY <1>2, <3>6, <3>7, <3>11, <3>12 DEF MemoSound
    <3>14. ASSUME DOMAIN base = {}, NotedSound(memo) PROVE NotedSound(memo)'
      <4>1. h \in Revs!Revs
        BY <3>5, <3>14 DEF Known
      <4>2. \A d \in DOMAIN memo'.mono : memo'.mono[d] = IF d = h THEN h ELSE m.mono[d]
        BY <3>11, <3>9, <3>14 DEF Revs!Put
      <4> QED
        BY <1>1, <1>2, <3>5, <3>6, <3>11, <3>12, <3>14, <4>1, <4>2 DEF NotedSound
    <3> QED
      BY <3>6, <3>11, <3>13, <3>14
  <2> QED
    BY <2>1, <2>2
<1>5. RevRunSound'
  BY <1>1, <1>2, <1>3, <1>4 DEF RevRunSound
<1>6. ASSUME runs <= 1 PROVE FirstRunSound'
  <2>1. FirstRunSound /\ DOMAIN base = {}
    BY <1>1, <1>6 DEF RevsInv, FirstRunSound
  <2>2. NotedSound(memo)' /\ DOMAIN base' = {} /\ runs' # 0
    BY <1>1, <1>4, <2>1 DEF FirstRunSound
  <2> QED
    BY <1>3, <2>2 DEF FirstRunSound
<1> QED
  BY <1>1, <1>2, <1>4, <1>5, <1>6 DEF RevsInv

LEMMA RevsEnd == ASSUME RevsInv, Revs!End PROVE RevsInv'
<1>1. /\ HistorySound /\ TablesSound /\ MemoSound(memo) /\ RevRunSound /\ runs \in 0 .. MaxRuns
      /\ UNCHANGED <<par, id, base, content, runs>>
      /\ revRun.at = "translate" /\ revRun.todo = {}
      /\ tip' = [tip EXCEPT ![revRun.branch] = revRun.goal]
      /\ revRun' = Revs!NoRun /\ memo' = Revs!NoMemo
  BY DEF RevsInv, Revs!End, Revs!tables, Revs!history
<1>2. revRun.goal \in Known
  BY <1>1 DEF RevRunSound, Pending
<1>3. tip' \in [Branch -> {0} \cup Known]
  BY <1>1, <1>2 DEF TablesSound
<1>4. /\ HistorySound' /\ Known' = Known /\ Revs!Commits' = Revs!Commits
      /\ Revs!Revs' = Revs!Revs /\ TablesSound'
  BY <1>1, <1>3, SameHistory
<1>5. MemoSound(memo)'
  BY <1>1 DEF MemoSound, Revs!NoMemo, Revs!Empty
<1>6. RevRunSound'
  BY <1>1 DEF RevRunSound, Revs!NoRun
<1>7. ASSUME runs <= 1 PROVE FirstRunSound'
  <2>1. FirstRunSound /\ runs # 0 /\ \A d : BaseFromParents(d)' <=> BaseFromParents(d)
    BY <1>1, <1>7, SameHistory DEF RevsInv, FirstRunSound
  <2>2. NotedSound(memo)'
    BY <1>1 DEF NotedSound, Revs!NoMemo, Revs!Empty
  <2> QED
    BY <1>1, <2>1, <2>2 DEF FirstRunSound, Revs!NoRun
<1> QED
  BY <1>1, <1>4, <1>5, <1>6, <1>7 DEF RevsInv

\* The order in which parents win.
LEMMA SomeoneWins ==
  ASSUME NEW rs \in Seq(Int), Len(rs) \in {1, 2}
  PROVE  \E i \in DOMAIN rs : \A j \in DOMAIN rs : ~Revs!Newer(rs[i], rs[j])
<1>1. \A a \in Int : Revs!Abs(a) \in Nat
  BY DEF Revs!Abs
<1>2. \A a \in Int : ~Revs!Newer(a, a)
  BY <1>1 DEF Revs!Newer
<1>3. \A a, b \in Int : ~(Revs!Newer(a, b) /\ Revs!Newer(b, a))
  <2>1. \A x, y \in Nat : ~(x < y /\ y < x) /\ ~(x < y /\ x = y)
    OBVIOUS
  <2>2. \A a \in Int : ~(a > 0 /\ a < 0)
    OBVIOUS
  <2>3. \A a, b \in Int : Revs!Abs(a) \in Nat /\ Revs!Abs(b) \in Nat
    BY <1>1
  <2> QED
    BY <2>1, <2>2, <2>3 DEF Revs!Newer
<1>4. \A i \in DOMAIN rs : rs[i] \in Int
  OBVIOUS
<1>5. CASE Len(rs) = 1
  <2>1. DOMAIN rs = {1}
    BY <1>5
  <2> QED
    BY <1>2, <1>4, <2>1
<1>6. CASE Len(rs) = 2
  <2>1. DOMAIN rs = {1, 2}
    BY <1>6
  <2> QED
    BY <1>2, <1>3, <1>4, <2>1
<1> QED
  BY <1>5, <1>6

LEMMA NewBaseIs ==
  ASSUME NEW n \in Nat, NEW rs \in Seq(Int), rs # <<>>, \A i \in DOMAIN rs : rs[i] \in -n .. n
  PROVE  /\ Revs!NewBase(rs) \in -n .. 0
         /\ \A i \in DOMAIN rs : Revs!Abs(rs[i]) <= -Revs!NewBase(rs)
         /\ \E i \in DOMAIN rs : Revs!Abs(rs[i]) = -Revs!NewBase(rs)
<1> DEFINE S == {Revs!Abs(r) : r \in Revs!Range(rs)}
<1>1. \A a \in -n .. n : Revs!Abs(a) \in 0 .. n
  BY DEF Revs!Abs
<1>2. S \subseteq 0 .. n
  BY <1>1 DEF Revs!Range
<1>3. S # {}
  <2>1. 1 \in DOMAIN rs
    OBVIOUS
  <2> QED
    BY <2>1 DEF Revs!Range
<1> HIDE DEF S
<1>4. Revs!Max(S) \in S /\ \A x \in S : Revs!Max(S) >= x
  BY <1>2, <1>3, MaxIs
<1>5. \A a \in 0 .. n : -a \in -n .. 0 /\ -(-a) = a
  OBVIOUS
<1>6. Revs!NewBase(rs) = -Revs!Max(S)
  BY DEF Revs!NewBase, S
<1>7. \A x : x \in S <=> \E i \in DOMAIN rs : x = Revs!Abs(rs[i])
  BY DEF S, Revs!Range
<1>8. Revs!NewBase(rs) \in -n .. 0 /\ -Revs!NewBase(rs) = Revs!Max(S)
  BY <1>2, <1>4, <1>5, <1>6
<1>9. \A i \in DOMAIN rs : Revs!Abs(rs[i]) <= -Revs!NewBase(rs)
  <2>1. \A a, b \in 0 .. n : a >= b => b <= a
    OBVIOUS
  <2> QED
    BY <1>2, <1>4, <1>7, <1>8, <2>1
<1> QED
  BY <1>4, <1>7, <1>8, <1>9

LEMMA RevsTranslate == ASSUME RevsInv, Revs!Translate PROVE RevsInv'
<1> DEFINE c == Revs!Min(revRun.todo)
           known == Revs!KnowMonos(memo, par[c])
           monos == [i \in DOMAIN par[c] |-> known.monos[par[c][i]]]
           rs == [i \in DOMAIN monos |-> Revs!ParentRev(known, monos[i])]
           winner == Revs!Min({i \in DOMAIN rs : \A j \in DOMAIN rs : ~Revs!Newer(rs[i], rs[j])})
           from == monos[winner]
           noted == Revs!KnowParentRevs(known, Revs!Range(monos))
<1>1. /\ HistorySound /\ TablesSound /\ MemoSound(memo) /\ RevRunSound /\ runs \in 0 .. MaxRuns
      /\ UNCHANGED <<par, id, tip, runs>>
      /\ revRun.at = "translate" /\ revRun.todo # {}
      /\ base' = Revs!Put(base, c, Revs!NewBase(rs))
      /\ content' = Revs!Put(content, c, IF from \in DOMAIN content THEN content[from] ELSE from)
      /\ memo' = [noted EXCEPT !.monos = Revs!Put(@, c, c),
                               !.mono = Revs!Put(@, c, Revs!NewBase(rs))]
      /\ revRun' = [revRun EXCEPT !.todo = @ \ {Revs!Min(@)}]
  BY ZenonT(60) DEF RevsInv, Revs!Translate, Revs!history
<1> HIDE DEF c, known, monos, rs, winner, from, noted
<1>2. Revs!Commits \subseteq Nat /\ Upstream \in Nat /\ 0 \notin Revs!Commits
  BY <1>1, CommitsAre
<1>3. c \in revRun.todo /\ c \in Revs!Commits /\ \A d \in revRun.todo : c <= d
  BY <1>1, <1>2, MinIs DEF RevRunSound, c
<1>4. c \in Revs!Commits \ Revs!Revs
  BY <1>1, <1>3 DEF RevRunSound, MemoSound
<1>5. revRun' = [revRun EXCEPT !.todo = @ \ {c}]
  BY <1>1 DEF c
<1>6. /\ par[c] \in Seq(Nat) /\ Len(par[c]) \in {1, 2}
      /\ Revs!Parents(c) = {par[c][i] : i \in 1 .. Len(par[c])}
      /\ Revs!Parents(c) \subseteq 1 .. c - 1
  <2>1. c \in Revs!Commits /\ c \in 1 .. Len(par)
    BY <1>1, <1>4, CommitsAre
  <2>2. par[c] \in Seq(Nat) /\ Len(par[c]) \in {1, 2}
    BY <1>1, <1>4, <2>1 DEF HistorySound
  <2> QED
    BY <1>1, <2>1, <2>2, ParentsAre
<1>7. Revs!Parents(c) \subseteq Known
  <2>1. Revs!Parents(c) \subseteq Pending /\ revRun.listed = {}
    BY <1>1, <1>3 DEF RevRunSound
  <2>2. \A p \in Revs!Parents(c) : p \notin revRun.todo
    <3>1. \A n \in Nat : \A p \in 1 .. n - 1 : ~ n <= p
      OBVIOUS
    <3>2. c \in Nat
      BY <1>2, <1>3
    <3> QED
      BY <1>3, <1>6, <3>1, <3>2
  <2> QED
    BY <2>1, <2>2 DEF Pending
<1>8. par[c] \in Seq(Known) /\ Len(par[c]) \in 0 .. 2 /\ DOMAIN par[c] = 1 .. Len(par[c])
  <2>1. \A i \in 1 .. Len(par[c]) : par[c][i] \in Known
    BY <1>6, <1>7
  <2> QED
    BY <1>6, <2>1
<1>9. /\ MemoSound(known) /\ known.being = memo.being
      /\ DOMAIN memo.mono \subseteq DOMAIN known.mono
      /\ NotedSound(memo) => NotedSound(known)
      /\ \A i \in 1 .. Len(par[c]) : par[c][i] \in DOMAIN known.monos
  BY <1>1, <1>8, KnowMonosOf DEF known
<1>10. /\ DOMAIN monos = 1 .. Len(par[c])
       /\ \A i \in 1 .. Len(par[c]) : monos[i] = par[c][i] /\ monos[i] \in Known
            /\ monos[i] \in Revs!Commits
  BY <1>1, <1>6, <1>7, <1>8, <1>9, KnownAre DEF MemoSound, monos
<1>11. Revs!Range(monos) \subseteq Known
  BY <1>10 DEF Revs!Range
<1>12. ASSUME NEW d \in Revs!Commits PROVE Revs!ParentRev(known, d) \in -Upstream .. Upstream
  <2>1. 0 \in -Upstream .. Upstream
    BY <1>2
  <2>2. id[d] \in -Upstream .. Upstream
    <3>1. id[d] \in {0} \cup (1 .. Upstream)
      BY <1>1, <1>12, CommitsAre DEF HistorySound
    <3>2. \A n \in Nat : \A x \in {0} \cup (1 .. n) : x \in -n .. n
      OBVIOUS
    <3> QED
      BY <1>2, <3>1, <3>2
  <2> QED
    BY <1>9, <2>1, <2>2 DEF Revs!ParentRev, MemoSound
<1>13. /\ rs \in Seq(Int) /\ Len(rs) = Len(par[c]) /\ rs # <<>>
       /\ \A i \in DOMAIN rs : rs[i] \in -Upstream .. Upstream
  <2>1. \A i \in 1 .. Len(par[c]) : Revs!ParentRev(known, monos[i]) \in -Upstream .. Upstream
    BY <1>10, <1>12
  <2>2. -Upstream .. Upstream \subseteq Int
    BY <1>2
  <2>3. rs = [i \in 1 .. Len(par[c]) |-> Revs!ParentRev(known, monos[i])]
    BY <1>10 DEF rs
  <2>4. rs \in Seq(Int) /\ Len(rs) = Len(par[c]) /\ DOMAIN rs = 1 .. Len(par[c])
    BY <1>6, <2>1, <2>2, <2>3
  <2>5. \A i \in DOMAIN rs : rs[i] \in -Upstream .. Upstream
    BY <2>1, <2>3, <2>4
  <2>6. rs # <<>>
    <3>1. rs = <<>> => Len(rs) = 0
      OBVIOUS
    <3>2. Len(rs) = 1 \/ Len(rs) = 2
      BY <1>6, <2>4
    <3> QED
      BY <3>1, <3>2
  <2> QED
    BY <2>4, <2>5, <2>6
<1> DEFINE r == Revs!NewBase(rs)
<1>14. r \in -Upstream .. 0
  BY <1>2, <1>13, NewBaseIs
<1>n. /\ \A i \in DOMAIN rs : Revs!Abs(rs[i]) <= -r
      /\ \E i \in DOMAIN rs : Revs!Abs(rs[i]) = -r
  BY <1>2, <1>13, NewBaseIs
<1>15. r \in Int /\ -r \in 0 .. Upstream /\ r \in -Upstream .. Upstream
  <2>1. \A n \in Nat : \A x \in -n .. 0 : x \in Int /\ -x \in 0 .. n /\ x \in -n .. n
    OBVIOUS
  <2> QED
    BY <1>2, <1>14, <2>1
<1> HIDE DEF r
<1>16. /\ winner \in DOMAIN rs /\ DOMAIN rs = 1 .. Len(par[c])
       /\ \A j \in DOMAIN rs : ~Revs!Newer(rs[winner], rs[j])
       /\ from = monos[winner] /\ from \in Revs!Commits
  <2> DEFINE W == {i \in DOMAIN rs : \A j \in DOMAIN rs : ~Revs!Newer(rs[i], rs[j])}
  <2>1. W # {}
    BY <1>6, <1>13, SomeoneWins
  <2>2. DOMAIN rs = 1 .. Len(par[c]) /\ W \subseteq Nat
    BY <1>6, <1>13
  <2>3. winner \in W
    <3> HIDE DEF W
    <3>1. Revs!Min(W) \in W
      BY <2>1, <2>2, MinIs
    <3> QED
      BY <3>1 DEF W, winner
  <2>4. from = monos[winner]
    BY DEF from
  <2> QED
    BY <1>10, <2>2, <2>3, <2>4
<1> DEFINE x == IF from \in DOMAIN content THEN content[from] ELSE from
<1>17. x \in Revs!Commits
  BY <1>1, <1>16 DEF TablesSound
<1> HIDE DEF x
<1>18. /\ base' = Revs!Put(base, c, r) /\ content' = Revs!Put(content, c, x)
       /\ memo' = [noted EXCEPT !.monos = Revs!Put(@, c, c), !.mono = Revs!Put(@, c, r)]
  BY <1>1 DEF r, x
<1>19. /\ Revs!Commits' = Revs!Commits /\ Revs!Revs' = Revs!Revs
       /\ \A d : Revs!Parents(d)' = Revs!Parents(d)
       /\ HistorySound'
  BY <1>1 DEF Revs!Commits, Revs!Revs, Revs!Parents, HistorySound
<1>20. DOMAIN base' = DOMAIN base \cup {c} /\ DOMAIN content' = DOMAIN content \cup {c}
  BY <1>18 DEF Revs!Put
<1>21. Known' = Known \cup {c}
  BY <1>19, <1>20 DEF Known
<1>22. TablesSound'
  <2>1. ASSUME NEW d \in DOMAIN base'
        PROVE  /\ base'[d] \in Int /\ -base'[d] \in 0 .. Upstream
               /\ content'[d] \in Revs!Commits /\ Revs!Parents(d) \subseteq Known
    <3>1. CASE d = c
      <4>1. base'[c] = r /\ content'[c] = x
        BY <1>18 DEF Revs!Put
      <4> QED
        BY <1>7, <1>15, <1>17, <3>1, <4>1
    <3>2. CASE d # c
      <4>1. d \in DOMAIN base /\ d \in DOMAIN content
        BY <1>1, <1>20, <3>2 DEF TablesSound
      <4>2. base'[d] = base[d] /\ content'[d] = content[d]
        BY <1>18, <3>2, <4>1 DEF Revs!Put
      <4> QED
        BY <1>1, <4>1, <4>2 DEF TablesSound
    <3> QED
      BY <3>1, <3>2
  <2>2. tip' \in [Branch -> {0} \cup Known']
    <3>1. tip' = tip /\ tip \in [Branch -> {0} \cup Known]
      BY <1>1 DEF TablesSound
    <3> QED
      BY <1>21, <3>1
  <2>3. DOMAIN base' \subseteq Revs!Commits \ Revs!Revs /\ DOMAIN content' = DOMAIN base'
    BY <1>1, <1>4, <1>20 DEF TablesSound
  <2> QED
    BY <1>19, <1>21, <2>1, <2>2, <2>3 DEF TablesSound
<1>23. /\ DOMAIN memo' = DOMAIN known /\ memo'.split = known.split
       /\ memo'.monos = Revs!Put(known.monos, c, c)
       /\ memo'.mono = Revs!Put(noted.mono, c, r)
       /\ memo'.based = known.based /\ memo'.being = known.being
       /\ noted.mono = [d \in DOMAIN known.mono
                                \cup {e \in Revs!Range(monos) : ~Revs!IsMerge(e)}
                        |-> Revs!ParentRev(known, d)]
  BY <1>9, <1>18 DEF MemoSound, Revs!KnowParentRevs, noted
<1>24. /\ DOMAIN noted.mono \subseteq Revs!Commits
       /\ \A d \in DOMAIN noted.mono : noted.mono[d] \in -Upstream .. Upstream
  <2>1. DOMAIN noted.mono \subseteq Revs!Commits
    BY <1>1, <1>9, <1>11, <1>23, KnownAre DEF MemoSound
  <2>2. \A d \in DOMAIN noted.mono : noted.mono[d] = Revs!ParentRev(known, d)
    BY <1>23
  <2> QED
    BY <1>12, <2>1, <2>2
<1>25. /\ DOMAIN memo'.mono \subseteq Revs!Commits
       /\ \A d \in DOMAIN memo'.mono : memo'.mono[d] \in -Upstream .. Upstream
  BY <1>4, <1>15, <1>23, <1>24 DEF Revs!Put
<1>26. /\ DOMAIN memo'.monos = DOMAIN known.monos \cup {c}
       /\ \A d \in DOMAIN memo'.monos : memo'.monos[d] = d
  BY <1>9, <1>23 DEF Revs!Put, MemoSound
<1>27. MemoSound(memo)'
  <2>1. /\ DOMAIN memo' = {"split", "mono", "monos", "based", "being"}
        /\ DOMAIN memo'.split \subseteq Revs!Commits
        /\ \A d \in DOMAIN memo'.split : memo'.split[d] = IF d \in Revs!Revs THEN d ELSE 0
        /\ memo'.being \subseteq Revs!Commits \ Revs!Revs
    BY <1>9, <1>23 DEF MemoSound
  <2>2. DOMAIN memo'.monos \subseteq Known'
    BY <1>9, <1>21, <1>26 DEF MemoSound
  <2>3. memo'.based = DOMAIN memo'.monos \cap Revs!Revs
    BY <1>4, <1>9, <1>23, <1>26 DEF MemoSound
  <2> QED
    BY <1>19, <1>25, <1>26, <2>1, <2>2, <2>3 DEF MemoSound
<1>28. RevRunSound'
  <2>1. /\ revRun'.listed = revRun.listed /\ revRun'.todo = revRun.todo \ {c}
        /\ revRun'.at = "translate" /\ revRun'.goal = revRun.goal
        /\ revRun' \in [at : {"none", "list", "translate"}, branch : Branch \cup {"none"},
                        goal : {0} \cup Revs!Commits,
                        listed : SUBSET Revs!Commits, todo : SUBSET Revs!Commits]
    BY <1>1, <1>5 DEF RevRunSound
  <2>2. Pending' = Pending
    BY <1>3, <1>21, <2>1 DEF Pending
  <2>3. revRun'.todo \subseteq memo'.being /\ revRun'.todo \cap DOMAIN base' = {}
    BY <1>1, <1>9, <1>20, <1>23, <2>1 DEF RevRunSound
  <2>4. revRun'.listed = {} /\ revRun'.goal \in Pending
    BY <1>1, <2>1 DEF RevRunSound
  <2>5. \A d \in revRun'.listed \cup revRun'.todo : Revs!Parents(d) \subseteq Pending
    BY <1>1, <2>1 DEF RevRunSound
  <2> QED
    BY <1>19, <2>1, <2>2, <2>3, <2>4, <2>5 DEF RevRunSound
<1>29. ASSUME runs <= 1 PROVE FirstRunSound'
  <2>1. FirstRunSound /\ NotedSound(known) /\ runs # 0
    BY <1>1, <1>9, <1>29 DEF RevsInv, FirstRunSound
  <2>2. ASSUME NEW i \in 1 .. Len(par[c]), NEW p, p = par[c][i]
        PROVE  p \in DOMAIN known.mono /\ Revs!Abs(rs[i]) = RevOf(p)
    <3>1. p \in Known /\ p \in DOMAIN known.monos /\ monos[i] = p
      BY <1>9, <1>10, <2>2
    <3>2. p \in DOMAIN known.mono
      <4>1. CASE p \in Revs!Revs
        BY <1>9, <2>1, <3>1, <4>1 DEF MemoSound, NotedSound
      <4>2. CASE p \in DOMAIN base
        BY <1>1, <1>9, <2>1, <4>2 DEF FirstRunSound
      <4> QED
        BY <3>1, <4>1, <4>2 DEF Known
    <3>3. rs[i] = known.mono[p]
      BY <1>10, <3>1, <3>2 DEF rs, Revs!ParentRev
    <3>4. rs[i] = IF p \in Revs!Revs THEN p ELSE base[p]
      BY <2>1, <3>2, <3>3 DEF NotedSound
    <3>5. CASE p \in Revs!Revs
      <4>1. p \in Nat
        BY <1>1, <3>5, CommitsAre
      <4>2. Revs!Abs(p) = p
        BY <4>1 DEF Revs!Abs
      <4>3. rs[i] = p /\ RevOf(p) = p
        BY <3>4, <3>5 DEF RevOf
      <4> QED
        BY <3>2, <4>2, <4>3
    <3>6. CASE p \notin Revs!Revs
      <4>1. p \in DOMAIN base
        BY <3>1, <3>6 DEF Known
      <4>2. base[p] \in Int /\ -base[p] \in 0 .. Upstream /\ Upstream \in Nat
        BY <1>1, <1>2, <4>1 DEF TablesSound
      <4>3. Revs!Abs(base[p]) = -base[p]
        BY <4>2 DEF Revs!Abs
      <4>4. rs[i] = base[p] /\ RevOf(p) = -base[p]
        BY <3>4, <3>6 DEF RevOf
      <4> QED
        BY <3>2, <4>3, <4>4
    <3> QED
      BY <3>5, <3>6
  <2>3. \A d \in Known : d # c /\ RevOf(d)' = RevOf(d)
    <3>1. c \notin Known
      BY <1>1, <1>3, <1>4 DEF RevRunSound, Known
    <3>2. ASSUME NEW d \in Known PROVE RevOf(d)' = RevOf(d)
      <4>1. d \in DOMAIN base => base'[d] = base[d]
        BY <1>18, <3>1, <3>2 DEF Revs!Put
      <4> QED
        BY <1>19, <3>2, <4>1 DEF RevOf, Known
    <3> QED
      BY <3>1, <3>2
  <2>4. base'[c] = r /\ content'[c] = x
    BY <1>18 DEF Revs!Put
  <2>5. x = -r
    <3>1. Revs!Abs(rs[winner]) = -r
      <4>1. PICK j \in DOMAIN rs : Revs!Abs(rs[j]) = -r
        BY <1>n
      <4>2. ~(Revs!Abs(rs[winner]) < Revs!Abs(rs[j]))
        BY <1>16 DEF Revs!Newer
      <4>3. Revs!Abs(rs[winner]) <= -r
        BY <1>16, <1>n
      <4>4. Revs!Abs(rs[winner]) \in Int
        <5>1. rs[winner] \in Int
          BY <1>13, <1>16
        <5> QED
          BY <5>1 DEF Revs!Abs
      <4> QED
        BY <1>15, <4>1, <4>2, <4>3, <4>4
    <3>2. from \in Known /\ RevOf(from) = -r
      BY <1>10, <1>16, <2>2, <3>1
    <3>3. CASE from \in DOMAIN content
      <4>1. from \in DOMAIN base /\ from \notin Revs!Revs
        BY <1>1, <3>3 DEF TablesSound
      <4>2. content[from] = -base[from]
        BY <2>1, <4>1 DEF FirstRunSound, BaseFromParents
      <4> QED
        BY <3>2, <3>3, <4>1, <4>2 DEF x, RevOf
    <3>4. CASE from \notin DOMAIN content
      <4>1. from \in Revs!Revs
        BY <1>1, <3>2, <3>4 DEF TablesSound, Known
      <4> QED
        BY <3>2, <3>4, <4>1 DEF x, RevOf
    <3> QED
      BY <3>3, <3>4
  <2>6. ASSUME NEW d, d = c PROVE BaseFromParents(d)'
    <3>1. DOMAIN par'[d] = 1 .. Len(par[c]) /\ \A i \in 1 .. Len(par[c]) : par'[d][i] = par[c][i]
      BY <1>1, <1>8, <2>6
    <3>2. \A p \in Known : RevOf(p)' = RevOf(p)
      BY <2>3
    <3>3. ASSUME NEW i \in 1 .. Len(par[c]), NEW p, p = par[c][i]
          PROVE  RevOf(par[d][i])' = RevOf(p) /\ Revs!Abs(rs[i]) = RevOf(p)
      <4>1. p \in Known /\ p = par'[d][i]
        BY <1>8, <3>1, <3>3
      <4>2. RevOf(p)' = RevOf(p)
        BY <3>2, <4>1
      <4>3. RevOf(par[d][i])' = RevOf(p)'
        BY <4>1 DEF RevOf
      <4> QED
        BY <2>2, <3>3, <4>2, <4>3
    <3>4. \A i \in 1 .. Len(par[c]) : RevOf(par[d][i])' = Revs!Abs(rs[i])
      BY <3>3
    <3>5. \A i \in 1 .. Len(par[c]) : RevOf(par[d][i])' <= -r
      BY <1>16, <1>n, <3>4
    <3>6. \E i \in 1 .. Len(par[c]) : RevOf(par[d][i])' = -r
      BY <1>16, <1>n, <3>4
    <3>7. -base'[d] = -r /\ content'[d] = -r
      BY <2>4, <2>5, <2>6
    <3> QED
      BY <3>1, <3>5, <3>6, <3>7 DEF BaseFromParents
  <2>7. ASSUME NEW d \in DOMAIN base PROVE BaseFromParents(d)'
    <3>1. d \in Known /\ d \in Revs!Commits /\ Revs!Parents(d) \subseteq Known
      BY <1>1 DEF TablesSound, Known
    <3>2. d # c /\ base'[d] = base[d] /\ content'[d] = content[d]
      BY <1>1, <1>18, <2>3, <3>1 DEF Revs!Put, TablesSound
    <3>3. \A i \in DOMAIN par[d] : par[d][i] \in Known
      BY <3>1 DEF Revs!Parents, Revs!Range
    <3>4. \A i \in DOMAIN par[d] : RevOf(par[d][i])' = RevOf(par[d][i])
      BY <1>1, <2>3, <3>3
    <3>5. BaseFromParents(d)
      BY <2>1 DEF FirstRunSound
    <3> QED
      BY <1>1, <3>2, <3>4, <3>5 DEF BaseFromParents
  <2>8. DOMAIN noted.mono = DOMAIN known.mono
          /\ \A d \in DOMAIN known.mono : noted.mono[d] = known.mono[d]
    <3>1. Revs!Range(monos) \subseteq DOMAIN known.mono
      BY <1>10, <2>2 DEF Revs!Range
    <3>2. DOMAIN noted.mono = DOMAIN known.mono
      BY <1>23, <3>1
    <3> QED
      BY <1>23, <3>2 DEF Revs!ParentRev
  <2>9. /\ DOMAIN memo'.mono = DOMAIN known.mono \cup {c} /\ memo'.mono[c] = r
        /\ \A d \in DOMAIN known.mono : d # c => memo'.mono[d] = known.mono[d]
    BY <1>23, <2>8 DEF Revs!Put
  <2>10. NotedSound(memo)'
    <3>1. ASSUME NEW d \in DOMAIN memo'.mono
          PROVE  memo'.mono[d] = IF d \in Revs!Revs THEN d ELSE base'[d]
      <4>1. CASE d = c
        BY <1>4, <2>4, <2>9, <4>1
      <4>2. CASE d # c
        <5>1. d \in DOMAIN known.mono /\ d \in Known /\ memo'.mono[d] = known.mono[d]
          BY <2>1, <2>9, <4>2 DEF NotedSound
        <5>2. d \notin Revs!Revs => base'[d] = base[d]
          BY <1>18, <4>2, <5>1 DEF Revs!Put, Known
        <5> QED
          BY <2>1, <5>1, <5>2 DEF NotedSound
      <4> QED
        BY <4>1, <4>2
    <3>2. memo'.based \subseteq DOMAIN memo'.mono /\ DOMAIN memo'.mono \subseteq Known'
      BY <1>21, <1>23, <2>1, <2>9 DEF NotedSound
    <3> QED
      BY <1>19, <3>1, <3>2 DEF NotedSound
  <2>11. DOMAIN base' \subseteq DOMAIN memo'.mono
    BY <1>1, <1>9, <1>20, <2>1, <2>9 DEF FirstRunSound
  <2>12. ASSUME NEW d \in DOMAIN base' PROVE BaseFromParents(d)'
    <3>1. d = c \/ d \in DOMAIN base
      BY <1>20
    <3> QED
      BY <2>6, <2>7, <3>1
  <2>13. revRun'.at = "translate"
    BY <1>1, <1>5 DEF RevRunSound
  <2> QED
    BY <1>1, <2>1, <2>10, <2>11, <2>12, <2>13 DEF FirstRunSound
<1> QED
  BY <1>1, <1>19, <1>22, <1>27, <1>28, <1>29, SMTT(30) DEF RevsInv

LEMMA RevsSame == ASSUME RevsInv, UNCHANGED Revs!vars PROVE RevsInv'
<1>1. UNCHANGED <<par, id, tip, base, content, revRun, memo, runs>>
  BY DEF Revs!vars, Revs!history
<1>2. /\ HistorySound' /\ Known' = Known /\ Revs!Commits' = Revs!Commits
      /\ Revs!Revs' = Revs!Revs /\ \A d : Revs!Parents(d)' = Revs!Parents(d)
      /\ TablesSound'
  BY <1>1, SameHistory DEF RevsInv, TablesSound
<1>3. MemoSound(memo)' /\ Pending' = Pending
  BY <1>1, <1>2 DEF RevsInv, MemoSound, Pending
<1>4. RevRunSound'
  BY <1>1, <1>2, <1>3 DEF RevsInv, RevRunSound
<1>5. (runs <= 1 => FirstRunSound)'
  <2>1. \A d : BaseFromParents(d)' <=> BaseFromParents(d)
    BY <1>1, SameHistory
  <2> QED
    BY <1>1, <1>2, <2>1 DEF RevsInv, FirstRunSound, NotedSound
<1> QED
  BY <1>1, <1>2, <1>3, <1>4, <1>5 DEF RevsInv

LEMMA RevsNextOK == ASSUME RevsInv, [Revs!Next]_(Revs!vars) PROVE RevsInv'
BY RevsSame, RevsCommit, RevsStart, RevsList, RevsFindHead, RevsTranslate, RevsEnd DEF Revs!Next

LEMMA RevsTyped == RevsInv => Revs!TypeOK
<1> SUFFICES ASSUME RevsInv PROVE Revs!TypeOK
  OBVIOUS
<1>1. HistorySound /\ TablesSound /\ MemoSound(memo) /\ RevRunSound /\ runs \in 0 .. MaxRuns
  BY DEF RevsInv
<1>2. Known \subseteq Revs!Commits /\ Revs!Commits = 1 .. Len(par) /\ Len(par) \in Nat
  BY <1>1, KnownAre, CommitsAre
<1>3. Len(par) = Len(id) /\ \A c \in Revs!Commits : id[c] \in {0} \cup Revs!Revs
  BY <1>1, <1>2 DEF HistorySound
<1>4. tip \in [Branch -> 0 .. Len(par)]
  <2>1. {0} \cup Known \subseteq 0 .. Len(par)
    BY <1>2
  <2> QED
    BY <1>1, <2>1 DEF TablesSound
<1> QED
  BY <1>1, <1>2, <1>3, <1>4 DEF Revs!TypeOK, TablesSound, MemoSound, RevRunSound

\* Every downstream commit that is published is translated.
LEMMA PublishedTranslated == RevsInv => Revs!DownstreamTranslated
BY TipsKnown DEF RevsInv, Revs!DownstreamTranslated, TablesSound, Known

(***************************************************************************)
(* In the first run, by induction over the commits, parents first: the     *)
(* revision of a commit is the newest one that it contains.                *)
(***************************************************************************)
RevsIn(c) == Revs!Ancestors(c) \cap Revs!Revs
NewestIsKnown(c) == RevOf(c) \in RevsIn(c) /\ \A x \in RevsIn(c) : x <= RevOf(c)

LEMMA RevsInAre ==
  ASSUME HistorySound, NEW c \in Revs!Commits
  PROVE  RevsIn(c) = ({c} \cap Revs!Revs) \cup UNION {RevsIn(p) : p \in Revs!Parents(c)}
<1>1. Reaches(AncestorSets, ParentSets, Len(par)) /\ c \in 1 .. Len(par) /\ c # 0
  BY AncestorSetsReach, CommitsAre
<1>2. Revs!Ancestors(c) = {c} \cup UNION {AncestorSets[p] : p \in Revs!Parents(c)}
  BY <1>1, AncestorSetsReach, CommitsAre DEF Reaches, ParentSets
<1>3. \A p \in Revs!Parents(c) : Revs!Ancestors(p) = AncestorSets[p]
  BY AncestorSetsReach, ParentsAre, CommitsAre
<1> QED
  BY <1>2, <1>3 DEF RevsIn

LEMMA NewestOfKnown ==
  ASSUME RevsInv, runs <= 1, NEW c \in Known
  PROVE  NewestIsKnown(c)
<1>1. HistorySound /\ TablesSound /\ FirstRunSound
  BY DEF RevsInv
<1> DEFINE Bad == {d \in Known : ~NewestIsKnown(d)}
<1>2. SUFFICES ASSUME Bad # {} PROVE FALSE
  OBVIOUS
<1>3. PICK d \in Bad : \A e \in Bad : d <= e
  <2>1. Bad \subseteq Nat
    BY <1>1, KnownAre, CommitsAre
  <2> HIDE DEF Bad
  <2> QED
    BY <1>2, <2>1, TrieP!SmallestNat
<1>4. d \in Known /\ d \in Revs!Commits /\ d \in Nat /\ ~NewestIsKnown(d)
  BY <1>1, <1>3, KnownAre, CommitsAre
<1>5. \A p \in Revs!Parents(d) : p \in Known /\ p \in 1 .. d - 1 /\ NewestIsKnown(p)
  <2>1. Revs!Parents(d) \subseteq Known /\ Revs!Parents(d) \subseteq 1 .. d - 1
    BY <1>1, <1>4, KnownClosed, ParentsAre
  <2>2. \A p \in 1 .. d - 1 : ~ d <= p
    BY <1>4
  <2> QED
    BY <1>3, <2>1, <2>2
<1>6. RevsIn(d) = ({d} \cap Revs!Revs) \cup UNION {RevsIn(p) : p \in Revs!Parents(d)}
  BY <1>1, <1>4, RevsInAre
<1>7. CASE d \in Revs!Revs
  <2>1. RevOf(d) = d /\ d \in RevsIn(d) /\ d \in 1 .. Upstream
    BY <1>1, <1>6, <1>7, CommitsAre DEF RevOf
  <2>2. \A p \in Revs!Parents(d) : RevOf(p) = p
    <3>1. \A p \in 1 .. d - 1 : p \in 1 .. Upstream
      BY <1>1, <2>1, CommitsAre
    <3> QED
      BY <1>1, <1>5, <3>1, CommitsAre DEF RevOf
  <2>3. \A p \in Revs!Parents(d) : \A x \in RevsIn(p) : x <= d
    <3>1. \A p \in 1 .. d - 1 : \A x \in Nat : x <= p => x <= d
      BY <1>4
    <3>2. \A p : RevsIn(p) \subseteq Nat
      BY <1>1, CommitsAre DEF RevsIn
    <3> QED
      BY <1>5, <2>2, <3>1, <3>2 DEF NewestIsKnown
  <2>4. d <= d
    BY <1>4
  <2> QED
    BY <1>4, <1>6, <2>1, <2>3, <2>4 DEF NewestIsKnown
<1>8. CASE d \notin Revs!Revs
  <2>1. d \in DOMAIN base /\ RevOf(d) = -base[d] /\ BaseFromParents(d)
    BY <1>1, <1>4, <1>8 DEF Known, RevOf, FirstRunSound
  <2>2. /\ \A p \in Revs!Parents(d) : RevOf(p) <= RevOf(d)
        /\ \E p \in Revs!Parents(d) : RevOf(p) = RevOf(d)
    BY <2>1 DEF BaseFromParents, Revs!Parents, Revs!Range
  <2>3. RevOf(d) \in RevsIn(d)
    BY <1>5, <1>6, <2>2 DEF NewestIsKnown
  <2>4. \A p \in Revs!Parents(d) : \A x \in RevsIn(p) : x <= RevOf(d)
    <3>1. \A p : RevsIn(p) \subseteq Nat
      BY <1>1, CommitsAre DEF RevsIn
    <3>2. \A x, y, z \in Nat : x <= y /\ y <= z => x <= z
      OBVIOUS
    <3>3. \A p \in Revs!Parents(d) : RevOf(p) \in Nat
      BY <1>5, <3>1 DEF NewestIsKnown
    <3>4. RevOf(d) \in Nat
      BY <2>3, <3>1
    <3> QED
      BY <1>5, <2>2, <3>1, <3>2, <3>3, <3>4 DEF NewestIsKnown
  <2> QED
    BY <1>4, <1>6, <1>8, <2>3, <2>4 DEF NewestIsKnown
<1> QED
  BY <1>7, <1>8

LEMMA NewestWins == RevsInv => Revs!NewestBaseWinsInOneRun
<1> SUFFICES ASSUME RevsInv, runs <= 1, NEW c \in DOMAIN base
             PROVE  base[c] = -Revs!Newest(c) /\ content[c] = Revs!Newest(c)
  BY DEF Revs!NewestBaseWinsInOneRun, Revs!NewestBaseWins
<1>1. HistorySound /\ TablesSound /\ FirstRunSound
  BY DEF RevsInv
<1>2. c \in Known /\ c \notin Revs!Revs /\ BaseFromParents(c) /\ base[c] \in Int
  BY <1>1 DEF TablesSound, FirstRunSound, Known
<1>3. RevOf(c) = -base[c] /\ content[c] = -base[c]
  BY <1>2 DEF RevOf, BaseFromParents
<1>4. RevOf(c) \in RevsIn(c) /\ \A x \in RevsIn(c) : x <= RevOf(c)
  BY <1>2, NewestOfKnown DEF NewestIsKnown
<1>5. Revs!Newest(c) \in RevsIn(c) /\ \A x \in RevsIn(c) : Revs!Newest(c) >= x
  <2>1. Upstream \in Nat /\ RevsIn(c) \subseteq 0 .. Upstream /\ RevsIn(c) # {}
    BY <1>1, <1>4, CommitsAre DEF RevsIn
  <2>2. Revs!Newest(c) = Revs!Max(RevsIn(c))
    BY DEF Revs!Newest, RevsIn
  <2> QED
    BY <2>1, <2>2, MaxIs
<1>6. Revs!Newest(c) = RevOf(c)
  <2>1. \A x, y \in Nat : x <= y /\ x >= y => x = y
    OBVIOUS
  <2>2. RevsIn(c) \subseteq Nat
    BY <1>1, CommitsAre DEF RevsIn
  <2> QED
    BY <1>4, <1>5, <2>1, <2>2
<1>7. \A b \in Int : -(-b) = b
  OBVIOUS
<1> QED
  BY <1>2, <1>3, <1>6, <1>7

-----------------------------------------------------------------------------
(***************************************************************************)
(* Forwarding: what the remotes and the clone have are histories.          *)
(***************************************************************************)
Histories == Seq(0 .. MaxMoves)
RefTables == [Forward!Remote -> [Forward!Name -> Histories]]

FwdInv ==
  /\ refs \in RefTables /\ cache \in RefTables
  /\ former \in [Forward!Remote -> [Forward!Name -> SUBSET Histories]]
  /\ fwdRun \in [at : {"idle", "fetch", "push", "record", "record_tags"},
                 next : 1 .. Len(Order)]
  /\ restored \in BOOLEAN /\ moves \in 0 .. MaxMoves /\ kills \in 0 .. MaxKills

LEMMA FwdConstants ==
  /\ MaxMoves \in Nat /\ MaxKills \in Nat /\ Len(Order) \in Nat \ {0}
  /\ \A i \in 1 .. Len(Order) : Order[i] \in Forward!Remote
  /\ <<>> \in Histories /\ <<0>> \in Histories
  /\ \A l \in FwdLine : /\ l.to \in Forward!Remote /\ l.from \in Forward!Remote
                     /\ l.src \in Forward!Name /\ l.dst \in Forward!Name
  /\ \A o \in Forward!Origins : o[1] \in Forward!Remote /\ o[2] \in Forward!Name
<1>1. /\ MaxMoves \in Nat /\ MaxKills \in Nat /\ Order \in Seq(Forward!Remote) \ {<<>>}
      /\ FwdLine \subseteq [to : Forward!Remote, from : Forward!Remote, src : Forward!Name,
                         dst : Forward!Name, force : BOOLEAN, exact : BOOLEAN]
  BY PartsAssumption DEF Forward!FwdAssumption
<1>2. \A l \in FwdLine : /\ l.to \in Forward!Remote /\ l.from \in Forward!Remote
                      /\ l.src \in Forward!Name /\ l.dst \in Forward!Name
  BY <1>1
<1>3. \A o \in Forward!Origins : o[1] \in Forward!Remote /\ o[2] \in Forward!Name
  BY <1>2 DEF Forward!Origins
<1>4. Len(Order) \in Nat \ {0} /\ \A i \in 1 .. Len(Order) : Order[i] \in Forward!Remote
  BY <1>1
<1>5. <<>> \in Histories /\ <<0>> \in Histories
  BY <1>1 DEF Histories
<1> QED
  BY <1>1, <1>2, <1>3, <1>4, <1>5

LEMMA FwdInit == Forward!Init => FwdInv
<1> SUFFICES ASSUME Forward!Init PROVE FwdInv
  OBVIOUS
<1> USE FwdConstants DEF Forward!Init
<1>1. refs \in RefTables /\ cache \in RefTables
  BY DEF RefTables, Forward!NoRef
<1>2. former \in [Forward!Remote -> [Forward!Name -> SUBSET Histories]]
  BY <1>1 DEF RefTables
<1>3. fwdRun \in [at : {"idle", "fetch", "push", "record", "record_tags"},
                  next : 1 .. Len(Order)]
  BY DEF Forward!Idle
<1>4. restored \in BOOLEAN /\ moves \in 0 .. MaxMoves /\ kills \in 0 .. MaxKills
  <2>1. \A n \in Nat : 0 \in 0 .. n
    OBVIOUS
  <2>2. restored = FALSE /\ moves = 0 /\ kills = 0 /\ MaxMoves \in Nat /\ MaxKills \in Nat
    OBVIOUS
  <2> QED
    BY <2>1, <2>2
<1> QED
  BY ONLY <1>1, <1>2, <1>3, <1>4 DEF FwdInv

\* A table with the refs of one remote replaced.
LEMMA OneRemote ==
  ASSUME NEW t \in RefTables, NEW r \in Forward!Remote, NEW f \in [Forward!Name -> Histories]
  PROVE  [t EXCEPT ![r] = f] \in RefTables
BY DEF RefTables

\* What a run does next.
LEMMA RunGoesOn ==
  ASSUME FwdInv, Forward!GoOn
  PROVE  fwdRun' \in [at : {"idle", "fetch", "push", "record", "record_tags"},
                      next : 1 .. Len(Order)]
<1>1. fwdRun.at \in {"idle", "fetch", "push", "record", "record_tags"}
        /\ fwdRun.next \in 1 .. Len(Order)
  BY DEF FwdInv
<1>2. \A n \in Nat : \A i \in 1 .. n : i < n => i + 1 \in 1 .. n
  OBVIOUS
<1>3. fwdRun.next < Len(Order) => fwdRun.next + 1 \in 1 .. Len(Order)
  BY <1>1, <1>2, FwdConstants
<1>4. 1 \in 1 .. Len(Order)
  BY FwdConstants
<1> QED
  BY <1>1, <1>3, <1>4 DEF Forward!GoOn, Forward!Idle

LEMMA FwdMoves ==
  ASSUME FwdInv, NEW o \in Forward!Origins, Forward!Move(o[1], o[2]) \/ Forward!Restore(o[1], o[2])
  PROVE  FwdInv'
<1>1. PICK r \in Forward!Remote, n \in Forward!Name : r = o[1] /\ n = o[2]
  BY FwdConstants
<1>2. refs[r][n] \in Histories /\ former[r][n] \subseteq Histories
  BY DEF FwdInv, RefTables
<1>3. PICK h \in Histories : Forward!Set(r, n, h)
  <2>1. CASE Forward!Restore(o[1], o[2])
    BY <1>1, <1>2, <2>1 DEF Forward!Restore
  <2>2. CASE Forward!Move(o[1], o[2])
    <3>1. PICK h \in {Append(refs[r][n], moves + 1), <<moves + 1>>, <<>>} : Forward!Set(r, n, h)
      BY <1>1, <2>2 DEF Forward!Move, Forward!NoRef
    <3>2. moves + 1 \in 0 .. MaxMoves
      BY <3>1, FwdConstants DEF Forward!Set, FwdInv
    <3>3. Append(refs[r][n], moves + 1) \in Histories /\ <<moves + 1>> \in Histories
      <4>1. \A s \in Seq(0 .. MaxMoves), x \in 0 .. MaxMoves :
              Append(s, x) \in Seq(0 .. MaxMoves) /\ <<x>> \in Seq(0 .. MaxMoves)
        OBVIOUS
      <4> QED
        BY <1>2, <3>2, <4>1 DEF Histories
    <3>4. h \in Histories
      BY <3>1, <3>3, FwdConstants
    <3> QED
      BY <3>1, <3>4
  <2> QED
    BY <2>1, <2>2
<1>4. restored' \in BOOLEAN
  BY DEF FwdInv, Forward!Move, Forward!Restore
<1>5. /\ moves < MaxMoves /\ refs' = [refs EXCEPT ![r][n] = h]
      /\ former' = [former EXCEPT ![r][n] = @ \cup {h}] /\ moves' = moves + 1
      /\ UNCHANGED <<cache, fwdRun, kills>>
  BY <1>3 DEF Forward!Set
<1>6. refs' \in RefTables
  BY <1>5 DEF FwdInv, RefTables
<1>7. former' \in [Forward!Remote -> [Forward!Name -> SUBSET Histories]]
  BY <1>2, <1>5 DEF FwdInv
<1>8. moves' \in 0 .. MaxMoves
  BY <1>5, FwdConstants DEF FwdInv
<1> QED
  BY <1>4, <1>5, <1>6, <1>7, <1>8 DEF FwdInv

LEMMA FwdRuns ==
  ASSUME FwdInv, Forward!Start \/ Forward!Run \/ Forward!Kill
  PROVE  FwdInv'
<1> DEFINE Runs == [at : {"idle", "fetch", "push", "record", "record_tags"},
                    next : 1 .. Len(Order)]
           r == Order[fwdRun.next]
<1>1. /\ refs \in RefTables /\ cache \in RefTables /\ fwdRun \in Runs
      /\ former \in [Forward!Remote -> [Forward!Name -> SUBSET Histories]]
      /\ restored \in BOOLEAN /\ moves \in 0 .. MaxMoves /\ kills \in 0 .. MaxKills
  BY DEF FwdInv
<1>2. r \in Forward!Remote /\ Forward!This = r
  BY <1>1, FwdConstants DEF Forward!This
<1>3. Forward!Idle \in Runs /\ [Forward!Idle EXCEPT !.at = "fetch"] \in Runs
  BY FwdConstants DEF Forward!Idle
<1>4. \A l \in FwdLine : Forward!Pushed(l) \in Histories
  BY <1>1, FwdConstants DEF Forward!Pushed, RefTables
<1>5. \A N : Forward!Recorded(r, N) \in [Forward!Name -> Histories]
  BY <1>1, <1>2 DEF Forward!Recorded, RefTables
<1>6. Forward!AfterPush(r) \in [Forward!Name -> Histories]
  <2>1. ASSUME NEW n \in Forward!Name,
               NEW ls, ls = {l \in Forward!LineFor(r, n) :
                               Forward!Accepts(l, refs[r][n], Forward!Pushed(l))}
        PROVE  (IF ls = {} THEN refs[r][n]
                 ELSE Forward!Pushed(CHOOSE l \in ls : TRUE)) \in Histories
    <3>1. ls \subseteq FwdLine
      BY <2>1 DEF Forward!LineFor, Forward!LinesTo
    <3>2. refs[r][n] \in Histories
      BY <1>1, <1>2 DEF RefTables
    <3>3. ls # {} => (CHOOSE l \in ls : TRUE) \in FwdLine
      BY <3>1
    <3> QED
      BY <1>4, <3>2, <3>3
  <2> QED
    BY <2>1 DEF Forward!AfterPush
<1>7. Forward!Fetched(r) \in [Forward!Name -> Histories]
  BY <1>1, <1>2 DEF Forward!Fetched, RefTables
<1> HIDE DEF r
<1>8. CASE Forward!Start
  BY <1>1, <1>3, <1>8 DEF Forward!Start, FwdInv
<1>9. CASE Forward!Fetch
  <2>1. cache' \in RefTables
    BY <1>1, <1>2, <1>7, <1>9, OneRemote DEF Forward!Fetch
  <2>2. fwdRun' \in Runs
    BY <1>9, RunGoesOn DEF Forward!Fetch
  <2> QED
    BY <1>1, <1>9, <2>1, <2>2 DEF Forward!Fetch, FwdInv
<1>10. CASE Forward!Skip
  <2>1. fwdRun' \in Runs
    BY <1>10, RunGoesOn DEF Forward!Skip
  <2> QED
    BY <1>1, <1>10, <2>1 DEF Forward!Skip, FwdInv
<1>11. CASE Forward!FailLocally
  BY <1>1, <1>3, <1>11 DEF Forward!FailLocally, FwdInv
<1>12. CASE Forward!Push
  <2>1. refs' \in RefTables
    BY <1>1, <1>2, <1>6, <1>12, OneRemote DEF Forward!Push
  <2>2. fwdRun' \in Runs
    BY <1>1, <1>12 DEF Forward!Push
  <2> QED
    BY <1>1, <1>12, <2>1, <2>2 DEF Forward!Push, FwdInv
<1>13. CASE Forward!RecordHeads
  <2>1. cache' \in RefTables
    BY <1>1, <1>2, <1>5, <1>13, OneRemote DEF Forward!RecordHeads
  <2>2. fwdRun' \in Runs
    BY <1>1, <1>3, <1>13 DEF Forward!RecordHeads
  <2> QED
    BY <1>1, <1>13, <2>1, <2>2 DEF Forward!RecordHeads, FwdInv
<1>14. CASE Forward!RecordTags
  <2>1. cache' \in RefTables
    BY <1>1, <1>2, <1>5, <1>14, OneRemote DEF Forward!RecordTags
  <2>2. fwdRun' \in Runs
    <3>1. fwdRun.next < Len(Order) => fwdRun.next + 1 \in 1 .. Len(Order)
      <4>1. \A n \in Nat : \A i \in 1 .. n : i < n => i + 1 \in 1 .. n
        OBVIOUS
      <4> QED
        BY <1>1, <4>1, FwdConstants
    <3> QED
      BY <1>3, <1>14, <3>1 DEF Forward!RecordTags
  <2> QED
    BY <1>1, <1>14, <2>1, <2>2 DEF Forward!RecordTags, FwdInv
<1>15. CASE Forward!Kill
  <2>1. kills' \in 0 .. MaxKills
    BY <1>1, <1>15, FwdConstants DEF Forward!Kill
  <2> QED
    BY <1>1, <1>3, <1>15, <2>1 DEF Forward!Kill, FwdInv
<1> QED
  BY <1>8, <1>9, <1>10, <1>11, <1>12, <1>13, <1>14, <1>15 DEF Forward!Run

LEMMA FwdNextOK == ASSUME FwdInv, [Forward!Next]_(Forward!vars) PROVE FwdInv'
<1>1. CASE UNCHANGED Forward!vars
  BY <1>1 DEF FwdInv, Forward!vars
<1>2. CASE Forward!Next
  BY <1>2, FwdMoves, FwdRuns DEF Forward!Next
<1> QED
  BY <1>1, <1>2

LEMMA FwdTyped == FwdInv => Forward!TypeOK
<1> SUFFICES ASSUME FwdInv PROVE Forward!TypeOK
  OBVIOUS
<1>1. \A r \in Forward!Remote, n \in Forward!Name :
        Forward!IsHistory(refs[r][n]) /\ Forward!IsHistory(cache[r][n])
  BY DEF FwdInv, RefTables, Histories, Forward!IsHistory
<1> QED
  BY <1>1 DEF FwdInv, Forward!TypeOK

-----------------------------------------------------------------------------
(***************************************************************************)
(* The table that is opened by hand.  Its keys part at the root, where     *)
(* each place in use holds the number of a record.                         *)
(***************************************************************************)
HandRecord == [key : HandKey, value : Value]
HandEntry == [leaf : {TRUE}, num : Nat]
AtRoot(s) == <<HandTable!Root, s>>

HandIndexOK(idx) ==
  /\ DOMAIN idx = {"entry", "bits", "end", "owner"}
  /\ idx.bits \subseteq {AtRoot(s) : s \in Slot}
  /\ \A p \in idx.bits : p \in DOMAIN idx.entry /\ idx.entry[p] \in HandEntry

\* What the files hold is a part of what the streams do.
PartOf(idx, dat, idx2, dat2) ==
  /\ Len(dat) <= Len(dat2) /\ \A i \in 1 .. Len(dat) : dat[i] = dat2[i]
  /\ \A p \in idx.bits : p \in idx2.bits /\ idx.entry[p] = idx2.entry[p]

HandOp ==
  \/ op = HandTable!NoOp
  \/ op \in [kind : {"lookup"}, key : HandKey, value : {"none"},
             node : {HandTable!Root}, depth : {0}]
  \/ op \in [kind : {"insert", "check"}, key : HandKey, value : Value,
             node : {HandTable!Root}, depth : {0}]

\* The one update of an insertion: its place is not in use yet, and it leaves
\* the others of its bitmap byte as they are.
HandUpdate(u) ==
  /\ u.node = HandTable!Root /\ u.slot \in Slot /\ u.leaf = TRUE /\ u.num \in Nat
  /\ u.skip = FALSE
  /\ AtRoot(u.slot) \notin index.bits
  /\ \A s \in Slot : AtRoot(s) \in index.bits /\ HandTable!SameByte(s, u.slot) => s \in u.slots
  /\ u.slots \subseteq {s \in Slot : s = u.slot \/ AtRoot(s) \in index.bits}
  /\ half => /\ AtRoot(u.slot) \in DOMAIN index.entry
             /\ index.entry[AtRoot(u.slot)] \in HandEntry

HandInv ==
  /\ data \in Seq(HandRecord) /\ diskData \in Seq(HandRecord)
  /\ HandIndexOK(index) /\ HandIndexOK(diskIndex)
  /\ HandOp
  /\ mode # "open" => op = HandTable!NoOp
  /\ op = HandTable!NoOp => top = 0
  /\ top # 0 => top = 1 /\ HandUpdate(stack[1])
  /\ mode \in {"open", "closing"} => PartOf(diskIndex, diskData, index, data)

LEMMA HandInitOK == HandTable!Init => HandInv
BY DEF HandTable!Init, HandInv, HandIndexOK, HandOp, PartOf, HandTable!EmptyIndex, HandTable!NoOp

\* Opening, closing, failing and being killed write no update.
LEMMA HandQuiet ==
  ASSUME HandInv,
         \/ HandTable!Open \/ HandTable!CloseData \/ HandTable!CloseIndex
         \/ HandTable!Fail \/ HandTable!Kill \/ HandTable!Reopen
  PROVE  HandInv'
<1> USE DEF HandTable!streams, HandTable!files, HandTable!update, HandTable!FlushData,
            HandTable!FlushIndex
<1>1. CASE HandTable!Open \/ HandTable!Reopen
  <2>1. /\ data' = diskData /\ index' = diskIndex
        /\ UNCHANGED <<diskData, diskIndex, op, top>> /\ mode # "open"
    BY <1>1 DEF HandTable!Open, HandTable!Reopen
  <2>2. PartOf(diskIndex, diskData, diskIndex, diskData)
    BY DEF HandInv, PartOf
  <2>3. op = HandTable!NoOp /\ top = 0
    BY <2>1 DEF HandInv
  <2> QED
    BY <2>1, <2>2, <2>3 DEF HandInv, HandOp
<1>2. CASE HandTable!CloseData
  <2>1. /\ UNCHANGED <<data, index, diskIndex, op, top, stack, half>> /\ diskData' = data
        /\ mode = "open" /\ op = HandTable!NoOp
    BY <1>2 DEF HandTable!CloseData
  <2>2. PartOf(diskIndex, data, index, data)
    BY <2>1 DEF HandInv, PartOf
  <2> QED
    BY <2>1, <2>2 DEF HandInv, HandOp
<1>3. CASE HandTable!CloseIndex
  <2>1. /\ UNCHANGED <<data, index, diskData, op, top, stack, half>> /\ diskIndex' = index
        /\ mode' = "closed" /\ mode = "closing"
    BY <1>3 DEF HandTable!CloseIndex
  <2> QED
    BY <2>1 DEF HandInv, HandOp
<1>4. CASE HandTable!Fail
  <2>1. /\ UNCHANGED <<data, index, diskIndex>> /\ diskData' = data
        /\ mode = "open" /\ op' = HandTable!NoOp /\ top' = 0
    BY <1>4 DEF HandTable!Fail
  <2>2. PartOf(diskIndex, data, index, data)
    BY <2>1 DEF HandInv, PartOf
  <2> QED
    BY <2>1, <2>2 DEF HandInv, HandOp
<1>5. CASE HandTable!Kill
  <2>1. /\ UNCHANGED <<data, index, diskData, diskIndex>>
        /\ mode' = "dead" /\ op' = HandTable!NoOp /\ top' = 0
    BY <1>5 DEF HandTable!Kill
  <2> QED
    BY <2>1 DEF HandInv, HandOp
<1> QED
  BY <1>1, <1>2, <1>3, <1>4, <1>5

\* An operation begins at the root, and leads to an answer.
LEMMA HandLooks ==
  ASSUME HandInv,
         \/ \E k \in HandKey, v \in Value :
              HandTable!Begin("insert", k, v) \/ HandTable!Begin("check", k, v)
         \/ \E k \in HandKey : HandTable!Begin("lookup", k, "none")
         \/ HandTable!FoundMapped \/ HandTable!FoundUnreadable \/ HandTable!LookupAbsent
  PROVE  HandInv'
<1> USE DEF HandTable!streams, HandTable!files, HandTable!update, HandTable!FlushData,
            HandTable!FlushIndex
<1>0. PartOf(index, data, index, data)
  BY DEF HandInv, PartOf
<1>1. ASSUME NEW kind \in {"lookup", "insert", "check"}, NEW k \in HandKey, NEW v,
             HandTable!Begin(kind, k, v),
             IF kind = "lookup" THEN v = "none" ELSE v \in Value
      PROVE  HandInv'
  <2>1. /\ UNCHANGED <<data, index, diskData, mode, top, stack, half>>
        /\ diskIndex' = index /\ mode = "open" /\ op = HandTable!NoOp
        /\ op' = [kind |-> kind, key |-> k, value |-> v, node |-> HandTable!Root, depth |-> 0]
    BY <1>1 DEF HandTable!Begin
  <2>2. PartOf(index, diskData, index, data)
    BY <2>1 DEF HandInv, PartOf
  <2>3. HandOp'
    BY <1>1, <2>1 DEF HandOp
  <2>4. top' = 0
    BY <2>1 DEF HandInv
  <2> QED
    BY <2>1, <2>2, <2>3, <2>4 DEF HandInv
<1>2. CASE HandTable!FoundMapped \/ HandTable!FoundUnreadable \/ HandTable!LookupAbsent
  <2>1. /\ UNCHANGED <<data, index, diskIndex, top, stack, half>> /\ diskData' \in {data, diskData}
        /\ mode = "open" /\ mode' \in {"open", "closing"} /\ op' = HandTable!NoOp /\ top = 0
    BY <1>2 DEF HandTable!FoundMapped, HandTable!FoundUnreadable, HandTable!LookupAbsent,
      HandTable!Looking, HandTable!AnswerAndGoOn, HandTable!Answer
  <2>2. PartOf(diskIndex, data, index, data) /\ PartOf(diskIndex, diskData, index, data)
    BY <2>1 DEF HandInv, PartOf
  <2> QED
    BY <2>1, <2>2 DEF HandInv, HandOp
<1> QED
  BY <1>1, <1>2

\* A new record, and the update of its place.
LEMMA HandInserts == ASSUME HandInv, HandTable!InsertNew PROVE HandInv'
<1> USE DEF HandTable!streams, HandTable!files, HandTable!update, HandTable!FlushData,
            HandTable!FlushIndex
<1>1. /\ mode = "open" /\ op # HandTable!NoOp /\ op.kind # "lookup" /\ top = 0
      /\ ~HandTable!BitSet
      /\ diskData' = data /\ data' = Append(data, [key |-> op.key, value |-> op.value])
      /\ half' = FALSE /\ stack' = HandTable!NewEntry /\ top' = 1
      /\ UNCHANGED <<index, diskIndex, mode, op>>
  BY DEF HandTable!InsertNew, HandTable!Looking, HandTable!AppendRecord
<1>2. /\ op.key \in HandKey /\ op.value \in Value /\ op.node = HandTable!Root /\ op.depth = 0
  BY <1>1 DEF HandInv, HandOp
<1> DEFINE r == [key |-> op.key, value |-> op.value]
           s == HandDigit[op.key][0]
           u == stack'[1]
<1>3. data \in Seq(HandRecord) /\ r \in HandRecord /\ data' = Append(data, r)
  BY <1>1, <1>2 DEF HandInv, HandRecord
<1>4. data' \in Seq(HandRecord) /\ diskData' \in Seq(HandRecord)
  BY <1>1, <1>3
<1>5. PartOf(diskIndex, data, index, data')
  <2>1. Len(data) <= Len(data') /\ \A i \in 1 .. Len(data) : data[i] = data'[i]
    BY <1>3
  <2> QED
    BY <1>1, <2>1 DEF HandInv, PartOf
<1>6. s \in Slot
  BY <1>2, PartsAssumption DEF HandTable!ConstantsAssumption
<1>7. AtRoot(s) \notin index.bits
  BY <1>1, <1>2 DEF HandTable!BitSet, HandTable!Place, AtRoot
<1>8. /\ u.node = HandTable!Root /\ u.slot = s /\ u.leaf = TRUE /\ u.num = Len(data)
      /\ u.skip = FALSE
      /\ u.slots = {x \in Slot : x = s \/ (HandTable!SameByte(x, s) /\ AtRoot(x) \in index.bits)}
  BY <1>1, <1>2 DEF HandTable!NewEntry, AtRoot
<1>9. Len(data) \in Nat
  BY <1>3
<1>10. HandUpdate(stack[1])'
  <2>1. \A x \in u.slots : x \in Slot /\ (x = s \/ AtRoot(x) \in index.bits)
    BY <1>8
  <2>2. \A x \in Slot : AtRoot(x) \in index.bits /\ HandTable!SameByte(x, s) => x \in u.slots
    BY <1>8
  <2> HIDE DEF s
  <2> QED
    BY <1>1, <1>6, <1>7, <1>8, <1>9, <2>1, <2>2 DEF HandUpdate, AtRoot, HandTable!SameByte
<1> QED
  BY <1>1, <1>4, <1>5, <1>10 DEF HandInv, HandOp

\* An entry is written at a place that is not in use, and then taken into use.
LEMMA HandWrites == ASSUME HandInv, HandTable!WriteEntry \/ HandTable!WriteBitmap PROVE HandInv'
<1> DEFINE u == stack[1]
           p == AtRoot(u.slot)
<1>1. mode = "open" /\ top = 1 /\ HandUpdate(u)
  BY DEF HandInv, HandTable!WriteEntry, HandTable!WriteBitmap
<1>2. /\ diskIndex' = index /\ UNCHANGED <<data, diskData, mode>>
  BY DEF HandTable!WriteEntry, HandTable!WriteBitmap, HandTable!FlushIndex
<1>3. /\ u.node = HandTable!Root /\ u.slot \in Slot /\ u.leaf = TRUE /\ u.num \in Nat
      /\ u.skip = FALSE /\ p = <<u.node, u.slot>> /\ p \notin index.bits
      /\ u.slots \subseteq {s \in Slot : s = u.slot \/ AtRoot(s) \in index.bits}
  BY <1>1 DEF HandUpdate, AtRoot
<1>4. HandIndexOK(index) /\ HandIndexOK(diskIndex')
  BY <1>2 DEF HandInv
<1>5. PartOf(index, diskData, index, data)
  BY <1>1 DEF HandInv, PartOf
<1>6. CASE HandTable!WriteEntry
  <2> DEFINE e == [q \in DOMAIN index.entry \cup {p} |->
                     IF q = p THEN [leaf |-> u.leaf, num |-> u.num] ELSE index.entry[q]]
  <2>1. /\ index' = [index EXCEPT !.entry = e, !.end = HandTable!Larger(@, u.node + 1)]
        /\ half' = TRUE /\ UNCHANGED <<op, stack, top>>
    BY <1>1, <1>3, <1>6 DEF HandTable!WriteEntry
  <2>2. /\ DOMAIN index' = DOMAIN index /\ index'.entry = e /\ index'.bits = index.bits
    <3> HIDE DEF e
    <3> QED
      BY <1>4, <2>1 DEF HandIndexOK
  <2>3. /\ \A q \in index.bits : q \in DOMAIN e /\ e[q] = index.entry[q]
        /\ p \in DOMAIN e /\ e[p] \in HandEntry
    BY <1>3, <1>4 DEF HandIndexOK, HandEntry
  <2> HIDE DEF e
  <2>4. HandIndexOK(index')
    BY <1>4, <2>2, <2>3 DEF HandIndexOK
  <2>5. PartOf(index, diskData, index', data)
    BY <1>5, <2>2, <2>3 DEF PartOf
  <2>6. HandUpdate(u)'
    BY <1>1, <2>1, <2>2, <2>3 DEF HandUpdate, AtRoot
  <2> QED
    BY <1>1, <1>2, <1>4, <2>1, <2>4, <2>5, <2>6 DEF HandInv, HandOp
<1>7. CASE HandTable!WriteBitmap
  <2> DEFINE b == {q \in index.bits : ~(q[1] = u.node /\ HandTable!SameByte(q[2], u.slot))}
                    \cup {<<u.node, s>> : s \in u.slots}
  <2>1. /\ index' = [index EXCEPT !.bits = b] /\ half
        /\ top' = 0 /\ op' = HandTable!NoOp /\ UNCHANGED stack
    BY <1>1, <1>7 DEF HandTable!WriteBitmap, HandTable!Pop, HandTable!Answer
  <2>2. /\ DOMAIN index' = DOMAIN index /\ index'.entry = index.entry /\ index'.bits = b
    <3> HIDE DEF b
    <3> QED
      BY <1>4, <2>1 DEF HandIndexOK
  <2>3. p \in DOMAIN index.entry /\ index.entry[p] \in HandEntry
    BY <1>1, <2>1 DEF HandUpdate
  <2>4. \A q \in b : q \in index.bits \/ q = p
    BY <1>3 DEF AtRoot
  <2>5. \A q \in index.bits : q \in b
    <3>1. SUFFICES ASSUME NEW s \in Slot, AtRoot(s) \in index.bits PROVE AtRoot(s) \in b
      BY <1>4 DEF HandIndexOK
    <3>2. HandTable!SameByte(s, u.slot) => s \in u.slots
      BY <1>1, <3>1 DEF HandUpdate
    <3> QED
      BY <1>3, <3>1, <3>2 DEF AtRoot
  <2> HIDE DEF b
  <2>6. HandIndexOK(index')
    <3>1. p \in {AtRoot(s) : s \in Slot}
      BY <1>3
    <3> QED
      BY <1>4, <2>2, <2>3, <2>4, <3>1 DEF HandIndexOK
  <2>7. PartOf(index, diskData, index', data)
    BY <1>5, <2>2, <2>5 DEF PartOf
  <2> QED
    BY <1>1, <1>2, <1>4, <2>1, <2>6, <2>7 DEF HandInv, HandOp
<1> QED
  BY <1>6, <1>7

LEMMA HandSame == ASSUME HandInv, UNCHANGED tableVars PROVE HandInv'
BY DEF HandInv, HandOp, HandUpdate, HandIndexOK, PartOf, tableVars

LEMMA HandNextOK == ASSUME HandInv, HandNext PROVE HandInv'
BY HandQuiet, HandLooks, HandInserts, HandWrites DEF HandNext, Hand

(***************************************************************************)
(* A lookup by hand ends at the root.                                      *)
(***************************************************************************)
\* The record that the place of k at the root leads to.
Leads(idx, k, i) ==
  LET p == AtRoot(HandDigit[k][0]) IN p \in idx.bits /\ idx.entry[p].num = i

LEMMA HandFound ==
  ASSUME NEW idx, HandIndexOK(idx), NEW dat, NEW k \in HandKey, NEW i
  PROVE  /\ i \in HandTable!Found(idx, dat, k)
              <=> Leads(idx, k, i) /\ i < Len(dat) /\ dat[i + 1].key = k
         /\ Leads(idx, k, i) => i \in Nat
<1> DEFINE trail == HandTable!Trail(idx, k)
           at(d) == <<trail[d], HandDigit[k][d]>>
<1>1. Depth \in Nat \ {0}
  BY PartsAssumption DEF HandTable!ConstantsAssumption
<1>2. \A p \in idx.bits : HandTable!EntryAt(idx, p) = idx.entry[p] /\ idx.entry[p] \in HandEntry
  BY DEF HandIndexOK, HandTable!EntryAt
\* A place in use holds the number of a record: nothing leads below the root.
<1> DEFINE follow(n, s) == IF <<n, s>> \in idx.bits /\ ~HandTable!EntryAt(idx, <<n, s>>).leaf
                           THEN HandTable!EntryAt(idx, <<n, s>>).num ELSE HandTable!Nowhere
           isTrail(f) == f = [d \in 0 .. Depth - 1 |->
                                IF d = 0 THEN HandTable!Root
                                ELSE follow(f[d - 1], HandDigit[k][d - 1])]
           short == [d \in 0 .. Depth - 1 |-> IF d = 0 THEN HandTable!Root ELSE HandTable!Nowhere]
<1>3. trail = CHOOSE f : isTrail(f)
  BY DEF HandTable!Trail
<1>4. trail = short
  <2>1. \A n, s : follow(n, s) = HandTable!Nowhere
    BY <1>2 DEF HandEntry
  <2> HIDE DEF follow, trail
  <2>2. \A f : isTrail(f) <=> f = short
    BY <2>1
  <2> HIDE DEF isTrail, short
  <2> QED
    BY <1>3, <2>2
<1> HIDE DEF trail
<1>5. \A d \in 0 .. Depth - 1 : at(d) \in idx.bits => d = 0
  BY <1>1, <1>4 DEF HandIndexOK, AtRoot, HandTable!Root, HandTable!Nowhere
<1>6. at(0) = AtRoot(HandDigit[k][0]) /\ 0 \in 0 .. Depth - 1
  BY <1>1, <1>4 DEF AtRoot
<1>7. i \in HandTable!Found(idx, dat, k)
        <=> /\ \E d \in 0 .. Depth - 1 :
                 /\ at(d) \in idx.bits /\ HandTable!EntryAt(idx, at(d)).leaf
                 /\ HandTable!EntryAt(idx, at(d)).num = i
            /\ i < Len(dat) /\ dat[i + 1].key = k
  BY DEF HandTable!Found, trail
<1> HIDE DEF at
<1>8. (\E d \in 0 .. Depth - 1 :
                 /\ at(d) \in idx.bits /\ HandTable!EntryAt(idx, at(d)).leaf
                 /\ HandTable!EntryAt(idx, at(d)).num = i)
        <=> at(0) \in idx.bits /\ idx.entry[at(0)].num = i
  BY <1>2, <1>5, <1>6 DEF HandEntry
<1>9. Leads(idx, k, i) => i \in Nat
  BY <1>2 DEF Leads, HandEntry
<1> QED
  BY <1>6, <1>7, <1>8, <1>9 DEF Leads

LEMMA HandFilesLag == HandInv => HandTable!FilesLagBehind
<1> SUFFICES ASSUME HandInv, mode \in {"open", "closing"}
             PROVE  HandTable!Within(HandTable!MapOf(diskIndex, diskData), HandTable!MapOf(index, data))
  BY DEF HandTable!FilesLagBehind
<1> DEFINE inFiles == [k \in HandKey |-> HandTable!Found(diskIndex, diskData, k)]
           inStreams == [k \in HandKey |-> HandTable!Found(index, data, k)]
<1>1. /\ HandIndexOK(diskIndex) /\ HandIndexOK(index) /\ PartOf(diskIndex, diskData, index, data)
      /\ Len(diskData) \in Nat /\ Len(data) \in Nat
  BY DEF HandInv
<1>2. ASSUME NEW k \in HandKey, NEW i \in inFiles[k]
      PROVE  i \in inStreams[k] /\ diskData[i + 1] = data[i + 1]
  <2>1. Leads(diskIndex, k, i) /\ i < Len(diskData) /\ diskData[i + 1].key = k /\ i \in Nat
    BY <1>1, <1>2, HandFound
  <2>2. Leads(index, k, i)
    BY <1>1, <2>1 DEF Leads, PartOf
  <2>3. i < Len(data) /\ diskData[i + 1] = data[i + 1]
    BY <1>1, <2>1 DEF PartOf
  <2> QED
    BY <1>1, <2>1, <2>2, <2>3, HandFound
<1>3. ASSUME NEW k \in HandKey, NEW i \in inStreams[k], NEW j \in inStreams[k] PROVE i = j
  <2>1. Leads(index, k, i) /\ Leads(index, k, j)
    BY <1>1, <1>3, HandFound
  <2> QED
    BY <2>1 DEF Leads
<1> HIDE DEF inFiles, inStreams
<1>4. \A k \in HandKey : inFiles[k] # {} =>
        /\ inStreams[k] # {}
        /\ diskData[(CHOOSE i \in inFiles[k] : TRUE) + 1].value
             = data[(CHOOSE i \in inStreams[k] : TRUE) + 1].value
  <2> SUFFICES ASSUME NEW k \in HandKey, inFiles[k] # {}
               PROVE  /\ inStreams[k] # {}
                      /\ diskData[(CHOOSE i \in inFiles[k] : TRUE) + 1]
                           = data[(CHOOSE i \in inStreams[k] : TRUE) + 1]
    OBVIOUS
  <2> DEFINE i == CHOOSE i \in inFiles[k] : TRUE
             j == CHOOSE j \in inStreams[k] : TRUE
  <2>1. i \in inFiles[k]
    OBVIOUS
  <2>2. i \in inStreams[k] /\ diskData[i + 1] = data[i + 1]
    BY <1>2, <2>1
  <2>3. j \in inStreams[k]
    BY <2>2
  <2>4. i = j
    BY <1>3, <2>2, <2>3
  <2> QED
    BY <2>2, <2>4
<1>5. /\ HandTable!MapOf(diskIndex, diskData)
           = [k \in {k \in HandKey : inFiles[k] # {}} |->
                diskData[(CHOOSE i \in inFiles[k] : TRUE) + 1].value]
      /\ HandTable!MapOf(index, data)
           = [k \in {k \in HandKey : inStreams[k] # {}} |->
                data[(CHOOSE i \in inStreams[k] : TRUE) + 1].value]
  BY ZenonT(60) DEF HandTable!MapOf, inFiles, inStreams
<1> QED
  BY <1>4, <1>5 DEF HandTable!Within

-----------------------------------------------------------------------------
(***************************************************************************)
(* The parts together.  A step is one of the part that the behaviour is    *)
(* about, and leaves the variables of the others as they are.              *)
(***************************************************************************)
LEMMA StepsApart ==
  ASSUME [Next]_vars
  PROVE  /\ CallsNext \/ UNCHANGED callVars
         /\ RevsNext \/ UNCHANGED revVars
         /\ SvnNext \/ UNCHANGED svnVars
         /\ TrieNext \/ UNCHANGED trieVars
         /\ DirsNext \/ UNCHANGED dirVars
         /\ FwdNext \/ UNCHANGED fwdVars
         /\ ZipperNext \/ UNCHANGED zipperVars
         /\ part' = part
<1>1. MapNext => UNCHANGED <<part, callVars, revVars, svnVars, trieVars, dirVars, fwdVars,
        zipperVars>>
  BY DEF MapNext, Map, toolVars
<1>2. HandNext => UNCHANGED <<part, callVars, revVars, svnVars, trieVars, dirVars, fwdVars,
        zipperVars>>
  BY DEF HandNext, Hand, toolVars
<1>3. CallsNext => UNCHANGED <<part, revVars, svnVars, trieVars, dirVars, fwdVars, zipperVars>>
  BY DEF CallsNext, InCalls, toolVars
<1>4. RevsNext => UNCHANGED <<part, callVars, svnVars, trieVars, dirVars, fwdVars, zipperVars>>
  BY DEF RevsNext, InRevs, toolVars
<1>5. SvnNext => UNCHANGED <<part, callVars, revVars, trieVars, dirVars, fwdVars, zipperVars>>
  BY DEF SvnNext, InSvn, toolVars
<1>6. TrieNext => UNCHANGED <<part, callVars, revVars, svnVars, dirVars, fwdVars, zipperVars>>
  BY DEF TrieNext, InTrie, toolVars
<1>7. DirsNext => UNCHANGED <<part, callVars, revVars, svnVars, trieVars, fwdVars, zipperVars>>
  BY DEF DirsNext, InDirs, toolVars
<1>8. FwdNext => UNCHANGED <<part, callVars, revVars, svnVars, trieVars, dirVars, zipperVars>>
  BY DEF FwdNext, InFwd, toolVars
<1>9. ZipperNext => UNCHANGED <<part, callVars, revVars, svnVars, trieVars, dirVars, fwdVars>>
  BY DEF ZipperNext, InZipper, toolVars
<1>10. UNCHANGED vars => UNCHANGED <<part, callVars, revVars, svnVars, trieVars, dirVars,
         fwdVars, zipperVars>>
  BY DEF vars, toolVars
<1> QED
  BY <1>1, <1>2, <1>3, <1>4, <1>5, <1>6, <1>7, <1>8, <1>9, <1>10 DEF Next

LEMMA PartSteps ==
  ASSUME [Next]_vars
  PROVE  /\ [Calls!Next]_(Calls!vars) /\ [Revs!Next]_(Revs!vars) /\ [Svn!Next]_(Svn!vars)
         /\ [Trie!Next]_(Trie!vars) /\ [Dirs!Next]_(Dirs!vars)
         /\ [Forward!Next]_(Forward!vars) /\ [Zipper!Next]_(Zipper!vars)
<1>1. [Calls!Next]_(Calls!vars)
  <2>1. CallsNext => Calls!Next
    BY DEF CallsNext, InCalls, Calls!Next, Calls!Step, Calls!GitStep
  <2>2. UNCHANGED callVars => UNCHANGED Calls!vars
    BY DEF callVars, Calls!vars
  <2> QED
    BY <2>1, <2>2, StepsApart
<1>2. [Svn!Next]_(Svn!vars)
  <2>1. SvnNext => Svn!Next
    BY DEF SvnNext, InSvn, Svn!Next, Svn!Run
  <2>2. UNCHANGED svnVars => UNCHANGED Svn!vars
    BY DEF svnVars, Svn!vars
  <2> QED
    BY <2>1, <2>2, StepsApart
<1>3. [Trie!Next]_(Trie!vars)
  <2>1. TrieNext => Trie!Next
    BY DEF TrieNext, InTrie, Trie!Next
  <2>2. UNCHANGED trieVars => UNCHANGED Trie!vars
    BY DEF trieVars, Trie!vars
  <2> QED
    BY <2>1, <2>2, StepsApart
<1>4. [Dirs!Next]_(Dirs!vars)
  <2>1. DirsNext => Dirs!Next
    BY DEF DirsNext, InDirs, Dirs!Next
  <2>2. UNCHANGED dirVars => UNCHANGED Dirs!vars
    BY DEF dirVars, Dirs!vars, Dirs!masks
  <2> QED
    BY <2>1, <2>2, StepsApart
<1>5. [Zipper!Next]_(Zipper!vars)
  <2>1. ZipperNext => Zipper!Next
    BY DEF ZipperNext, InZipper, Zipper!Next
  <2>2. UNCHANGED zipperVars => UNCHANGED Zipper!vars
    BY DEF zipperVars, Zipper!vars
  <2> QED
    BY <2>1, <2>2, StepsApart
<1>6. [Revs!Next]_(Revs!vars)
  <2>1. RevsNext => Revs!Next
    BY DEF RevsNext, InRevs, Revs!Next
  <2>2. UNCHANGED revVars => UNCHANGED Revs!vars
    BY DEF revVars, Revs!vars, Revs!history
  <2> QED
    BY <2>1, <2>2, StepsApart
<1>7. [Forward!Next]_(Forward!vars)
  <2>1. FwdNext => Forward!Next
    BY SMTT(30) DEF FwdNext, InFwd, Forward!Next, Forward!Run
  <2>2. UNCHANGED fwdVars => UNCHANGED Forward!vars
    BY DEF fwdVars, Forward!vars
  <2> QED
    BY <2>1, <2>2, StepsApart
<1> QED
  BY <1>1, <1>2, <1>3, <1>4, <1>5, <1>6, <1>7

(***************************************************************************)
(* The instances with the theorems are the instances of Parts.             *)
(***************************************************************************)
LEMMA SameTrie ==
  /\ Trie!TrieAssumption => TrieP!TrieAssumption
  /\ Trie!Init => TrieP!Init
  /\ [Trie!Next]_(Trie!vars) => [TrieP!Next]_(TrieP!vars)
  /\ TrieP!OneEntryPerName => Trie!OneEntryPerName
  /\ TrieP!TypeOK => Trie!TypeOK
<1> USE DEF
      Trie!Lengths, TrieP!Lengths, Trie!TrieAssumption, TrieP!TrieAssumption, Trie!vars,
          TrieP!vars, Trie!Sub, TrieP!Sub, Trie!Init, TrieP!Init, Trie!Mismatch,
          TrieP!Mismatch, Trie!IsSubtrie, TrieP!IsSubtrie, Trie!SlotOf, TrieP!SlotOf,
          Trie!Found, TrieP!Found, Trie!Entry, TrieP!Entry, Trie!LastLengthShort,
          TrieP!LastLengthShort, Trie!LastLength, TrieP!LastLength, Trie!Parted,
          TrieP!Parted, Trie!Over, TrieP!Over, Trie!Lookup, TrieP!Lookup, Trie!Insert,
          TrieP!Insert, Trie!Next, TrieP!Next,
      Trie!OneEntryPerName, TrieP!OneEntryPerName, Trie!TypeOK, TrieP!TypeOK
<1> QED
  BY ZenonT(60)

TableP == INSTANCE SplitMonoTable_proofs WITH Key <- MapKey, Digit <- MapDigit

LEMMA SameTable ==
  /\ MapTable!ConstantsAssumption => TableP!ConstantsAssumption
  /\ MapTable!Init => TableP!Init
  /\ MapNext => TableP!Next
  /\ UNCHANGED tableVars => UNCHANGED TableP!vars
  /\ TableP!FilesLagBehind => MapTable!FilesLagBehind
<1> USE DEF MapNext, Map, tableVars,
      MapTable!streams, TableP!streams, MapTable!files, TableP!files, MapTable!update,
      TableP!update, MapTable!vars, TableP!vars, MapTable!Root, TableP!Root,
      MapTable!NoOp, TableP!NoOp, MapTable!NoReply, TableP!NoReply, MapTable!RootOwner,
      TableP!RootOwner, MapTable!EmptyIndex, TableP!EmptyIndex, MapTable!Init,
      TableP!Init, MapTable!FlushIndex, TableP!FlushIndex, MapTable!FlushData,
      TableP!FlushData, MapTable!Open, TableP!Open, MapTable!CloseData,
      TableP!CloseData, MapTable!CloseIndex, TableP!CloseIndex, MapTable!Begin,
      TableP!Begin, MapTable!Looking, TableP!Looking, MapTable!EntryAt, TableP!EntryAt,
      MapTable!Place, TableP!Place, MapTable!BitSet, TableP!BitSet, MapTable!Hit,
      TableP!Hit, MapTable!HitNum, TableP!HitNum, MapTable!Readable, TableP!Readable,
      MapTable!HitKey, TableP!HitKey, MapTable!HitValue, TableP!HitValue,
      MapTable!Descend, TableP!Descend, MapTable!Answer, TableP!Answer, MapTable!Errors,
      TableP!Errors, MapTable!AnswerAndGoOn, TableP!AnswerAndGoOn, MapTable!FoundMapped,
      TableP!FoundMapped, MapTable!FoundUnreadable, TableP!FoundUnreadable,
      MapTable!LookupAbsent, TableP!LookupAbsent, MapTable!SameByte, TableP!SameByte,
      MapTable!NewEntry, TableP!NewEntry, MapTable!Mismatch, TableP!Mismatch,
      MapTable!Collision, TableP!Collision, MapTable!CollisionOwners,
      TableP!CollisionOwners, MapTable!AppendRecord, TableP!AppendRecord,
      MapTable!InsertNew, TableP!InsertNew, MapTable!KeysShareThePath,
      TableP!KeysShareThePath, MapTable!InsertCollision, TableP!InsertCollision,
      MapTable!Pop, TableP!Pop, MapTable!Larger, TableP!Larger, MapTable!WriteEntry,
      TableP!WriteEntry, MapTable!WriteBitmap, TableP!WriteBitmap, MapTable!Fail,
      TableP!Fail, MapTable!Kill, TableP!Kill, MapTable!Save, TableP!Save,
      MapTable!Reset, TableP!Reset, MapTable!Process, TableP!Process, MapTable!Next,
      TableP!Next, MapTable!Spec, TableP!Spec, MapTable!Nowhere, TableP!Nowhere,
      MapTable!Trail, TableP!Trail, MapTable!Found, TableP!Found, MapTable!MapOf,
      TableP!MapOf, MapTable!Within, TableP!Within, MapTable!FilesLagBehind,
      TableP!FilesLagBehind
<1> QED
  BY ZenonT(60)

(***************************************************************************)
(* The inductive invariants of the parts, side by side.                    *)
(***************************************************************************)
ByHand == part = "by hand"
TablesInv == IF ByHand THEN HandInv ELSE TableP!IInv /\ TableP!MInv

PartsInv ==
  /\ part \in PartNames
  /\ TablesInv
  /\ CallsInv /\ RevsInv /\ SvnInv /\ TrieP!IInv /\ DirsInv /\ FwdInv /\ ZipperInv

LEMMA TableSteps ==
  ASSUME [Next]_vars
  PROVE  /\ ByHand => HandNext \/ UNCHANGED tableVars
         /\ ~ByHand => MapNext \/ UNCHANGED tableVars
<1>1. MapNext => ~ByHand
  BY ZenonT(30) DEF MapNext, Map, ByHand
<1>2. HandNext => ByHand
  BY ZenonT(30) DEF HandNext, Hand, ByHand
<1>3. CallsNext \/ RevsNext \/ SvnNext \/ TrieNext \/ DirsNext \/ FwdNext \/ ZipperNext
        => UNCHANGED tableVars
  BY DEF CallsNext, InCalls, RevsNext, InRevs, SvnNext, InSvn, TrieNext, InTrie, DirsNext, InDirs,
    FwdNext, InFwd, ZipperNext, InZipper
<1>4. UNCHANGED vars => UNCHANGED tableVars
  BY DEF vars
<1> QED
  BY <1>1, <1>2, <1>3, <1>4 DEF Next

LEMMA PartsInit == Init => PartsInv
<1> SUFFICES ASSUME Init PROVE PartsInv
  OBVIOUS
<1>1. TrieP!IInv
  BY SameTrie, TrieP!InitOK DEF Init
<1>2. CallsInv
  BY CallsInitOK, PartsAssumption DEF Init
<1>3. TablesInv
  <2>1. IF ByHand THEN HandTable!Init ELSE MapTable!Init
    BY ZenonT(30) DEF Init, ByHand
  <2>2. CASE ByHand
    BY <2>1, <2>2, HandInitOK DEF TablesInv
  <2>3. CASE ~ByHand
    BY <2>1, <2>3, SameTable, TableP!InitOK, TableP!InitMap, PartsAssumption DEF TablesInv
  <2> QED
    BY <2>2, <2>3
<1> QED
  BY <1>1, <1>2, <1>3, RevsInit, SvnInit, DirsInit, FwdInit, ZipperInit DEF Init, PartsInv

LEMMA PartsNext == ASSUME PartsInv, [Next]_vars PROVE PartsInv'
<1>1. SvnInv'
  BY PartSteps, SvnNextOK DEF PartsInv
<1>2. TrieP!IInv'
  BY PartSteps, SameTrie, TrieP!NextOK, PartsAssumption DEF PartsInv
<1>3. DirsInv'
  BY PartSteps, DirsNextOK DEF PartsInv
<1>4. ZipperInv'
  BY PartSteps, ZipperNextOK DEF PartsInv
<1>5. RevsInv'
  BY PartSteps, RevsNextOK DEF PartsInv
<1>6. FwdInv'
  BY PartSteps, FwdNextOK DEF PartsInv
<1>7. CallsInv'
  BY PartSteps, CallsNextOK, PartsAssumption DEF PartsInv
<1>8. part' \in PartNames
  BY StepsApart DEF PartsInv
<1>9. TablesInv'
  <2>1. part' = part /\ ByHand' = ByHand
    BY StepsApart DEF ByHand
  <2>2. CASE ByHand
    <3>1. HandInv /\ (HandNext \/ UNCHANGED tableVars)
      BY <2>2, TableSteps DEF PartsInv, TablesInv
    <3> QED
      BY <2>1, <2>2, <3>1, HandNextOK, HandSame DEF TablesInv
  <2>3. CASE ~ByHand
    <3>1. TableP!IInv /\ TableP!MInv /\ (MapNext \/ UNCHANGED tableVars)
      BY <2>3, TableSteps DEF PartsInv, TablesInv
    <3>2. [TableP!Next]_(TableP!vars)
      BY <3>1, SameTable
    <3>3. TableP!IInv' /\ TableP!MInv'
      BY <3>1, <3>2, SameTable, TableP!StepOK, TableP!StepMap, PartsAssumption
    <3> QED
      BY <2>1, <2>3, <3>3 DEF TablesInv
  <2> QED
    BY <2>2, <2>3
<1> QED
  BY <1>1, <1>2, <1>3, <1>4, <1>5, <1>6, <1>7, <1>8, <1>9 DEF PartsInv

\* The invariants of the parts hold together, in every behaviour of the whole.
THEOREM Invariance == Spec => []PartsInv
<1>1. PartsInv /\ [Next]_vars => PartsInv'
  BY PartsNext
<1> QED
  BY <1>1, PartsInit, PTL DEF Spec

\* The variables of every part have their types.
THEOREM TypeCorrect == Spec => []TypeOK
<1>1. PartsInv => TypeOK
  <2> SUFFICES ASSUME PartsInv PROVE TypeOK
    OBVIOUS
  <2>1. Calls!TypeOK
    BY DEF PartsInv, CallsInv
  <2>2. Svn!TypeOK
    BY DEF PartsInv, SvnInv, TreeSound, FileSound, SvnRunSound, Svn!TypeOK, Svn!IsFile, Svn!NoRun
  <2>3. Trie!TypeOK
    <3>1. TrieP!IInv
      BY DEF PartsInv
    <3> QED
      BY <3>1, SameTrie DEF TrieP!IInv, TrieP!SlotSound, TrieP!ReplySound, TrieP!TypeOK
  <2>4. Zipper!TypeOK
    BY DEF PartsInv, ZipperInv, Zipper!TypeOK
  <2> QED
    BY <2>1, <2>2, <2>3, <2>4, RevsTyped, DirsTyped, FwdTyped DEF PartsInv, TypeOK
<1> QED
  BY <1>1, Invariance, PTL

\* A reader finds in the files nothing but what the process that writes them
\* has, with its values, whatever has been flushed: for mt-db with keys that
\* collide anywhere, for files that are opened again after a kill, as they
\* are, as long as every insertion is at the root.
THEOREM FilesLagBehindAlways == Spec => []FilesLagBehind
<1>1. PartsInv => FilesLagBehind
  <2> SUFFICES ASSUME PartsInv PROVE FilesLagBehind
    OBVIOUS
  <2>1. ByHand => HandTable!FilesLagBehind
    BY HandFilesLag DEF PartsInv, TablesInv
  <2>2. ~ByHand => MapTable!FilesLagBehind
    <3>1. ~ByHand => TableP!IInv /\ TableP!MInv
      BY DEF PartsInv, TablesInv
    <3>2. ~ByHand => TableP!FilesLagBehind
      BY <3>1, SameTable, TableP!FilesMap, PartsAssumption DEF TableP!FilesLagBehind
    <3> QED
      BY <3>2, SameTable
  <2> QED
    BY <2>1, <2>2, ZenonT(30) DEF FilesLagBehind, ByHand
<1> QED
  BY <1>1, Invariance, PTL

\* A cherry-pick names a revision in its message and is not that revision:
\* every downstream commit that is published has been translated, whichever
\* runs translated its ancestors, and nothing of llvm.org ever is.
THEOREM DownstreamTranslatedAlways == Spec => []DownstreamTranslated
<1>1. PartsInv => DownstreamTranslated
  BY PublishedTranslated DEF PartsInv, DownstreamTranslated
<1> QED
  BY <1>1, Invariance, PTL

\* As far as one process translates, the newest base wins: the base of a
\* commit is the newest revision that it contains, and the directories that
\* nobody tracks are as of that revision.
THEOREM NewestBaseWinsInOneRunAlways == Spec => []NewestBaseWinsInOneRun
<1>1. PartsInv => NewestBaseWinsInOneRun
  BY NewestWins DEF PartsInv, NewestBaseWinsInOneRun
<1> QED
  BY <1>1, Invariance, PTL

\* The parent of a revision that mt-db has is in mt-db as well, however the
\* runs were started, cut short and killed, so that the search for what is
\* yet to be mapped never passes over a revision.
THEOREM ParentsMappedAlways == Spec => []ParentsMapped
<1>1. PartsInv => ParentsMapped
  BY DEF PartsInv, SvnInv, Closed, ParentsMapped, Svn!ParentsMapped
<1> QED
  BY <1>1, Invariance, PTL

\* A name that the trie has keeps its one entry, whatever was inserted around
\* it since, and no other name has that entry.
THEOREM OneEntryPerNameAlways == Spec => []OneEntryPerName
<1>1. PartsInv => Trie!OneEntryPerName
  <2> SUFFICES ASSUME TrieP!IInv PROVE Trie!OneEntryPerName
    BY DEF PartsInv
  <2>1. TrieP!OneEntryPerName
    BY PartsAssumption, SameTrie, TrieP!OneEntry
  <2> QED
    BY <2>1, SameTrie
<1> QED
  BY <1>1, Invariance, PTL DEF OneEntryPerName

\* The masks of the directories stay with the names that they were declared
\* for, in whichever order the directories are declared and inserted.
THEOREM MasksFollowAlways == Spec => []MasksFollow
<1>1. PartsInv => MasksFollow
  BY MasksFollowTheNames DEF PartsInv, MasksFollow
<1> QED
  BY <1>1, Invariance, PTL

\* Every name of the monorepo belongs to the directory that is declared for
\* it or, if there is none, to the root, if that is declared.
THEOREM EveryNameIsClaimedAlways == Spec => []EveryNameIsClaimed
<1>1. PartsInv => EveryNameIsClaimed
  BY NamesClaimed DEF PartsInv, EveryNameIsClaimed
<1> QED
  BY <1>1, Invariance, PTL

\* No commit of either branch stays behind: a zippered merge of two branches
\* that are merged up to their heads has nothing left to merge.
THEOREM NothingLeftBehindAlways == Spec => []NothingLeftBehind
<1>1. PartsInv => NothingLeftBehind
  BY NothingLeft DEF PartsInv, NothingLeftBehind
<1> QED
  BY <1>1, Invariance, PTL

\* A call that succeeds has read all that git printed, also when it was
\* interrupted.
WholeOutput == \A t \in Thread : call[t].result = "reply" => call[t].reply = Output

THEOREM WholeOutputAlways == Spec => []WholeOutput
<1>1. PartsInv => WholeOutput
  BY DEF PartsInv, CallsInv, Balanced, WholeOutput
<1> QED
  BY <1>1, Invariance, PTL

\* A call of git that succeeds returns what git printed, all of it and
\* nothing else, if no read is interrupted: an interrupted one leaves a chunk
\* in the reply that nobody has read.
THEOREM ReplyIsOutputAlways == ASSUME ReadsGoOn PROVE Spec => []ReplyIsOutput
<1>1. PartsInv => ReplyIsOutput
  BY DEF PartsInv, CallsInv, Balanced, ReplyIsOutput, Calls!ReplyIsOutput
<1> QED
  BY <1>1, Invariance, PTL
=============================================================================
