--------------------------- MODULE Minirel_proofs ---------------------------
(***************************************************************************)
(* Theorems about sessions, for any names, attributes, queries, either     *)
(* version of the program, and however much goes wrong.                    *)
(***************************************************************************)
EXTENDS Minirel, NatLemmas, SequenceTheorems

-----------------------------------------------------------------------------
(* The shape of a command.                                                 *)

Creating   == {"checkNew", "addRel", "addAttrs", "createFile"}
Destroying == {"getRelInfo", "dropAttrs", "dropRel", "destroyFile"}
Using      == {"lookUp", "load", "print", "insert", "delete"}
Closing    == {"closeRelCat", "closeAttrCat", "exit"}
Steps      == Creating \cup Destroying \cup Using \cup Closing \cup {"result", "scan"}

(* The steps that may come next to each other. *)
Follows(a, b) ==
  \/ a = "checkNew" /\ b = "addRel"
  \/ a = "addRel" /\ b = "addAttrs"
  \/ a = "addAttrs" /\ b = "createFile"
  \/ a = "createFile" /\ b = "scan"
  \/ a = "getRelInfo" /\ b = "dropAttrs"
  \/ a = "dropAttrs" /\ b = "dropRel"
  \/ a = "dropRel" /\ b = "destroyFile"
  \/ a = "lookUp" /\ b \in {"load", "print", "insert"}
  \/ a = "result" /\ b = "scan"
  \/ a = "scan" /\ b = "print"
  \/ a = "print" /\ b = "getRelInfo"
  \/ a = "closeRelCat" /\ b = "closeAttrCat"
  \/ a = "closeAttrCat" /\ b = "exit"

Ordered(todo) == \A i \in 1 .. Len(todo) - 1 : Follows(todo[i], todo[i + 1])
Only(todo, S) == \A i \in 1 .. Len(todo) : todo[i] \in S
LastOf(todo)  == todo[Len(todo)]

(* What the commands on a relation consist of, and end with.               *)
Planned(op, rel, todo) ==
  \/ op = "create" /\ rel # Tmp /\ Only(todo, Creating) /\ LastOf(todo) = "createFile"
  \/ op = "destroy" /\ Only(todo, Destroying) /\ LastOf(todo) = "destroyFile"
  \/ op \in {"load", "print", "help", "insert", "delete"} /\ rel # Tmp /\ Only(todo, Using)
  \/ /\ op \in {"select", "join"} /\ rel # Tmp
     /\ Only(todo, Creating \cup {"result", "scan"}) /\ LastOf(todo) = "scan"
  \/ /\ op \in {"select", "join"} /\ rel = Tmp
     /\ Only(todo, Creating \cup Destroying \cup {"result", "scan", "print"})
     /\ LastOf(todo) = "destroyFile"
  \/ op = "quit" /\ rel = Tmp /\ Only(todo, Closing) /\ LastOf(todo) = "exit"

(* A record with the fields of cmd. *)
IsCommand(c) ==
  c = [op |-> c.op, arg |-> c.arg, rel |-> c.rel, from |-> c.from, attrs |-> c.attrs,
       todo |-> c.todo, left |-> c.left, match |-> c.match, status |-> c.status, had |-> c.had]

CommandSound ==
  /\ IsCommand(cmd)
  /\ cmd.rel \in Names
  /\ cmd.attrs \in Seq(Attrs \cup {Unset})
  /\ cmd.todo \in Seq(Steps)
  /\ cmd # Idle => /\ cmd.todo # <<>>
                   /\ Ordered(cmd.todo)
                   /\ Planned(cmd.op, cmd.rel, cmd.todo)
                   /\ cmd.op \in {"create", "destroy"} => cmd.status = "OK"
                   /\ reply = NoReply

-----------------------------------------------------------------------------
(* The inductive invariant.                                                *)

Files == [kind : {"none", "heap", "part"}, leaked : BOOLEAN, tuples : Counts]
Rows  == [Names -> Seq(Attrs)]

(* What the variables can be. *)
DataTypes ==
  /\ phase \in {5, 6}
  /\ file \in [Names -> Files]
  /\ relcat \in [Names -> Nat] /\ attrcat \in Rows
  /\ disk \in [relcat : [Names -> Nat], attrcat : Rows]
  /\ harmed \subseteq Names

TypeInv == DataTypes /\ CommandSound

(* A heap file that nobody holds. *)
Ready(n) == file[n].kind = "heap" /\ ~file[n].leaked

(* What there is of n, the relation of the command, when h is its next     *)
(* step and attrs are its attributes, if nothing has gone wrong for it.    *)
HalfDone(h, n, attrs) ==
  /\ h = "addRel" => Absent(n)
  /\ h = "addAttrs" => relcat[n] = Len(attrs) /\ attrcat[n] = <<>> /\ file[n].kind = "none"
  /\ h = "createFile" => relcat[n] = Len(attrs) /\ attrcat[n] = attrs /\ file[n].kind = "none"
  /\ h = "dropAttrs" => /\ relcat[n] = Len(attrs) /\ relcat[n] > 0
                        /\ attrcat[n] = attrs /\ Ready(n)
  /\ h = "dropRel" => relcat[n] > 0 /\ attrcat[n] = <<>> /\ Ready(n)
  /\ h = "destroyFile" => relcat[n] = 0 /\ attrcat[n] = <<>> /\ Ready(n)
  /\ h \in Using \cup Closing \cup {"checkNew", "getRelInfo", "result", "scan"} => Sound(n)
  /\ n = Tmp /\ h \in Closing \cup {"checkNew", "result"} => Absent(n)

(* What there is of it in phase 6, whatever has gone wrong for it.         *)
AllDropped(h, n, attrs) ==
  /\ h = "dropAttrs" => attrcat[n] = attrs
  /\ h \in {"dropRel", "destroyFile"} => attrcat[n] = <<>>
  /\ h = "destroyFile" => relcat[n] = 0

(* The attributes that a relation is created with. *)
Given(h, attrs) == h \in Creating \cup {"result"} => attrs \in Seq(Attrs) \ {<<>>}

Midway(h, n, attrs) ==
  /\ n \notin harmed => HalfDone(h, n, attrs)
  /\ phase = 6 => AllDropped(h, n, attrs)
  /\ Given(h, attrs)

(* A relation that no command is about is as it should be, and the result  *)
(* of a query is not there.                                                *)
AtRest(n) == n \notin harmed => Sound(n) /\ (n = Tmp => Absent(n))

InTheMiddle == cmd # Idle => Midway(Head(cmd.todo), cmd.rel, cmd.attrs)
AroundIt    == \A n \in Names : cmd = Idle \/ n # cmd.rel => AtRest(n)

SessionInv == TypeInv /\ InTheMiddle /\ AroundIt /\ OkMeansDone

-----------------------------------------------------------------------------
(* Sequences of steps.                                                     *)

(* What is left of a sequence without its head.                            *)
LEMMA TailIs ==
  ASSUME NEW S, NEW s \in Seq(S), s # <<>>
  PROVE  /\ Len(s) \in Nat /\ Len(s) > 0 /\ Head(s) = s[1] /\ Head(s) \in S
         /\ Tail(s) \in Seq(S) /\ Len(Tail(s)) = Len(s) - 1
         /\ \A i \in 1 .. Len(s) - 1 : Tail(s)[i] = s[i + 1]
         /\ Len(s) > 1 => Tail(s) # <<>> /\ Head(Tail(s)) = s[2]
<1>1. Len(s) \in Nat /\ Len(s) > 0 /\ Head(s) = s[1] /\ Head(s) \in S
  BY EmptySeq, LenProperties, HeadTailProperties
<1>2. Tail(s) \in Seq(S) /\ Len(Tail(s)) = Len(s) - 1
      /\ \A i \in 1 .. Len(Tail(s)) : Tail(s)[i] = s[i + 1]
  BY HeadTailProperties
<1>3. ASSUME Len(s) > 1 PROVE Tail(s) # <<>> /\ Head(Tail(s)) = s[2]
  <2>1. Len(Tail(s)) > 0 /\ 1 \in 1 .. Len(Tail(s))
    BY <1>1, <1>2, <1>3
  <2>2. Tail(s) # <<>>
    <3> DEFINE t == Tail(s)
    <3>1. Len(t) > 0
      BY <2>1
    <3> HIDE DEF t
    <3>2. t # <<>>
      BY <3>1
    <3> QED
      BY <3>2 DEF t
  <2>3. Head(Tail(s)) = Tail(s)[1]
    BY <1>2, <2>2, HeadTailProperties
  <2> QED
    BY <1>2, <2>1, <2>2, <2>3
<1> QED
  BY <1>1, <1>2, <1>3

(* A plan holds of what is left of it.                                     *)
LEMMA PlanGoesOn ==
  ASSUME NEW todo \in Seq(Steps), Len(todo) > 1, NEW op, NEW rel,
         Ordered(todo), Planned(op, rel, todo)
  PROVE  /\ Tail(todo) \in Seq(Steps) /\ Tail(todo) # <<>>
         /\ Ordered(Tail(todo)) /\ Planned(op, rel, Tail(todo))
         /\ Follows(Head(todo), Head(Tail(todo)))
<1> DEFINE t == Tail(todo)
<1>1. /\ Len(todo) \in Nat /\ Head(todo) = todo[1]
      /\ t \in Seq(Steps) /\ Len(t) = Len(todo) - 1
      /\ \A i \in 1 .. Len(todo) - 1 : t[i] = todo[i + 1]
      /\ t # <<>> /\ Head(t) = todo[2]
  BY TailIs, EmptySeq
<1> HIDE DEF t
<1>2. Ordered(t)
  BY <1>1 DEF Ordered
<1>3. \A S : Only(todo, S) => Only(t, S)
  BY <1>1 DEF Only
<1>4. LastOf(t) = LastOf(todo)
  BY <1>1 DEF LastOf
<1>5. Planned(op, rel, t)
  BY <1>3, <1>4 DEF Planned
<1>6. Follows(Head(todo), Head(t))
  BY <1>1 DEF Ordered
<1> QED
  BY <1>1, <1>2, <1>5, <1>6 DEF t

-----------------------------------------------------------------------------
(* Commands that go on and end.                                            *)

(* A command that is being executed. *)
LEMMA Executing ==
  ASSUME CommandSound, cmd.todo # <<>>
  PROVE  /\ cmd # Idle
         /\ Head(cmd.todo) \in Steps /\ Len(cmd.todo) \in Nat /\ Len(cmd.todo) > 0
         /\ Ordered(cmd.todo) /\ Planned(cmd.op, cmd.rel, cmd.todo) /\ reply = NoReply
<1>1. cmd # Idle
  <2>1. Idle.todo = <<>>
    BY DEF Idle
  <2> QED
    BY <2>1
<1>2. cmd.todo \in Seq(Steps)
  BY DEF CommandSound
<1> QED
  BY <1>1, <1>2, TailIs DEF CommandSound

(* The commands that may end with step s. *)
MayEnd(op, n, s) ==
  /\ s \in Using \cup {"createFile", "destroyFile", "scan", "exit"}
  /\ op = "create" => s = "createFile"
  /\ op = "destroy" => s = "destroyFile"
  /\ op = "quit" => s = "exit"
  /\ n = Tmp => s \in {"destroyFile", "exit"}

(* The next step is the last one.                                        *)
LEMMA LastStep ==
  ASSUME CommandSound, cmd.todo # <<>>, ~(Len(cmd.todo) > 1)
  PROVE  MayEnd(cmd.op, cmd.rel, Head(cmd.todo))
<1>1. cmd.todo \in Seq(Steps) /\ cmd # Idle
  BY Executing DEF CommandSound
<1>2. Len(cmd.todo) = 1 /\ Head(cmd.todo) = cmd.todo[1]
  <2> DEFINE k == Len(cmd.todo)
  <2>1. k \in Nat /\ k > 0 /\ ~(k > 1) /\ Head(cmd.todo) = cmd.todo[1]
    BY <1>1, TailIs
  <2> HIDE DEF k
  <2>2. k = 1
    BY <2>1
  <2> QED
    BY <2>1, <2>2 DEF k
<1>3. LastOf(cmd.todo) = Head(cmd.todo)
  BY <1>2 DEF LastOf
<1>4. Planned(cmd.op, cmd.rel, cmd.todo)
  BY Executing
<1>5. Only(cmd.todo, Using) => Head(cmd.todo) \in Using
  BY <1>2 DEF Only
<1> QED
  BY <1>3, <1>4, <1>5 DEF Planned, MayEnd

(* A command that ends: what it reports, and that none is left. *)
LEMMA Finishes ==
  ASSUME CommandSound, cmd.todo # <<>>, NEW st, Finish(st)
  PROVE  /\ cmd' = Idle /\ CommandSound'
         /\ reply'.op = cmd.op /\ reply'.rel = cmd.rel /\ reply'.had = cmd.had
         /\ reply'.status = IF cmd.status # "OK" THEN cmd.status ELSE st
<1>1. /\ cmd' = Idle
      /\ reply' = [op |-> cmd.op, arg |-> cmd.arg, rel |-> cmd.rel, had |-> cmd.had,
                   status |-> IF cmd.status # "OK" THEN cmd.status ELSE st]
  BY DEF Finish
<1>2. /\ Idle.rel = Tmp /\ Idle.attrs = <<>> /\ Idle.todo = <<>>
      /\ IsCommand(Idle)
  BY DEF Idle, IsCommand
<1>3. Tmp \in Names /\ <<>> \in Seq(Attrs \cup {Unset}) /\ <<>> \in Seq(Steps)
  BY EmptySeq DEF Names
<1>4. CommandSound'
  BY <1>1, <1>2, <1>3 DEF CommandSound, IsCommand
<1> QED
  BY <1>1, <1>4

(* A command that goes on with c, which is cmd but for what its step has   *)
(* put into it.                                                            *)
SameCommand(c) ==
  /\ IsCommand(c) /\ c.op = cmd.op /\ c.rel = cmd.rel /\ c.todo = cmd.todo
  /\ c.attrs \in Seq(Attrs \cup {Unset})
  /\ cmd.op \in {"create", "destroy"} => c.status = cmd.status

(* What is left of a command is one.                                     *)
LEMMA GoesOn ==
  ASSUME CommandSound, cmd.todo # <<>>, NEW c, SameCommand(c), Continue(c), Len(cmd.todo) > 1
  PROVE  /\ cmd' # Idle /\ CommandSound' /\ reply' = NoReply
         /\ cmd'.op = cmd.op /\ cmd'.rel = cmd.rel /\ cmd'.attrs = c.attrs /\ cmd'.had = c.had
         /\ Follows(Head(cmd.todo), Head(cmd'.todo)) /\ Head(cmd'.todo) \in Steps
<1> DEFINE t == Tail(cmd.todo)
<1>1. cmd' = [c EXCEPT !.todo = t] /\ reply' = reply
  BY DEF Continue, SameCommand
<1>2. /\ cmd # Idle /\ Ordered(cmd.todo) /\ Planned(cmd.op, cmd.rel, cmd.todo) /\ reply = NoReply
      /\ cmd.todo \in Seq(Steps) /\ cmd.rel \in Names
      /\ cmd.op \in {"create", "destroy"} => cmd.status = "OK"
  BY Executing DEF CommandSound
<1>3. /\ t \in Seq(Steps) /\ t # <<>> /\ Ordered(t) /\ Planned(cmd.op, cmd.rel, t)
      /\ Follows(Head(cmd.todo), Head(t))
  BY <1>2, PlanGoesOn
<1>4. Head(t) \in Steps
  BY <1>3, TailIs
<1> HIDE DEF t
<1>5. /\ cmd'.op = c.op /\ cmd'.rel = c.rel /\ cmd'.attrs = c.attrs /\ cmd'.todo = t
      /\ cmd'.status = c.status /\ cmd'.had = c.had
      /\ cmd' = [op |-> cmd'.op, arg |-> cmd'.arg, rel |-> cmd'.rel, from |-> cmd'.from,
                 attrs |-> cmd'.attrs, todo |-> cmd'.todo, left |-> cmd'.left,
                 match |-> cmd'.match, status |-> cmd'.status, had |-> cmd'.had]
  BY <1>1 DEF SameCommand, IsCommand
<1>6. cmd' # Idle
  <2>1. Idle.todo = <<>>
    BY DEF Idle
  <2> QED
    BY <1>3, <1>5, <2>1
<1>7. CommandSound'
  BY <1>1, <1>2, <1>3, <1>5 DEF CommandSound, IsCommand, SameCommand
<1> QED
  BY <1>1, <1>2, <1>3, <1>4, <1>5, <1>6, <1>7 DEF SameCommand

-----------------------------------------------------------------------------
(* Steps that change nothing but what their command is about.              *)

Around ==
  /\ phase' = phase
  /\ \A m \in Names \ {cmd.rel} :
       /\ relcat'[m] = relcat[m] /\ attrcat'[m] = attrcat[m]
       /\ file'[m].kind = file[m].kind /\ (~file[m].leaked => ~file'[m].leaked)
       /\ m \in harmed' <=> m \in harmed

(* The other relations stay as they should be.                           *)
LEMMA OthersRest ==
  ASSUME SessionInv, cmd.todo # <<>>, Around, NEW m \in Names, m # cmd.rel
  PROVE  AtRest(m)'
<1>1. AtRest(m)
  BY Executing DEF SessionInv, TypeInv, AroundIt
<1> QED
  BY <1>1 DEF Around, AtRest, Sound, Absent

(* The command ends with an error. *)
LEMMA Ending ==
  ASSUME SessionInv, cmd.todo # <<>>, DataTypes', Around,
         NEW n, n = cmd.rel, NEW st, st # "OK", Finish(st),
         AtRest(n)'
  PROVE  SessionInv'
<1>1. /\ cmd' = Idle /\ CommandSound'
      /\ reply'.op = cmd.op /\ reply'.rel = n
      /\ reply'.status = IF cmd.status # "OK" THEN cmd.status ELSE st
  BY Finishes DEF SessionInv, TypeInv
<1>2. TypeInv' /\ InTheMiddle'
  BY <1>1 DEF TypeInv, InTheMiddle, Idle
<1>3. AroundIt'
  BY OthersRest DEF AroundIt
<1>4. OkMeansDone'
  BY <1>1 DEF OkMeansDone
<1> QED
  BY <1>2, <1>3, <1>4 DEF SessionInv

(* The command goes on, or ends with this step. *)
LEMMA Going ==
  ASSUME SessionInv, cmd.todo # <<>>, DataTypes', Around,
         NEW c, SameCommand(c), Continue(c),
         NEW n, n = cmd.rel, NEW s, s = Head(cmd.todo), NEW a, a = c.attrs,
         \A h \in Steps : Follows(s, h) => Midway(h, n, a)',
         MayEnd(cmd.op, n, s) => AtRest(n)',
         cmd.op = "create" /\ s = "createFile" => file'[n] = NewFile,
         cmd.op = "destroy" /\ s = "destroyFile" => Absent(n)' \/ (phase = 5 /\ n \in harmed')
  PROVE  SessionInv'
<1>1. CommandSound /\ cmd # Idle
  BY Executing DEF SessionInv, TypeInv
<1>2. CASE Len(cmd.todo) > 1
  <2>1. /\ cmd' # Idle /\ CommandSound' /\ reply' = NoReply
        /\ cmd'.rel = n /\ cmd'.attrs = a
        /\ Follows(s, Head(cmd'.todo)) /\ Head(cmd'.todo) \in Steps
    BY <1>1, <1>2, GoesOn
  <2>2. PICK h \in Steps : h = Head(cmd'.todo)
    BY <2>1
  <2>3. Midway(h, n, a)'
    BY <2>1, <2>2
  <2>4. InTheMiddle'
    BY <2>1, <2>2, <2>3 DEF InTheMiddle
  <2>5. AroundIt'
    BY <2>1, OthersRest DEF AroundIt
  <2>6. OkMeansDone'
    BY <2>1 DEF OkMeansDone, NoReply
  <2> QED
    BY <2>1, <2>4, <2>5, <2>6 DEF SessionInv, TypeInv
<1>3. CASE ~(Len(cmd.todo) > 1)
  <2>1. Finish(c.status)
    BY <1>3 DEF Continue, SameCommand
  <2>2. MayEnd(cmd.op, n, s)
    BY <1>1, <1>3, LastStep
  <2>3. /\ cmd' = Idle /\ CommandSound'
        /\ reply'.op = cmd.op /\ reply'.rel = n
        /\ reply'.status = IF cmd.status # "OK" THEN cmd.status ELSE c.status
    BY <1>1, <2>1, Finishes
  <2>4. InTheMiddle'
    BY <2>3 DEF InTheMiddle
  <2>5. AroundIt'
    BY <2>2, OthersRest DEF AroundIt
  <2>6. phase' = phase
    BY DEF Around
  <2>7. OkMeansDone'
    BY <2>2, <2>3, <2>6 DEF OkMeansDone, MayEnd
  <2> QED
    BY <2>3, <2>4, <2>5, <2>7 DEF SessionInv, TypeInv
<1> QED
  BY <1>2, <1>3

(* The command stays at its step. *)
LEMMA Staying ==
  ASSUME SessionInv, cmd.todo # <<>>, DataTypes', Around,
         NEW c, SameCommand(c), cmd' = c, reply' = reply,
         NEW n, n = cmd.rel, NEW s, s = Head(cmd.todo), NEW a, a = c.attrs,
         Midway(s, n, a)'
  PROVE  SessionInv'
<1>1. CommandSound /\ cmd # Idle /\ reply = NoReply
  BY Executing DEF SessionInv, TypeInv
<1>2. CommandSound' /\ cmd' # Idle
  <2>1. cmd'.todo = cmd.todo /\ Idle.todo = <<>>
    BY DEF SameCommand, Idle
  <2>2. cmd' # Idle
    BY <2>1
  <2> QED
    BY <1>1, <2>1, <2>2 DEF CommandSound, SameCommand
<1>3. InTheMiddle'
  BY DEF InTheMiddle, SameCommand
<1>4. AroundIt'
  BY <1>2, OthersRest DEF AroundIt, SameCommand
<1>5. OkMeansDone'
  BY <1>1 DEF OkMeansDone, NoReply
<1> QED
  BY <1>2, <1>3, <1>4, <1>5 DEF SessionInv, TypeInv

(* What is known of a command when its next step is s. *)
LEMMA Here ==
  ASSUME SessionInv, NEW s, At(s)
  PROVE  /\ DataTypes /\ CommandSound /\ cmd.todo # <<>> /\ s = Head(cmd.todo) /\ cmd # Idle
         /\ cmd.rel \in Names /\ cmd.attrs \in Seq(Attrs \cup {Unset})
         /\ SameCommand(cmd) /\ reply = NoReply
         /\ Midway(s, cmd.rel, cmd.attrs)
         /\ Planned(cmd.op, cmd.rel, cmd.todo) /\ cmd.todo[1] = s /\ 1 \in 1 .. Len(cmd.todo)
<1>1. CommandSound /\ DataTypes /\ cmd.todo # <<>> /\ s = Head(cmd.todo)
  BY DEF SessionInv, TypeInv, At
<1>2. /\ cmd # Idle /\ reply = NoReply /\ Planned(cmd.op, cmd.rel, cmd.todo)
      /\ cmd.rel \in Names /\ cmd.attrs \in Seq(Attrs \cup {Unset}) /\ cmd.todo \in Seq(Steps)
      /\ IsCommand(cmd)
  BY <1>1, Executing DEF CommandSound
<1>3. cmd.todo[1] = s /\ 1 \in 1 .. Len(cmd.todo)
  BY <1>1, <1>2, TailIs
<1>4. Midway(s, cmd.rel, cmd.attrs)
  BY <1>1, <1>2 DEF SessionInv, InTheMiddle
<1> QED
  BY <1>1, <1>2, <1>3, <1>4 DEF SameCommand

(* Nothing is changed but the command. *)
LEMMA Unmoved ==
  ASSUME DataTypes, UNCHANGED <<phase, file, catalogs, disk, harmed>>
  PROVE  /\ DataTypes' /\ Around
         /\ \A n : AtRest(n)' <=> AtRest(n)
         /\ \A h, n, a : Midway(h, n, a)' <=> Midway(h, n, a)
<1>1. UNCHANGED <<phase, file, relcat, attrcat, disk, harmed>>
  BY DEF catalogs
<1>2. DataTypes' /\ Around
  BY <1>1 DEF DataTypes, Around
<1>3. \A n : AtRest(n)' <=> AtRest(n)
  BY <1>1 DEF AtRest, Sound, Absent
<1>4. \A h, n, a : Midway(h, n, a)' <=> Midway(h, n, a)
  BY <1>1 DEF Midway, HalfDone, AllDropped, Given, Sound, Absent, Ready
<1> QED
  BY <1>2, <1>3, <1>4

(* A call is refused. *)
LEMMA RefusedSound ==
  ASSUME SessionInv, cmd.todo # <<>>, NEW st, st # "OK",
         Refused(st), AtRest(cmd.rel)
  PROVE  SessionInv'
<1>1. UNCHANGED <<phase, file, catalogs, disk, harmed>> /\ Finish(st)
  BY DEF Refused
<1>2. PICK n : n = cmd.rel
  OBVIOUS
<1>3. AtRest(n)
  BY <1>2
<1>4. DataTypes' /\ Around /\ AtRest(n)'
  BY <1>1, <1>3, Unmoved DEF SessionInv, TypeInv
<1> QED
  BY <1>1, <1>2, <1>4, Ending

(* The process ends, in a command or between two.                          *)
LEMMA LostSound ==
  ASSUME SessionInv, Lost
  PROVE  SessionInv'
<1>1. /\ relcat' = disk.relcat /\ attrcat' = disk.attrcat
      /\ cmd' = Idle /\ reply' = NoReply /\ phase' = phase /\ disk' = disk
  BY DEF Lost
<1>2. PICK tuples \in [{n \in Names : Written(n)} -> Counts] :
        file' = [n \in Names |-> [file[n] EXCEPT !.leaked = FALSE,
                                                 !.tuples = IF Written(n) THEN tuples[n] ELSE @]]
  BY DEF Lost
<1>3. harmed' = harmed \cup
        {n \in Names : \/ <<relcat[n], attrcat[n]>> # <<disk.relcat[n], disk.attrcat[n]>>
                       \/ Written(n)
                       \/ cmd.op \notin {"none", "quit"} /\ n = cmd.rel}
  BY DEF Lost, Harmed
<1>4. DataTypes'
  <2>1. \A n \in Names : file'[n] \in Files
    BY <1>2 DEF SessionInv, TypeInv, DataTypes, Files
  <2>2. file' \in [Names -> Files]
    BY <1>2, <2>1
  <2>3. disk \in [relcat : [Names -> Nat], attrcat : Rows] /\ harmed \subseteq Names /\ phase \in {5, 6}
    BY DEF SessionInv, TypeInv, DataTypes
  <2> QED
    BY <1>1, <1>3, <2>2, <2>3 DEF DataTypes
<1>5. CommandSound'
  BY <1>1, EmptySeq DEF CommandSound, Idle, IsCommand, Names
<1>6. ASSUME NEW n \in Names PROVE AtRest(n)'
  <2> SUFFICES ASSUME n \notin harmed' PROVE Sound(n)' /\ (n = Tmp => Absent(n)')
    BY DEF AtRest
  <2>1. /\ n \notin harmed /\ relcat[n] = disk.relcat[n] /\ attrcat[n] = disk.attrcat[n]
        /\ ~Written(n) /\ (cmd.op \in {"none", "quit"} \/ n # cmd.rel)
    BY <1>3
  <2>2. Sound(n) /\ (n = Tmp => Absent(n))
    <3>1. CASE cmd = Idle \/ n # cmd.rel
      BY <2>1, <3>1 DEF SessionInv, AroundIt, AtRest
    <3>2. CASE cmd # Idle /\ n = cmd.rel
      <4>1. /\ cmd.todo # <<>> /\ cmd.todo \in Seq(Steps)
            /\ Planned(cmd.op, cmd.rel, cmd.todo)
        BY <3>2 DEF SessionInv, TypeInv, CommandSound
      <4>2. Only(cmd.todo, Closing)
        BY <2>1, <3>2, <4>1 DEF Planned
      <4>3. PICK h : h = Head(cmd.todo)
        OBVIOUS
      <4>4. h \in Closing
        BY <4>1, <4>2, <4>3, TailIs DEF Only
      <4>5. HalfDone(h, n, cmd.attrs)
        BY <2>1, <3>2, <4>3 DEF SessionInv, InTheMiddle, Midway
      <4> QED
        BY <4>4, <4>5 DEF HalfDone
    <3> QED
      BY <3>1, <3>2
  <2>3. file'[n] = [file[n] EXCEPT !.leaked = FALSE] /\ file[n] \in Files
    BY <1>2, <2>1 DEF SessionInv, TypeInv, DataTypes, Files
  <2>4. file'[n].kind = file[n].kind /\ ~file'[n].leaked
    BY <2>3 DEF Files
  <2> QED
    BY <1>1, <2>1, <2>2, <2>4 DEF Sound, Absent
<1>7. AroundIt' /\ InTheMiddle'
  BY <1>1, <1>6 DEF AroundIt, InTheMiddle
<1>8. OkMeansDone'
  BY <1>1 DEF OkMeansDone, NoReply
<1> QED
  BY <1>4, <1>5, <1>7, <1>8 DEF SessionInv, TypeInv

-----------------------------------------------------------------------------
(* The end of a session, and the catalogs.                                 *)

(* quit: its three steps keep the invariant.                             *)
LEMMA ClosesSound ==
  ASSUME SessionInv, CloseRelCat \/ CloseAttrCat \/ Exit
  PROVE  SessionInv'
<1>1. PICK s \in Closing : At(s)
  BY DEF CloseRelCat, CloseAttrCat, Exit, Closing
<1>2. PICK n, a : n = cmd.rel /\ a = cmd.attrs
  OBVIOUS
<1>3. /\ DataTypes /\ CommandSound /\ cmd.todo # <<>> /\ s = Head(cmd.todo) /\ n \in Names
      /\ SameCommand(cmd) /\ Midway(s, n, a) /\ Planned(cmd.op, n, cmd.todo)
      /\ cmd.todo[1] = s /\ 1 \in 1 .. Len(cmd.todo)
  BY <1>1, <1>2, Here
<1>4. n = Tmp /\ cmd.op = "quit"
  BY <1>3 DEF Planned, Only, Closing, Creating, Destroying, Using
<1>5. n \notin harmed => Sound(n) /\ Absent(n)
  BY <1>3, <1>4 DEF Midway, HalfDone
<1>6. /\ Continue(cmd) /\ phase' = phase /\ harmed' = harmed
      /\ relcat' = relcat /\ attrcat' = attrcat
      /\ disk' \in [relcat : [Names -> Nat], attrcat : Rows]
      /\ file' = file \/ file' = [m \in Names |-> [file[m] EXCEPT !.leaked = FALSE]]
  BY <1>3 DEF CloseRelCat, CloseAttrCat, Exit, DataTypes, catalogs
<1>7. file' \in [Names -> Files] /\ \A m \in Names : file'[m].kind = file[m].kind
                                                    /\ (~file[m].leaked => ~file'[m].leaked)
  <2>1. file \in [Names -> Files]
    BY <1>3 DEF DataTypes
  <2>2. CASE file' = file
    BY <2>1, <2>2
  <2>3. CASE file' = [m \in Names |-> [file[m] EXCEPT !.leaked = FALSE]]
    <3>1. \A m \in Names : /\ file'[m] = [file[m] EXCEPT !.leaked = FALSE]
                            /\ file[m] \in Files
      BY <2>1, <2>3
    <3>2. \A m \in Names : /\ file'[m] \in Files /\ file'[m].kind = file[m].kind
                            /\ file'[m].leaked = FALSE
      BY <3>1 DEF Files
    <3> QED
      BY <2>3, <3>2
  <2> QED
    BY <1>6, <2>2, <2>3
<1>8. DataTypes' /\ Around
  BY <1>3, <1>6, <1>7 DEF DataTypes, Around
<1>9. n \notin harmed' => Sound(n)' /\ Absent(n)'
  BY <1>3, <1>5, <1>6, <1>7 DEF Sound, Absent
<1>10. AtRest(n)'
  BY <1>9 DEF AtRest
<1>11. ASSUME NEW h \in Steps, Follows(s, h) PROVE Midway(h, n, a)'
  <2>1. h \in Closing
    BY <1>1, <1>11 DEF Follows, Closing
  <2> QED
    BY <1>9, <2>1 DEF Midway, HalfDone, AllDropped, Given, Closing, Creating
<1> QED
  BY <1>1, <1>2, <1>3, <1>4, <1>6, <1>8, <1>10, <1>11, Going DEF Closing

(* The rows that getRelInfo reads are those of the relation, if it is as   *)
(* it should be; in phase 6 whatever has happened to it.                   *)
LEMMA RowsAre ==
  ASSUME DataTypes, NEW n \in Names, NEW rows,
         rows = IF phase = 6 THEN RowsRead(n) ELSE RowsRead5(n)
  PROVE  /\ rows \in Seq(Attrs \cup {Unset})
         /\ phase = 6 => rows = attrcat[n]
         /\ Sound(n) /\ (rows = <<>> \/ relcat[n] = 0) => Absent(n)
         /\ Sound(n) /\ rows # <<>> => /\ relcat[n] = Len(rows) /\ relcat[n] > 0
                                       /\ attrcat[n] = rows /\ Ready(n)
<1> DEFINE k == relcat[n]
           q == attrcat[n]
<1>1. k \in Nat /\ q \in Seq(Attrs) /\ q \in Seq(Attrs \cup {Unset})
  BY DEF DataTypes, Rows
<1>2. CASE phase = 6
  <2>1. rows = q
    BY <1>2 DEF RowsRead
  <2> QED
    BY <1>1, <1>2, <2>1, EmptySeq DEF Sound, Absent, Ready
<1>3. CASE phase # 6
  <2>1. rows = [i \in 1 .. k |-> IF i <= Len(q) THEN q[i] ELSE Unset]
    BY <1>3 DEF RowsRead5
  <2>2. rows \in Seq(Attrs \cup {Unset}) /\ Len(rows) = k
    <3>1. Len(q) \in Nat /\ \A i \in 1 .. Len(q) : q[i] \in Attrs
      BY <1>1, LenProperties, ElementOfSeq
    <3> HIDE DEF k, q
    <3>2. \A i \in 1 .. k : rows[i] \in Attrs \cup {Unset}
      BY <1>1, <2>1, <3>1
    <3> QED
      BY <1>1, <2>1, <3>2
  <2>3. Len(q) = k => rows = q
    <3>1. ASSUME Len(q) = k, NEW i \in 1 .. k PROVE rows[i] = q[i]
      BY <1>1, <2>1, <3>1
    <3> QED
      BY <1>1, <2>1, <2>2, <3>1, SeqEqual
  <2>4. rows = <<>> => k = 0
    BY <2>2, EmptySeq
  <2>5. rows # <<>> => k > 0
    <3>1. rows # <<>> => Len(rows) > 0
      BY <2>2, TailIs
    <3> QED
      BY <2>2, <3>1
  <2> QED
    BY <1>1, <1>3, <2>2, <2>3, <2>4, <2>5 DEF Sound, Absent, Ready
<1> QED
  BY <1>2, <1>3

(* The files that steps make. *)
LEMMA FileKinds ==
  /\ NoFile \in Files /\ NewFile \in Files /\ PartFile \in Files
  /\ NoFile.kind = "none"
  /\ NewFile.kind = "heap" /\ NewFile.leaked = FALSE
  /\ \A f \in Files : Leaked(f) \in Files
<1>1. 0 \in Counts
  BY SizesAssumption DEF Counts
<1> QED
  BY <1>1 DEF Files, NoFile, NewFile, PartFile, Leaked

(* A step that sets what there is of the relation of its command. *)
Sets(n, r, q, f) ==
  /\ phase' = phase /\ disk' = disk
  /\ relcat' = [relcat EXCEPT ![n] = r]
  /\ attrcat' = [attrcat EXCEPT ![n] = q]
  /\ file' = [file EXCEPT ![n] = f]

(* Such a step keeps the types, and changes nothing around it.           *)
LEMMA Setting ==
  ASSUME DataTypes, NEW n \in Names, n = cmd.rel,
         NEW r \in Nat, NEW q \in Seq(Attrs), NEW f \in Files, Sets(n, r, q, f),
         harmed' \in {harmed, harmed \cup {n}, harmed \ {n}}
  PROVE  /\ DataTypes' /\ Around
         /\ relcat'[n] = r /\ attrcat'[n] = q /\ file'[n] = f
BY DEF DataTypes, Around, Sets, Rows

(* What is not changed is set to what it was. *)
LEMMA Kept ==
  ASSUME DataTypes, NEW n \in Names
  PROVE  /\ relcat = [relcat EXCEPT ![n] = relcat[n]] /\ relcat[n] \in Nat
         /\ attrcat = [attrcat EXCEPT ![n] = attrcat[n]] /\ attrcat[n] \in Seq(Attrs)
         /\ file = [file EXCEPT ![n] = file[n]] /\ file[n] \in Files
BY DEF DataTypes, Rows

(* A call fails before anything is changed.                              *)
LEMMA CatalogFailsSound ==
  ASSUME SessionInv, CatalogFails
  PROVE  SessionInv'
<1>1. PICK s \in {"checkNew", "lookUp", "getRelInfo", "addRel", "dropRel", "result"} : At(s)
  BY DEF CatalogFails
<1>2. PICK n, a : n = cmd.rel /\ a = cmd.attrs
  OBVIOUS
<1>3. /\ DataTypes /\ CommandSound /\ cmd.todo # <<>> /\ s = Head(cmd.todo) /\ n \in Names
      /\ Midway(s, n, a) /\ Planned(cmd.op, n, cmd.todo) /\ cmd.todo[1] = s /\ 1 \in 1 .. Len(cmd.todo)
  BY <1>1, <1>2, Here
<1>4. /\ Finish("IOERR") /\ UNCHANGED <<phase, file, relcat, attrcat, disk>>
      /\ harmed' = harmed \/ harmed' = harmed \cup {n}
      /\ s = "dropRel" \/ (s = "getRelInfo" /\ n = Tmp) => n \in harmed'
  BY <1>1, <1>2 DEF CatalogFails, catalogs, Harmed, At
<1>5. DataTypes' /\ Around
  BY <1>2, <1>3, <1>4 DEF DataTypes, Around
<1>6. AtRest(n)'
  <2>1. SUFFICES ASSUME n \notin harmed' PROVE Sound(n)' /\ (n = Tmp => Absent(n)')
    BY DEF AtRest
  <2>2. HalfDone(s, n, a) /\ s # "dropRel" /\ (s = "getRelInfo" => n # Tmp)
    BY <1>3, <1>4, <2>1 DEF Midway
  <2>3. s = "lookUp" => n # Tmp
    BY <1>3 DEF Planned, Only, Closing, Creating, Destroying, Using
  <2>4. Sound(n) /\ (n = Tmp => Absent(n))
    BY <1>1, <2>2, <2>3 DEF HalfDone, Sound, Using
  <2> QED
    BY <1>4, <2>4 DEF Sound, Absent
<1> QED
  BY <1>2, <1>3, <1>4, <1>5, <1>6, Ending

(* The attributes are read: for a destroy,                               *)
LEMMA GetRelInfoSound ==
  ASSUME SessionInv, GetRelInfo
  PROVE  SessionInv'
<1>1. At("getRelInfo")
  BY DEF GetRelInfo
<1>2. PICK n, a : n = cmd.rel /\ a = cmd.attrs
  OBVIOUS
<1>3. PICK rows : rows = IF phase = 6 THEN RowsRead(n) ELSE RowsRead5(n)
  OBVIOUS
<1>4. /\ DataTypes /\ CommandSound /\ cmd.todo # <<>> /\ "getRelInfo" = Head(cmd.todo) /\ n \in Names
      /\ Midway("getRelInfo", n, a) /\ SameCommand(cmd)
  BY <1>1, <1>2, Here
<1>5. n \notin harmed => Sound(n)
  BY <1>4 DEF Midway, HalfDone
<1>6. /\ rows \in Seq(Attrs \cup {Unset})
      /\ phase = 6 => rows = attrcat[n]
      /\ Sound(n) /\ (rows = <<>> \/ relcat[n] = 0) => Absent(n)
      /\ Sound(n) /\ rows # <<>> => /\ relcat[n] = Len(rows) /\ relcat[n] > 0
                                    /\ attrcat[n] = rows /\ Ready(n)
  BY <1>3, <1>4, RowsAre
<1>7. CASE rows = <<>>
  <2>1. Refused("RELNOTFOUND")
    BY <1>2, <1>3, <1>7 DEF GetRelInfo
  <2>2. AtRest(n)
    BY <1>5, <1>6, <1>7 DEF AtRest
  <2> QED
    BY <1>2, <1>4, <2>1, <2>2, RefusedSound
<1>8. CASE rows # <<>>
  <2> DEFINE c == [cmd EXCEPT !.attrs = rows]
  <2>1. Continue(c) /\ UNCHANGED <<phase, file, catalogs, disk, harmed>>
    BY <1>2, <1>3, <1>8 DEF GetRelInfo
  <2>2. SameCommand(c) /\ c.attrs = rows
    BY <1>4, <1>6 DEF SameCommand, IsCommand
  <2> HIDE DEF c
  <2>3. /\ DataTypes' /\ Around
        /\ \A h : Midway(h, n, rows)' <=> Midway(h, n, rows)
    BY <1>4, <2>1, Unmoved
  <2>4. ASSUME NEW h \in Steps, Follows("getRelInfo", h) PROVE Midway(h, n, rows)'
    <3>1. h = "dropAttrs"
      BY <2>4 DEF Follows
    <3>2. n \notin harmed => HalfDone(h, n, rows)
      BY <1>5, <1>6, <1>8, <3>1 DEF HalfDone, Using, Closing
    <3>3. Midway(h, n, rows)
      BY <1>6, <3>1, <3>2 DEF Midway, AllDropped, Given, Creating
    <3> QED
      BY <2>3, <3>3
  <2> QED
    BY <1>2, <1>4, <2>1, <2>2, <2>3, <2>4, Going DEF MayEnd, Using
<1> QED
  BY <1>7, <1>8

(* and for the commands that use a relation.                             *)
LEMMA LookUpSound ==
  ASSUME SessionInv, LookUp
  PROVE  SessionInv'
<1>1. At("lookUp")
  BY DEF LookUp
<1>2. PICK n, a : n = cmd.rel /\ a = cmd.attrs
  OBVIOUS
<1>3. PICK rows : rows = IF phase = 6 THEN RowsRead(n) ELSE RowsRead5(n)
  OBVIOUS
<1>4. /\ DataTypes /\ CommandSound /\ cmd.todo # <<>> /\ "lookUp" = Head(cmd.todo) /\ n \in Names
      /\ Midway("lookUp", n, a) /\ SameCommand(cmd)
      /\ Planned(cmd.op, n, cmd.todo) /\ cmd.todo[1] = "lookUp" /\ 1 \in 1 .. Len(cmd.todo)
  BY <1>1, <1>2, Here
<1>5. (n \notin harmed => Sound(n)) /\ n # Tmp
  BY <1>4 DEF Midway, HalfDone, Using, Planned, Only, Creating, Destroying, Closing
<1>6. AtRest(n)
  BY <1>5 DEF AtRest
<1>7. rows \in Seq(Attrs \cup {Unset})
  BY <1>3, <1>4, RowsAre
<1>8. CASE relcat[n] = 0 \/ rows = <<>>
  <2>1. Refused("RELNOTFOUND")
    BY <1>2, <1>3, <1>8 DEF LookUp
  <2> QED
    BY <1>2, <1>4, <1>6, <2>1, RefusedSound
<1>9. CASE ~(relcat[n] = 0 \/ rows = <<>>)
  <2> DEFINE c == [cmd EXCEPT !.attrs = rows]
  <2>1. Continue(c) /\ UNCHANGED <<phase, file, catalogs, disk, harmed>>
    BY <1>2, <1>3, <1>9 DEF LookUp
  <2>2. SameCommand(c) /\ c.attrs = rows
    BY <1>4, <1>7 DEF SameCommand, IsCommand
  <2> HIDE DEF c
  <2>3. /\ DataTypes' /\ Around /\ AtRest(n)'
        /\ \A h : Midway(h, n, rows)' <=> Midway(h, n, rows)
    BY <1>4, <1>6, <2>1, Unmoved
  <2>4. ASSUME NEW h \in Steps, Follows("lookUp", h) PROVE Midway(h, n, rows)'
    <3>1. h \in {"load", "print", "insert"}
      BY <2>4 DEF Follows
    <3>2. Midway(h, n, rows)
      BY <1>5, <3>1 DEF Midway, HalfDone, AllDropped, Given, Creating, Using, Closing
    <3> QED
      BY <2>3, <3>2
  <2> QED
    BY <1>2, <1>4, <2>1, <2>2, <2>3, <2>4, Going
<1> QED
  BY <1>8, <1>9

-----------------------------------------------------------------------------
(* Creating a relation.                                                    *)

(* createRel looks for the name, the attributes and their widths.        *)
LEMMA CheckNewSound ==
  ASSUME SessionInv, CheckNew
  PROVE  SessionInv'
<1>1. At("checkNew")
  BY DEF CheckNew
<1>2. PICK n, a : n = cmd.rel /\ a = cmd.attrs
  OBVIOUS
<1>3. /\ DataTypes /\ CommandSound /\ cmd.todo # <<>> /\ "checkNew" = Head(cmd.todo) /\ n \in Names
      /\ Midway("checkNew", n, a) /\ SameCommand(cmd)
  BY <1>1, <1>2, Here
<1>4. /\ n \notin harmed => Sound(n) /\ (n = Tmp => Absent(n))
      /\ a \in Seq(Attrs) \ {<<>>}
  BY <1>3 DEF Midway, HalfDone, Given, Creating
<1>5. AtRest(n)
  BY <1>4 DEF AtRest
<1>6. CASE \E st \in {"RELEXISTS", "DUPLATTR", "ATTRTOOLONG"} : Refused(st)
  BY <1>2, <1>3, <1>5, <1>6, RefusedSound
<1>7. CASE relcat[n] = 0 /\ Continue(cmd) /\ UNCHANGED <<phase, file, catalogs, disk, troubles, harmed>>
  <2>1. /\ DataTypes' /\ Around /\ AtRest(n)'
        /\ \A h : Midway(h, n, a)' <=> Midway(h, n, a)
    BY <1>3, <1>5, <1>7, Unmoved
  <2>2. ASSUME NEW h \in Steps, Follows("checkNew", h) PROVE Midway(h, n, a)'
    <3>1. h = "addRel"
      BY <2>2 DEF Follows
    <3>2. n \notin harmed => Absent(n)
      BY <1>3, <1>4, <1>7 DEF Sound
    <3>3. Midway(h, n, a)
      BY <1>4, <3>1, <3>2 DEF Midway, HalfDone, AllDropped, Given, Using, Closing
    <3> QED
      BY <2>1, <3>3
  <2> QED
    BY <1>2, <1>3, <1>7, <2>1, <2>2, Going
<1> QED
  BY <1>2, <1>6, <1>7 DEF CheckNew

(* The row in relcat is written,                                         *)
LEMMA AddRelSound ==
  ASSUME SessionInv, AddRel
  PROVE  SessionInv'
<1>1. At("addRel") /\ Continue(cmd)
  BY DEF AddRel
<1>2. PICK n, a : n = cmd.rel /\ a = cmd.attrs
  OBVIOUS
<1>3. /\ DataTypes /\ CommandSound /\ cmd.todo # <<>> /\ "addRel" = Head(cmd.todo) /\ n \in Names
      /\ Midway("addRel", n, a) /\ SameCommand(cmd)
  BY <1>1, <1>2, Here
<1>4. /\ n \notin harmed => Absent(n)
      /\ a \in Seq(Attrs) \ {<<>>} /\ Len(a) \in Nat
  BY <1>3, LenProperties DEF Midway, HalfDone, Given, Creating
<1>5. Sets(n, Len(a), attrcat[n], file[n]) /\ harmed' = harmed
  BY <1>2, <1>3, Kept DEF AddRel, Sets
<1>6. /\ DataTypes' /\ Around
      /\ relcat'[n] = Len(a) /\ attrcat'[n] = attrcat[n] /\ file'[n] = file[n]
  BY <1>2, <1>3, <1>4, <1>5, Kept, Setting
<1>7. ASSUME NEW h \in Steps, Follows("addRel", h) PROVE Midway(h, n, a)'
  <2>1. h = "addAttrs"
    BY <1>7 DEF Follows
  <2> QED
    BY <1>4, <1>5, <1>6, <2>1 DEF Midway, HalfDone, AllDropped, Given, Absent, Using, Closing
<1> QED
  BY <1>1, <1>2, <1>3, <1>6, <1>7, Going DEF MayEnd, Using

(* The names to the first that is too long. *)
LEMMA GoodNamesIs ==
  ASSUME NEW a \in Seq(Attrs)
  PROVE  /\ GoodNames(a) \in 0 .. Len(a)
         /\ \A k \in 0 .. GoodNames(a) : SubSeq(a, 1, k) \in Seq(Attrs)
<1> DEFINE S == {k \in 0 .. Len(a) : k = Len(a) \/ a[k + 1] \in Overlong}
           good == CHOOSE k \in 0 .. Len(a) : /\ \A i \in 1 .. k : a[i] \notin Overlong
                                              /\ k = Len(a) \/ a[k + 1] \in Overlong
<1>1. Len(a) \in Nat
  BY LenProperties
<1>2. S \subseteq Nat /\ Len(a) \in S
  BY <1>1
<1>3. PICK k \in S : \A j \in S : k <= j
  <2> HIDE DEF S
  <2> QED
    BY <1>2, LeastElement
<1>4. \A i \in 1 .. k : a[i] \notin Overlong
  <2> SUFFICES ASSUME NEW i \in 1 .. k, a[i] \in Overlong PROVE FALSE
    OBVIOUS
  <2>1. i - 1 \in 0 .. Len(a) /\ (i - 1) + 1 = i /\ i - 1 < k
    BY <1>1, <1>3
  <2>2. i - 1 \in S
    BY <2>1
  <2> QED
    BY <1>3, <2>1, <2>2
<1>5. good \in 0 .. Len(a)
  <2>1. \E m \in 0 .. Len(a) : /\ \A i \in 1 .. m : a[i] \notin Overlong
                               /\ m = Len(a) \/ a[m + 1] \in Overlong
    BY <1>3, <1>4
  <2> QED
    BY <2>1
<1>6. GoodNames(a) = good
  BY DEF GoodNames
<1> HIDE DEF good
<1>7. \A m \in 0 .. good : SubSeq(a, 1, m) \in Seq(Attrs)
  BY <1>1, <1>5, SubSeqProperties
<1> QED
  BY <1>5, <1>6, <1>7

(* those in attrcat are,                                                 *)
LEMMA AddAttrsSound ==
  ASSUME SessionInv, AddAttrs
  PROVE  SessionInv'
<1>1. At("addAttrs") /\ Continue(cmd)
  BY DEF AddAttrs
<1>2. PICK n, a : n = cmd.rel /\ a = cmd.attrs
  OBVIOUS
<1>3. /\ DataTypes /\ CommandSound /\ cmd.todo # <<>> /\ "addAttrs" = Head(cmd.todo) /\ n \in Names
      /\ Midway("addAttrs", n, a) /\ SameCommand(cmd)
  BY <1>1, <1>2, Here
<1>4. /\ n \notin harmed => relcat[n] = Len(a) /\ attrcat[n] = <<>> /\ file[n].kind = "none"
      /\ a \in Seq(Attrs) \ {<<>>} /\ attrcat[n] \o a \in Seq(Attrs)
      /\ n \notin harmed => attrcat[n] \o a = a
  BY <1>3, Kept, ConcatProperties, ConcatEmptySeq DEF Midway, HalfDone, Given, Creating
<1>5. PICK q \in Seq(Attrs) : q = attrcat[n] \o a
  BY <1>4
<1>6. Sets(n, relcat[n], q, file[n]) /\ harmed' = harmed
  BY <1>2, <1>3, <1>5, Kept DEF AddAttrs, Sets, DataTypes
<1>7. /\ DataTypes' /\ Around
      /\ relcat'[n] = relcat[n] /\ attrcat'[n] = q /\ file'[n] = file[n]
  <2>1. relcat[n] \in Nat /\ file[n] \in Files
    BY <1>3, Kept
  <2> QED
    BY <1>2, <1>3, <1>6, <2>1, Setting
<1>8. ASSUME NEW h \in Steps, Follows("addAttrs", h) PROVE Midway(h, n, a)'
  <2>1. h = "createFile"
    BY <1>8 DEF Follows
  <2> QED
    BY <1>4, <1>5, <1>6, <1>7, <2>1 DEF Midway, HalfDone, AllDropped, Given, Using, Closing
<1> QED
  BY <1>1, <1>2, <1>3, <1>7, <1>8, Going DEF MayEnd, Using

(* Some of the attributes are added, and the command is over. *)
LEMMA AddSomeSound ==
  ASSUME SessionInv, At("addAttrs"), NEW k \in 0 .. GoodNames(cmd.attrs),
         attrcat' = [attrcat EXCEPT ![cmd.rel] = @ \o SubSeq(cmd.attrs, 1, k)],
         NEW st, st # "OK", Finish(st),
         Harmed({cmd.rel}), UNCHANGED <<phase, file, relcat, disk>>
  PROVE  SessionInv'
<1>1. PICK n, a : n = cmd.rel /\ a = cmd.attrs
  OBVIOUS
<1>2. /\ DataTypes /\ CommandSound /\ cmd.todo # <<>> /\ n \in Names /\ Midway("addAttrs", n, a)
  BY <1>1, Here
<1>3. a \in Seq(Attrs) /\ SubSeq(a, 1, k) \in Seq(Attrs)
  BY <1>1, <1>2, GoodNamesIs DEF Midway, Given, Creating
<1>4. attrcat[n] \o SubSeq(a, 1, k) \in Seq(Attrs)
  BY <1>2, <1>3, Kept, ConcatProperties
<1>5. Sets(n, relcat[n], attrcat[n] \o SubSeq(a, 1, k), file[n]) /\ harmed' = harmed \cup {n}
  BY <1>1, <1>2, Kept DEF Sets, DataTypes, Harmed
<1>6. DataTypes' /\ Around
  BY <1>1, <1>2, <1>4, <1>5, Kept, Setting
<1>7. AtRest(n)'
  BY <1>5 DEF AtRest
<1> QED
  BY <1>1, <1>2, <1>6, <1>7, Ending

(* or some of them.                                                      *)
LEMMA AddsFailSound ==
  ASSUME SessionInv, AddAttrsFails \/ AddOverlong
  PROVE  SessionInv'
<1>1. CASE AddAttrsFails
  <2>1. PICK k \in 0 .. GoodNames(cmd.attrs) :
          attrcat' = [attrcat EXCEPT ![cmd.rel] = @ \o SubSeq(cmd.attrs, 1, k)]
    BY <1>1 DEF AddAttrsFails
  <2> QED
    BY <1>1, <2>1, AddSomeSound DEF AddAttrsFails
<1>2. CASE AddOverlong
  <2>1. PICK a, n : a = cmd.attrs /\ n = cmd.rel
    OBVIOUS
  <2>2. Midway("addAttrs", n, a)
    BY <1>2, <2>1, Here DEF AddOverlong
  <2>3. a \in Seq(Attrs)
    BY <2>2 DEF Midway, Given, Creating
  <2>4. PICK k : k = GoodNames(cmd.attrs)
    OBVIOUS
  <2>5. k \in 0 .. GoodNames(cmd.attrs)
    BY <2>1, <2>3, <2>4, GoodNamesIs, LenProperties
  <2>6. /\ At("addAttrs") /\ attrcat' = [attrcat EXCEPT ![cmd.rel] = @ \o SubSeq(cmd.attrs, 1, k)]
        /\ phase = 6 /\ Finish("NAMETOOLONG") /\ Harmed({cmd.rel})
        /\ UNCHANGED <<phase, file, relcat, disk>>
    BY <1>2, <2>4 DEF AddOverlong
  <2>7. PICK st : st = "NAMETOOLONG"
    OBVIOUS
  <2>8. st # "OK" /\ Finish(st)
    BY <2>6, <2>7
  <2> QED
    BY <2>5, <2>6, <2>8, AddSomeSound
<1> QED
  BY <1>1, <1>2

(* The rows that are left when the first k are gone. *)
LEMMA WithoutIs ==
  ASSUME NEW q \in Seq(Attrs), NEW k \in Nat
  PROVE  /\ Without(q, k) \in Seq(Attrs)
         /\ k >= Len(q) => Without(q, k) = <<>> /\ Len(Without(q, k)) = 0
         /\ k < Len(q) => Len(Without(q, k)) = Len(q) - k
<1>1. Len(q) \in Nat
  BY LenProperties
<1>2. Without(q, k) \in Seq(Attrs)
  BY <1>1, SubSeqProperties DEF Without
<1>3. k >= Len(q) => Len(Without(q, k)) = 0
  BY <1>1, SubSeqProperties DEF Without
<1>4. k < Len(q) => Len(Without(q, k)) = Len(q) - k
  BY <1>1, SubSeqProperties DEF Without
<1> QED
  BY <1>2, <1>3, <1>4, EmptySeq

(* Phase 5 takes back as many rows as relcat says. *)
LEMMA TakingBack ==
  ASSUME DataTypes, NEW rows \in Seq(Attrs), TakeBack(rows), phase' = phase, disk' = disk,
         NEW n \in Names, n = cmd.rel, NEW f \in Files, file' = [file EXCEPT ![n] = f],
         harmed' = harmed \/ harmed' = harmed \cup {n}
  PROVE  DataTypes' /\ Around /\ relcat'[n] = 0 /\ attrcat'[n] = Without(rows, relcat[n]) /\ file'[n] = f
<1>1. PICK q : q = Without(rows, relcat[n])
  OBVIOUS
<1>2. Sets(n, 0, q, f)
  BY <1>1 DEF TakeBack, Sets
<1>3. q \in Seq(Attrs)
  BY <1>1, Kept, WithoutIs
<1> QED
  BY <1>1, <1>2, <1>3, Setting

(* The rows that addInfo has added to those there were, to the first name  *)
(* that is too long. *)
LEMMA AddedRows ==
  ASSUME NEW q \in Seq(Attrs), NEW a \in Seq(Attrs), NEW rows,
         rows = q \o SubSeq(a, 1, GoodNames(a))
  PROVE  rows \in Seq(Attrs) /\ Len(rows) = Len(q) + GoodNames(a)
<1>1. PICK k : k = GoodNames(a)
  OBVIOUS
<1>2. Len(a) \in Nat /\ k \in 0 .. Len(a)
  BY <1>1, GoodNamesIs, LenProperties
<1>3. SubSeq(a, 1, k) \in Seq(Attrs) /\ Len(SubSeq(a, 1, k)) = k
  BY <1>2, SubSeqProperties
<1> QED
  BY <1>1, <1>3, ConcatProperties

(* Phase 5 takes them back.                                              *)
LEMMA AddOverlong5Sound ==
  ASSUME SessionInv, AddOverlong5
  PROVE  SessionInv'
<1>1. PICK n, a : n = cmd.rel /\ a = cmd.attrs
  OBVIOUS
<1>2. PICK rows : rows = attrcat[n] \o SubSeq(a, 1, GoodNames(a))
  OBVIOUS
<1>3. /\ At("addAttrs") /\ TakeBack(rows) /\ Finish("NAMETOOLONG")
      /\ phase' = phase /\ disk' = disk /\ file' = file /\ harmed' = harmed
  BY <1>1, <1>2 DEF AddOverlong5
<1>4. /\ DataTypes /\ CommandSound /\ cmd.todo # <<>> /\ n \in Names /\ Midway("addAttrs", n, a)
  BY <1>1, <1>3, Here
<1>5. a \in Seq(Attrs) /\ attrcat[n] \in Seq(Attrs) /\ relcat[n] \in Nat
  BY <1>4, Kept DEF Midway, Given, Creating
<1>6. rows \in Seq(Attrs) /\ Len(rows) = Len(attrcat[n]) + GoodNames(a)
  BY <1>2, <1>5, AddedRows
<1>7. /\ DataTypes' /\ Around /\ relcat'[n] = 0
      /\ attrcat'[n] = Without(rows, relcat[n]) /\ file'[n] = file[n]
  BY <1>1, <1>3, <1>4, <1>6, Kept, TakingBack
<1>8. n \notin harmed => Absent(n)'
  <2>1. n \notin harmed => relcat[n] = Len(a) /\ attrcat[n] = <<>> /\ file[n].kind = "none"
    BY <1>4 DEF Midway, HalfDone
  <2>2. PICK g : g = GoodNames(a)
    OBVIOUS
  <2>3. Len(a) \in Nat /\ g \in 0 .. Len(a)
    BY <1>5, <2>2, GoodNamesIs, LenProperties
  <2>4. n \notin harmed => Len(rows) <= relcat[n]
    BY <1>6, <2>1, <2>2, <2>3, EmptySeq
  <2>5. n \notin harmed => attrcat'[n] = <<>>
    BY <1>5, <1>6, <1>7, <2>4, LenProperties, WithoutIs
  <2> QED
    BY <1>7, <2>1, <2>5 DEF Absent
<1>9. AtRest(n)'
  BY <1>3, <1>8 DEF AtRest, Sound
<1> QED
  BY <1>1, <1>3, <1>4, <1>7, <1>9, Ending

(* A file of the name is there already.                                  *)
LEMMA FileIsThereSound ==
  ASSUME SessionInv, FileIsThere
  PROVE  SessionInv'
<1>1. At("createFile") /\ Finish("FILEEXISTS")
      /\ phase' = phase /\ disk' = disk /\ file' = [file EXCEPT ![cmd.rel] = Leaked(@)]
      /\ harmed' = harmed \cup {cmd.rel}
      /\ IF phase = 5 THEN TakeBack(attrcat[cmd.rel]) ELSE UNCHANGED catalogs
  BY DEF FileIsThere, Harmed
<1>2. PICK n, a : n = cmd.rel /\ a = cmd.attrs
  OBVIOUS
<1>3. /\ DataTypes /\ CommandSound /\ cmd.todo # <<>> /\ n \in Names
  BY <1>1, <1>2, Here
<1>4. PICK f \in Files : f = Leaked(file[n])
  BY <1>3, Kept, FileKinds
<1>5. file' = [file EXCEPT ![n] = f]
  BY <1>1, <1>2, <1>4
<1>6. DataTypes' /\ Around
  <2>1. CASE phase = 5
    BY <1>1, <1>2, <1>3, <1>5, <2>1, Kept, TakingBack
  <2>2. CASE phase # 5
    <3>1. relcat' = relcat /\ attrcat' = attrcat
      BY <1>1, <2>2 DEF catalogs
    <3>2. Sets(n, relcat[n], attrcat[n], f)
      BY <1>1, <1>3, <1>5, <3>1, Kept DEF Sets
    <3>3. relcat[n] \in Nat /\ attrcat[n] \in Seq(Attrs)
      BY <1>3, Kept
    <3> QED
      BY <1>1, <1>2, <1>3, <2>2, <3>2, <3>3, Setting
  <2> QED
    BY <2>1, <2>2
<1>7. AtRest(n)'
  BY <1>1, <1>2 DEF AtRest
<1>8. PICK st : st = "FILEEXISTS"
  OBVIOUS
<1> QED
  BY <1>1, <1>2, <1>3, <1>6, <1>7, <1>8, Ending

(* The file is created,                                                  *)
LEMMA CreateFileSound ==
  ASSUME SessionInv, CreateFile
  PROVE  SessionInv'
<1>1. At("createFile") /\ Continue(cmd)
  BY DEF CreateFile
<1>2. PICK n, a : n = cmd.rel /\ a = cmd.attrs
  OBVIOUS
<1>3. /\ DataTypes /\ CommandSound /\ cmd.todo # <<>> /\ "createFile" = Head(cmd.todo) /\ n \in Names
      /\ Midway("createFile", n, a) /\ SameCommand(cmd)
  BY <1>1, <1>2, Here
<1>4. /\ n \notin harmed => relcat[n] = Len(a) /\ attrcat[n] = a
      /\ a \in Seq(Attrs) \ {<<>>} /\ Len(a) > 0
  BY <1>3, TailIs DEF Midway, HalfDone, Given, Creating
<1>5. Sets(n, relcat[n], attrcat[n], NewFile) /\ harmed' = harmed
  BY <1>2, <1>3, Kept DEF CreateFile, Sets, catalogs
<1>6. /\ DataTypes' /\ Around
      /\ relcat'[n] = relcat[n] /\ attrcat'[n] = attrcat[n] /\ file'[n] = NewFile
  <2>1. relcat[n] \in Nat /\ attrcat[n] \in Seq(Attrs) /\ NewFile \in Files
    BY <1>3, Kept, FileKinds
  <2> QED
    BY <1>2, <1>3, <1>5, <2>1, Setting
<1>7. n \notin harmed' => Sound(n)'
  BY <1>4, <1>5, <1>6, FileKinds DEF Sound
<1>8. ASSUME NEW h \in Steps, Follows("createFile", h) PROVE Midway(h, n, a)'
  <2>1. h = "scan"
    BY <1>8 DEF Follows
  <2> QED
    BY <1>7, <2>1 DEF Midway, HalfDone, AllDropped, Given, Creating, Closing
<1>9. MayEnd(cmd.op, n, "createFile") => AtRest(n)'
  BY <1>7 DEF MayEnd, AtRest
<1> QED
  BY <1>1, <1>2, <1>3, <1>6, <1>8, <1>9, Going

(* or part of it.                                                        *)
LEMMA CreateFileFailsSound ==
  ASSUME SessionInv, CreateFileFails
  PROVE  SessionInv'
<1>1. At("createFile") /\ Finish("IOERR")
      /\ phase' = phase /\ disk' = disk
      /\ file' \in {file, [file EXCEPT ![cmd.rel] = PartFile],
                    [file EXCEPT ![cmd.rel] = Leaked(PartFile)]}
      /\ harmed' = harmed \cup {cmd.rel}
      /\ IF phase = 5 THEN TakeBack(attrcat[cmd.rel]) ELSE UNCHANGED catalogs
  BY DEF CreateFileFails, Harmed
<1>2. PICK n, a : n = cmd.rel /\ a = cmd.attrs
  OBVIOUS
<1>3. /\ DataTypes /\ CommandSound /\ cmd.todo # <<>> /\ n \in Names
  BY <1>1, <1>2, Here
<1>4. PICK f \in Files : file' = [file EXCEPT ![n] = f]
  <2>1. file[n] \in Files /\ PartFile \in Files /\ Leaked(PartFile) \in Files
    BY <1>3, Kept, FileKinds
  <2> QED
    BY <1>1, <1>2, <1>3, <2>1, Kept
<1>5. DataTypes' /\ Around
  <2>1. CASE phase = 5
    BY <1>1, <1>2, <1>3, <1>4, <2>1, Kept, TakingBack
  <2>2. CASE phase # 5
    <3>1. relcat' = relcat /\ attrcat' = attrcat
      BY <1>1, <2>2 DEF catalogs
    <3>2. Sets(n, relcat[n], attrcat[n], f)
      BY <1>1, <1>3, <1>4, <3>1, Kept DEF Sets
    <3>3. relcat[n] \in Nat /\ attrcat[n] \in Seq(Attrs)
      BY <1>3, Kept
    <3> QED
      BY <1>1, <1>2, <1>3, <3>2, <3>3, Setting
  <2> QED
    BY <2>1, <2>2
<1>6. AtRest(n)'
  BY <1>1, <1>2 DEF AtRest
<1> QED
  BY <1>1, <1>2, <1>3, <1>5, <1>6, Ending

-----------------------------------------------------------------------------
(* Destroying a relation.                                                  *)

(* The rows in attrcat are removed.                                      *)
LEMMA DropAttrsSound ==
  ASSUME SessionInv, DropAttrs
  PROVE  SessionInv'
<1>1. At("dropAttrs") /\ Continue(cmd)
  BY DEF DropAttrs
<1>2. PICK n, a : n = cmd.rel /\ a = cmd.attrs
  OBVIOUS
<1>3. /\ DataTypes /\ CommandSound /\ cmd.todo # <<>> /\ "dropAttrs" = Head(cmd.todo) /\ n \in Names
      /\ Midway("dropAttrs", n, a) /\ SameCommand(cmd) /\ a \in Seq(Attrs \cup {Unset})
  BY <1>1, <1>2, Here
<1>4. PICK q : q = Without(attrcat[n], Len(a))
  OBVIOUS
<1>5. q \in Seq(Attrs) /\ (attrcat[n] = a => q = <<>>)
  <2>1. attrcat[n] \in Seq(Attrs) /\ Len(a) \in Nat
    BY <1>3, Kept, LenProperties
  <2>2. attrcat[n] = a => Len(a) >= Len(attrcat[n])
    BY <2>1
  <2> QED
    BY <1>4, <2>1, <2>2, WithoutIs
<1>6. Sets(n, relcat[n], q, file[n]) /\ harmed' = harmed
  BY <1>2, <1>3, <1>4, Kept DEF DropAttrs, AttrsToDrop, Sets, DataTypes
<1>7. /\ DataTypes' /\ Around
      /\ relcat'[n] = relcat[n] /\ attrcat'[n] = q /\ file'[n] = file[n]
  <2>1. relcat[n] \in Nat /\ file[n] \in Files
    BY <1>3, Kept
  <2> QED
    BY <1>2, <1>3, <1>5, <1>6, <2>1, Setting
<1>8. ASSUME NEW h \in Steps, Follows("dropAttrs", h) PROVE Midway(h, n, a)'
  <2>1. h = "dropRel"
    BY <1>8 DEF Follows
  <2>2. /\ n \notin harmed => attrcat[n] = a /\ relcat[n] > 0 /\ Ready(n)
        /\ phase = 6 => attrcat[n] = a
    BY <1>3 DEF Midway, HalfDone, AllDropped
  <2>3. phase' = phase
    BY <1>6 DEF Sets
  <2> QED
    BY <1>5, <1>6, <1>7, <2>1, <2>2, <2>3
    DEF Midway, HalfDone, AllDropped, Given, Ready, Using, Closing, Creating
<1> QED
  BY <1>1, <1>2, <1>3, <1>7, <1>8, Going DEF MayEnd, Using

(* Not all of the attributes are dropped, and the command is over. *)
LEMMA DropFailsSound ==
  ASSUME SessionInv, DropUnset \/ DropAttrsFails
  PROVE  SessionInv'
<1>1. At("dropAttrs") /\ (Finish("ATTRNOTFOUND") \/ Finish("IOERR"))
      /\ phase' = phase /\ disk' = disk /\ file' = file /\ relcat' = relcat
      /\ harmed' = harmed \cup {cmd.rel}
  BY DEF DropUnset, DropAttrsFails, Harmed
<1>2. PICK n, a : n = cmd.rel /\ a = cmd.attrs
  OBVIOUS
<1>3. /\ DataTypes /\ CommandSound /\ cmd.todo # <<>> /\ n \in Names /\ a \in Seq(Attrs \cup {Unset})
  BY <1>1, <1>2, Here
<1>4. PICK q \in Seq(Attrs) : attrcat' = [attrcat EXCEPT ![n] = q]
  <2>1. CASE DropUnset
    BY <1>2, <2>1, EmptySeq DEF DropUnset
  <2>2. CASE DropAttrsFails
    <3>1. PICK k \in 0 .. Len(a) - 1 : attrcat' = [attrcat EXCEPT ![n] = Without(@, k)]
      BY <1>2, <2>2 DEF DropAttrsFails
    <3>2. Without(attrcat[n], k) \in Seq(Attrs)
      <4>1. attrcat[n] \in Seq(Attrs) /\ k \in Nat
        BY <1>3, <3>1, Kept, LenProperties
      <4> QED
        BY <4>1, WithoutIs
    <3> QED
      BY <1>3, <3>1, <3>2 DEF DataTypes
  <2> QED
    BY <2>1, <2>2
<1>5. Sets(n, relcat[n], q, file[n])
  BY <1>1, <1>3, <1>4, Kept DEF Sets
<1>6. DataTypes' /\ Around
  <2>1. relcat[n] \in Nat /\ file[n] \in Files
    BY <1>3, Kept
  <2> QED
    BY <1>1, <1>2, <1>3, <1>5, <2>1, Setting
<1>7. AtRest(n)'
  BY <1>1, <1>2 DEF AtRest
<1> QED
  BY <1>1, <1>2, <1>3, <1>6, <1>7, Ending

(* The row in relcat is removed.                                         *)
LEMMA DropRelSound ==
  ASSUME SessionInv, DropRel
  PROVE  SessionInv'
<1>1. At("dropRel")
  BY DEF DropRel
<1>2. PICK n, a : n = cmd.rel /\ a = cmd.attrs
  OBVIOUS
<1>3. /\ DataTypes /\ CommandSound /\ cmd.todo # <<>> /\ "dropRel" = Head(cmd.todo) /\ n \in Names
      /\ Midway("dropRel", n, a) /\ SameCommand(cmd)
  BY <1>1, <1>2, Here
<1>4. /\ n \notin harmed => relcat[n] > 0 /\ attrcat[n] = <<>> /\ Ready(n)
      /\ phase = 6 => attrcat[n] = <<>>
  BY <1>3 DEF Midway, HalfDone, AllDropped
<1>5. CASE relcat[n] = 0
  <2>1. Refused("RELNOTFOUND")
    BY <1>2, <1>5 DEF DropRel
  <2>2. AtRest(n)
    BY <1>4, <1>5 DEF AtRest
  <2> QED
    BY <1>2, <1>3, <2>1, <2>2, RefusedSound
<1>6. CASE relcat[n] # 0
  <2>1. Sets(n, 0, attrcat[n], file[n]) /\ harmed' = harmed /\ Continue(cmd)
    BY <1>2, <1>3, <1>6, Kept DEF DropRel, Sets
  <2>2. /\ DataTypes' /\ Around
        /\ relcat'[n] = 0 /\ attrcat'[n] = attrcat[n] /\ file'[n] = file[n]
    <3>1. attrcat[n] \in Seq(Attrs) /\ file[n] \in Files
      BY <1>3, Kept
    <3> QED
      BY <1>2, <1>3, <2>1, <3>1, Setting
  <2>3. ASSUME NEW h \in Steps, Follows("dropRel", h) PROVE Midway(h, n, a)'
    <3>1. h = "destroyFile" /\ phase' = phase
      BY <2>1, <2>3 DEF Follows, Sets
    <3> QED
      BY <1>4, <2>1, <2>2, <3>1
      DEF Midway, HalfDone, AllDropped, Given, Ready, Using, Closing, Creating
  <2> QED
    BY <1>2, <1>3, <2>1, <2>2, <2>3, Going DEF MayEnd, Using
<1> QED
  BY <1>5, <1>6

(* The file is removed, and what had gone wrong is mended.               *)
LEMMA DestroyFileSound ==
  ASSUME SessionInv, DestroyFile
  PROVE  SessionInv'
<1>1. At("destroyFile")
  BY DEF DestroyFile
<1>2. PICK n, a : n = cmd.rel /\ a = cmd.attrs
  OBVIOUS
<1>3. /\ DataTypes /\ CommandSound /\ cmd.todo # <<>> /\ "destroyFile" = Head(cmd.todo) /\ n \in Names
      /\ Midway("destroyFile", n, a) /\ SameCommand(cmd)
  BY <1>1, <1>2, Here
<1>4. /\ n \notin harmed => relcat[n] = 0 /\ attrcat[n] = <<>> /\ Ready(n)
      /\ phase = 6 => relcat[n] = 0 /\ attrcat[n] = <<>>
  BY <1>3 DEF Midway, HalfDone, AllDropped
<1>5. CASE file[n].leaked \/ file[n].kind = "none"
  <2>1. Refused("FILEOPEN") \/ Refused("UNIXERR")
    BY <1>2, <1>5 DEF DestroyFile
  <2>2. AtRest(n)
    BY <1>4, <1>5 DEF AtRest, Ready
  <2> QED
    BY <1>2, <1>3, <2>1, <2>2, RefusedSound
<1>6. CASE ~(file[n].leaked \/ file[n].kind = "none")
  <2>1. /\ Sets(n, relcat[n], attrcat[n], NoFile) /\ Continue(cmd)
        /\ harmed' = IF relcat[n] = 0 /\ attrcat[n] = <<>> THEN harmed \ {n} ELSE harmed
    BY <1>2, <1>3, <1>6, Kept DEF DestroyFile, Mended, Sets, catalogs
  <2>2. /\ DataTypes' /\ Around
        /\ relcat'[n] = relcat[n] /\ attrcat'[n] = attrcat[n] /\ file'[n] = NoFile
    <3>1. relcat[n] \in Nat /\ attrcat[n] \in Seq(Attrs) /\ NoFile \in Files
      BY <1>3, Kept, FileKinds
    <3> QED
      BY <1>2, <1>3, <2>1, <3>1, Setting
  <2>3. (n \notin harmed' => Absent(n)') /\ (phase = 6 => Absent(n)')
    BY <1>4, <2>1, <2>2, FileKinds DEF Absent
  <2>4. AtRest(n)'
    BY <2>3 DEF AtRest, Sound
  <2>5. Absent(n)' \/ (phase = 5 /\ n \in harmed')
    BY <1>3, <2>3 DEF DataTypes
  <2>6. ASSUME NEW h \in Steps, Follows("destroyFile", h) PROVE Midway(h, n, a)'
    BY <2>6 DEF Follows
  <2> QED
    BY <1>2, <1>3, <2>1, <2>2, <2>4, <2>5, <2>6, Going
<1> QED
  BY <1>5, <1>6

(* The file stays.                                                       *)
LEMMA DestroyFileFailsSound ==
  ASSUME SessionInv, DestroyFileFails
  PROVE  SessionInv'
<1>1. At("destroyFile") /\ Finish("UNIXERR") /\ harmed' = harmed \cup {cmd.rel}
      /\ UNCHANGED <<phase, file, relcat, attrcat, disk>>
  BY DEF DestroyFileFails, Harmed, catalogs
<1>2. PICK n : n = cmd.rel
  OBVIOUS
<1>3. DataTypes /\ cmd.todo # <<>> /\ n \in Names
  BY <1>1, <1>2, Here
<1>4. DataTypes' /\ Around /\ AtRest(n)'
  BY <1>1, <1>2, <1>3 DEF DataTypes, Around, AtRest
<1> QED
  BY <1>1, <1>2, <1>3, <1>4, Ending

-----------------------------------------------------------------------------
(* Using a relation.                                                       *)

UsingSteps == {"load", "insert", "delete", "scan", "print"}

(* At such a step the relation is as it should be, if nothing has gone     *)
(* wrong for it.                                                           *)
LEMMA HereUsing ==
  ASSUME SessionInv, NEW s \in UsingSteps, At(s), NEW n, n = cmd.rel
  PROVE  /\ n \notin harmed => Sound(n)
         /\ cmd.op \notin {"create", "destroy", "quit"}
         /\ s \in {"load", "insert", "delete"} => n # Tmp
<1>1. PICK a : a = cmd.attrs
  OBVIOUS
<1>2. /\ Midway(s, n, a) /\ Planned(cmd.op, n, cmd.todo) /\ cmd.todo[1] = s /\ 1 \in 1 .. Len(cmd.todo)
  BY <1>1, Here
<1>3. n \notin harmed => Sound(n)
  BY <1>2 DEF Midway, HalfDone, UsingSteps, Using
<1> QED
  BY <1>2, <1>3 DEF Planned, Only, UsingSteps, Creating, Destroying, Closing

(* A step that changes the tuples of the file at most, or harms it. *)
LEMMA UsedSound ==
  ASSUME SessionInv, NEW s \in UsingSteps, At(s), NEW c, SameCommand(c), c.attrs = cmd.attrs,
         Continue(c), NEW n, n = cmd.rel,
         NEW f \in Files, Sets(n, relcat[n], attrcat[n], f), f.kind = file[n].kind,
         harmed' = harmed \cup {n} \/ (harmed' = harmed /\ f.leaked = file[n].leaked)
  PROVE  SessionInv'
<1>1. PICK a : a = cmd.attrs
  OBVIOUS
<1>2. DataTypes /\ cmd.todo # <<>> /\ s = Head(cmd.todo) /\ n \in Names
  BY <1>1, Here
<1>3. /\ n \notin harmed => Sound(n)
      /\ cmd.op \notin {"create", "destroy", "quit"}
  BY HereUsing
<1>4. /\ DataTypes' /\ Around
      /\ relcat'[n] = relcat[n] /\ attrcat'[n] = attrcat[n] /\ file'[n] = f
  <2>1. relcat[n] \in Nat /\ attrcat[n] \in Seq(Attrs)
    BY <1>2, Kept
  <2> QED
    BY <1>2, <2>1, Setting
<1>5. n \notin harmed' => Sound(n)'
  BY <1>3, <1>4 DEF Sound, Absent
<1>6. ASSUME NEW h \in Steps, Follows(s, h) PROVE Midway(h, n, a)'
  <2>1. h \in {"print", "getRelInfo"}
    BY <1>6 DEF Follows, UsingSteps
  <2> QED
    BY <1>5, <2>1 DEF Midway, HalfDone, AllDropped, Given, Creating, Closing
<1>7. MayEnd(cmd.op, n, s) => AtRest(n)'
  BY <1>5 DEF MayEnd, AtRest, UsingSteps
<1> QED
  BY <1>1, <1>2, <1>3, <1>4, <1>6, <1>7, Going

(* Such a step that changes nothing but the command. *)
LEMMA UsedSame ==
  ASSUME SessionInv, NEW s \in UsingSteps, At(s), NEW c, SameCommand(c), c.attrs = cmd.attrs,
         Continue(c), UNCHANGED <<phase, file, catalogs, disk, harmed>>
  PROVE  SessionInv'
<1>1. PICK n : n = cmd.rel
  OBVIOUS
<1>2. DataTypes /\ n \in Names
  BY <1>1, Here
<1>3. Sets(n, relcat[n], attrcat[n], file[n]) /\ harmed' = harmed /\ file[n] \in Files
  BY <1>2, Kept DEF Sets, catalogs
<1> QED
  BY <1>1, <1>3, UsedSound

(* What a scan keeps in the command is not what the command is about. *)
Looks(c, k, m, v) == c = [cmd EXCEPT !.left = k, !.match = m, !.status = v]

(* Such a command is the same one.                                       *)
LEMMA Looking ==
  ASSUME SameCommand(cmd), NEW k, NEW m, NEW v, NEW c, Looks(c, k, m, v),
         cmd.op \in {"create", "destroy"} => v = cmd.status
  PROVE  SameCommand(c) /\ c.attrs = cmd.attrs
<1>1. IsCommand(cmd) /\ cmd.attrs \in Seq(Attrs \cup {Unset})
  BY DEF SameCommand
<1>2. c = [op |-> cmd.op, arg |-> cmd.arg, rel |-> cmd.rel, from |-> cmd.from, attrs |-> cmd.attrs,
           todo |-> cmd.todo, left |-> k, match |-> m, status |-> v, had |-> cmd.had]
  BY <1>1 DEF IsCommand, Looks
<1> QED
  BY <1>1, <1>2 DEF SameCommand, IsCommand

(* Such a step fails, and the command goes on. *)
LEMMA GoesOnAfter ==
  ASSUME SessionInv, NEW s \in UsingSteps, At(s), NEW st, GoOnAfter(st)
  PROVE  \E c : SameCommand(c) /\ c.attrs = cmd.attrs /\ Continue(c)
<1> DEFINE c == [cmd EXCEPT !.left = -1, !.match = FALSE, !.status = IF @ = "OK" THEN st ELSE @]
<1>1. Continue(c)
  BY DEF GoOnAfter
<1>2. SameCommand(cmd) /\ cmd.op \notin {"create", "destroy"}
  <2>1. PICK n : n = cmd.rel
    OBVIOUS
  <2> QED
    BY <2>1, Here, HereUsing
<1>3. PICK k, m, v : k = -1 /\ m = FALSE /\ v = IF cmd.status = "OK" THEN st ELSE cmd.status
  OBVIOUS
<1>4. Looks(c, k, m, v)
  BY <1>3 DEF Looks
<1> HIDE DEF c
<1>5. cmd.op \in {"create", "destroy"} => v = cmd.status
  BY <1>2
<1>6. SameCommand(c) /\ c.attrs = cmd.attrs
  BY <1>2, <1>4, <1>5, Looking
<1> QED
  BY <1>1, <1>6

(* A step leaves the scan as it is, or not, and the command goes on. *)
LEMMA LeftSound ==
  ASSUME SessionInv, NEW s \in UsingSteps, At(s), NEW st, GoOnAfter(st),
         UNCHANGED <<phase, catalogs, disk>>,
         \/ UNCHANGED <<file, harmed>>
         \/ file' = [file EXCEPT ![cmd.rel] = Leaked(@)] /\ harmed' = harmed \cup {cmd.rel}
  PROVE  SessionInv'
<1>1. PICK c : SameCommand(c) /\ c.attrs = cmd.attrs /\ Continue(c)
  BY GoesOnAfter
<1>2. CASE UNCHANGED <<file, harmed>>
  BY <1>1, <1>2, UsedSame
<1>3. CASE file' = [file EXCEPT ![cmd.rel] = Leaked(@)] /\ harmed' = harmed \cup {cmd.rel}
  <2>1. PICK n : n = cmd.rel
    OBVIOUS
  <2>2. DataTypes /\ n \in Names
    BY <2>1, Here
  <2>3. PICK f : f = Leaked(file[n])
    OBVIOUS
  <2>4. f \in Files /\ f.kind = file[n].kind
    BY <2>2, <2>3, FileKinds, Kept DEF Leaked, Files
  <2>5. file' = [file EXCEPT ![n] = f]
    BY <1>3, <2>1, <2>2, <2>3 DEF DataTypes
  <2>6. Sets(n, relcat[n], attrcat[n], f)
    BY <2>2, <2>5, Kept DEF Sets, catalogs
  <2> QED
    BY <1>1, <1>3, <2>1, <2>4, <2>6, UsedSound
<1> QED
  BY <1>2, <1>3

(* The file cannot be opened: an error, or the end of the process.       *)
LEMMA BadObjectSound ==
  ASSUME SessionInv, NEW s \in UsingSteps, At(s), BadObject
  PROVE  SessionInv'
<1>1. CASE Lost
  BY <1>1, LostSound
<1>2. CASE /\ GoOnAfter("UNIXERR") /\ UNCHANGED <<phase, catalogs, disk>>
           /\ \/ UNCHANGED <<file, harmed>>
              \/ file' = [file EXCEPT ![cmd.rel] = Leaked(@)] /\ harmed' = harmed \cup {cmd.rel}
  BY <1>2, LeftSound
<1> QED
  BY <1>1, <1>2 DEF BadObject, Harmed

(* Nothing is known of what such an object does.                         *)
LEMMA UndefinedSound ==
  ASSUME SessionInv, NEW s \in UsingSteps, At(s), Undefined
  PROVE  SessionInv'
BY BadObjectSound DEF Undefined

(* The number of tuples changes. *)
LEMMA TuplesChange ==
  ASSUME DataTypes, NEW n \in Names, NEW k \in Counts,
         file' = [file EXCEPT ![n].tuples = k]
  PROVE  \E f \in Files : /\ file' = [file EXCEPT ![n] = f]
                          /\ f.kind = file[n].kind /\ f.leaked = file[n].leaked
<1> DEFINE f == [file[n] EXCEPT !.tuples = k]
<1>1. file[n] \in Files
  BY DEF DataTypes
<1>2. f \in Files /\ f.kind = file[n].kind /\ f.leaked = file[n].leaked
  BY <1>1 DEF Files
<1>3. file' = [file EXCEPT ![n] = f]
  OBVIOUS
<1> QED
  BY <1>2, <1>3

(* The numbers of tuples that steps come to.                             *)
LEMMA CountsAre ==
  ASSUME DataTypes, NEW n \in Names
  PROVE  /\ file[n].tuples \in Counts /\ Counts \subseteq Nat
         /\ \A k \in file[n].tuples .. Many : k \in Counts
         /\ \A k \in 0 .. file[n].tuples : k \in Counts
         /\ More(file[n].tuples) \in Counts
<1>1. Many \in Nat
  BY SizesAssumption
<1>2. PICK t \in Counts : t = file[n].tuples
  BY DEF DataTypes, Files
<1> QED
  BY <1>1, <1>2 DEF Counts, More

(* UT_Load, QU_Insert and QU_Delete: they change the number of tuples.     *)
LEMMA ChangesSound ==
  ASSUME SessionInv, NEW s \in UsingSteps, At(s), Continue(cmd),
         NEW k \in Counts, file' = [file EXCEPT ![cmd.rel].tuples = k],
         UNCHANGED <<phase, catalogs, disk, harmed>>
  PROVE  SessionInv'
<1>1. PICK n : n = cmd.rel
  OBVIOUS
<1>2. DataTypes /\ n \in Names /\ SameCommand(cmd)
  BY <1>1, Here
<1>3. PICK f \in Files : /\ file' = [file EXCEPT ![n] = f]
                         /\ f.kind = file[n].kind /\ f.leaked = file[n].leaked
  BY <1>1, <1>2, TuplesChange
<1>4. Sets(n, relcat[n], attrcat[n], f)
  BY <1>2, <1>3, Kept DEF Sets, catalogs
<1> QED
  BY <1>1, <1>2, <1>3, <1>4, UsedSound

(* The tuples of a data file are added.                                  *)
LEMMA LoadTuplesSound ==
  ASSUME SessionInv, LoadTuples
  PROVE  SessionInv'
<1>1. At("load") /\ "load" \in UsingSteps
  BY DEF LoadTuples, UsingSteps
<1>2. DataTypes /\ cmd.rel \in Names
  BY <1>1, Here
<1>3. CASE OpensNothing(cmd.rel)
  BY <1>1, <1>3, UndefinedSound DEF LoadTuples
<1>4. CASE ~OpensNothing(cmd.rel)
  <2>1. PICK k \in file[cmd.rel].tuples .. Many : file' = [file EXCEPT ![cmd.rel].tuples = k]
    BY <1>4 DEF LoadTuples
  <2>2. k \in Counts
    BY <1>2, <2>1, CountsAre
  <2>3. Continue(cmd) /\ UNCHANGED <<phase, catalogs, disk, harmed>>
    BY <1>4 DEF LoadTuples
  <2> QED
    BY <1>1, <2>1, <2>2, <2>3, ChangesSound
<1> QED
  BY <1>3, <1>4

(* insertRecord fails in a load, and the scan is left as it is. *)
LEMMA LoadFailsSound ==
  ASSUME SessionInv, LoadFails
  PROVE  SessionInv'
<1>1. At("load") /\ "load" \in UsingSteps /\ Finish("INVALIDRECLEN")
      /\ UNCHANGED <<phase, catalogs, disk>> /\ harmed' = harmed \cup {cmd.rel}
  BY DEF LoadFails, UsingSteps, Harmed
<1>2. PICK n : n = cmd.rel
  OBVIOUS
<1>3. DataTypes /\ n \in Names /\ cmd.todo # <<>>
  BY <1>1, <1>2, Here
<1>4. PICK f \in Files : file' = [file EXCEPT ![n] = f]
  <2>1. PICK t \in file[n].tuples .. Many :
          file' = [file EXCEPT ![n] = Leaked([@ EXCEPT !.tuples = t])]
    BY <1>2 DEF LoadFails
  <2>2. t \in Counts /\ file[n] \in Files
    BY <1>3, <2>1, CountsAre, Kept
  <2>3. [file[n] EXCEPT !.tuples = t] \in Files
    BY <2>2 DEF Files
  <2>4. Leaked([file[n] EXCEPT !.tuples = t]) \in Files
    BY <2>3, FileKinds
  <2>5. file' = [file EXCEPT ![n] = Leaked([file[n] EXCEPT !.tuples = t])]
    BY <1>3, <2>1 DEF DataTypes
  <2> QED
    BY <2>4, <2>5
<1>5. Sets(n, relcat[n], attrcat[n], f)
  BY <1>1, <1>3, <1>4, Kept DEF Sets, catalogs
<1>6. DataTypes' /\ Around
  <2>1. relcat[n] \in Nat /\ attrcat[n] \in Seq(Attrs)
    BY <1>3, Kept
  <2> QED
    BY <1>1, <1>2, <1>3, <1>5, <2>1, Setting
<1>7. AtRest(n)'
  BY <1>1, <1>2 DEF AtRest
<1> QED
  BY <1>1, <1>2, <1>3, <1>6, <1>7, Ending

(* Such a step is refused. *)
LEMMA RefusedInUse ==
  ASSUME SessionInv, NEW s \in {"load", "insert", "delete"}, At(s),
         NEW st, st \notin {"OK", "NAMETOOLONG", "FILEEXISTS"},
         Finish(st), UNCHANGED <<phase, file, catalogs, disk, harmed>>
  PROVE  SessionInv'
<1>1. PICK n : n = cmd.rel
  OBVIOUS
<1>2. s \in UsingSteps
  BY DEF UsingSteps
<1>3. AtRest(n)
  BY <1>1, <1>2, HereUsing DEF AtRest
<1>4. DataTypes /\ cmd.todo # <<>>
  BY Here
<1>5. DataTypes' /\ Around /\ AtRest(n)'
  BY <1>3, <1>4, Unmoved
<1> QED
  BY <1>1, <1>4, <1>5, Ending

(* One tuple is added, or it does not fit.                               *)
LEMMA InsertSound ==
  ASSUME SessionInv, Insert
  PROVE  SessionInv'
<1>1. At("insert") /\ "insert" \in UsingSteps
  BY DEF Insert, UsingSteps
<1>2. DataTypes /\ cmd.rel \in Names
  BY <1>1, Here
<1>3. CASE OpensNothing(cmd.rel)
  BY <1>1, <1>3, UndefinedSound DEF Insert
<1>4. CASE ~OpensNothing(cmd.rel) /\ TooWide(cmd.attrs)
  <2>1. Refused("INVALIDRECLEN")
    BY <1>4 DEF Insert
  <2> QED
    BY <1>1, <2>1, RefusedInUse DEF Refused
<1>5. CASE ~OpensNothing(cmd.rel) /\ ~TooWide(cmd.attrs)
  <2>1. PICK k : k = More(file[cmd.rel].tuples)
    OBVIOUS
  <2>2. k \in Counts
    BY <1>2, <2>1, CountsAre
  <2>3. /\ file' = [file EXCEPT ![cmd.rel].tuples = k]
        /\ Continue(cmd) /\ UNCHANGED <<phase, catalogs, disk, harmed>>
    BY <1>2, <1>5, <2>1 DEF Insert, AddTuple
  <2> QED
    BY <1>1, <2>2, <2>3, ChangesSound
<1> QED
  BY <1>3, <1>4, <1>5

(* The tuple is not added.                                               *)
LEMMA InsertFailsSound ==
  ASSUME SessionInv, InsertFails
  PROVE  SessionInv'
BY RefusedInUse DEF InsertFails

(* A delete comes to the end of the file, or to an error that it takes for *)
(* the end.                                                                *)
LEMMA DeleteSound ==
  ASSUME SessionInv, Delete \/ DeleteFails
  PROVE  SessionInv'
<1>1. At("delete") /\ "delete" \in UsingSteps
  BY DEF Delete, DeleteFails, UsingSteps
<1>2. DataTypes /\ cmd.rel \in Names
  BY <1>1, Here
<1>3. CASE OpensNothing(cmd.rel)
  BY <1>1, <1>3, UndefinedSound DEF Delete, DeleteFails
<1>4. CASE ~OpensNothing(cmd.rel)
  <2>1. PICK k \in 0 .. file[cmd.rel].tuples : file' = [file EXCEPT ![cmd.rel].tuples = k]
    BY <1>4 DEF Delete, DeleteFails
  <2>2. k \in Counts
    BY <1>2, <2>1, CountsAre
  <2>3. Continue(cmd) /\ UNCHANGED <<phase, catalogs, disk, harmed>>
    BY <1>4 DEF Delete, DeleteFails
  <2> QED
    BY <1>1, <2>1, <2>2, <2>3, ChangesSound
<1> QED
  BY <1>3, <1>4

-----------------------------------------------------------------------------
(* The scan of a query.                                                    *)

(* The command with another place of its scan. *)
Scans(c) == \E k, m : c = [cmd EXCEPT !.left = k, !.match = m] \/ c = [cmd EXCEPT !.left = k]

(* Such a command is the same one.                                       *)
LEMMA Scanning ==
  ASSUME SameCommand(cmd), NEW c, Scans(c)
  PROVE  SameCommand(c) /\ c.attrs = cmd.attrs
<1>1. IsCommand(cmd) /\ cmd.attrs \in Seq(Attrs \cup {Unset})
  BY DEF SameCommand
<1>2. PICK k, m : c = [cmd EXCEPT !.left = k, !.match = m] \/ c = [cmd EXCEPT !.left = k]
  BY DEF Scans
<1>3. PICK m2 : c = [op |-> cmd.op, arg |-> cmd.arg, rel |-> cmd.rel, from |-> cmd.from,
                     attrs |-> cmd.attrs, todo |-> cmd.todo, left |-> k, match |-> m2,
                     status |-> cmd.status, had |-> cmd.had]
  <2>1. CASE c = [cmd EXCEPT !.left = k, !.match = m]
    BY <1>1, <2>1 DEF IsCommand
  <2>2. CASE c = [cmd EXCEPT !.left = k]
    BY <1>1, <2>2 DEF IsCommand
  <2> QED
    BY <1>2, <2>1, <2>2
<1> QED
  BY <1>1, <1>3 DEF SameCommand, IsCommand

(* The scan goes on, and nothing is changed. *)
LEMMA ScansOn ==
  ASSUME SessionInv, At("scan"), Scans(cmd'), reply' = reply,
         UNCHANGED <<phase, file, catalogs, disk, harmed>>
  PROVE  SessionInv'
<1>1. PICK c : c = cmd'
  OBVIOUS
<1>2. PICK n, a, s : n = cmd.rel /\ a = cmd.attrs /\ s = "scan"
  OBVIOUS
<1>3. /\ DataTypes /\ cmd.todo # <<>> /\ s = Head(cmd.todo) /\ SameCommand(cmd)
      /\ Midway(s, n, a)
  BY <1>2, Here
<1>4. SameCommand(c) /\ c.attrs = cmd.attrs
  BY <1>1, <1>3, Scanning
<1>5. DataTypes' /\ Around /\ Midway(s, n, a)'
  BY <1>3, Unmoved
<1> QED
  BY <1>1, <1>2, <1>3, <1>4, <1>5, Staying

(* The scan is opened.                                                   *)
LEMMA OpenForScanSound ==
  ASSUME SessionInv, OpenForScan
  PROVE  SessionInv'
<1>1. At("scan") /\ "scan" \in UsingSteps
  BY DEF OpenForScan, UsingSteps
<1>2. \/ Undefined
      \/ /\ cmd' = [cmd EXCEPT !.left = ToLookAt]
         /\ UNCHANGED <<phase, file, catalogs, disk, reply, troubles, harmed>>
  BY DEF OpenForScan
<1>3. CASE Undefined
  BY <1>1, <1>3, UndefinedSound
<1>4. CASE /\ cmd' = [cmd EXCEPT !.left = ToLookAt]
           /\ UNCHANGED <<phase, file, catalogs, disk, reply, troubles, harmed>>
  <2>1. Scans(cmd')
    BY <1>4 DEF Scans
  <2> QED
    BY <1>1, <1>4, <2>1, ScansOn
<1> QED
  BY <1>2, <1>3, <1>4

(* It looks at a tuple.                                                  *)
LEMMA NextTupleSound ==
  ASSUME SessionInv, NextTuple
  PROVE  SessionInv'
<1>1. PICK k, m : cmd' = [cmd EXCEPT !.left = k, !.match = m]
  BY DEF NextTuple
<1>2. Scans(cmd')
  BY <1>1 DEF Scans
<1> QED
  BY <1>2, ScansOn DEF NextTuple

(* A tuple is added to the result.                                       *)
LEMMA InsertTupleSound ==
  ASSUME SessionInv, InsertTuple
  PROVE  SessionInv'
<1>1. PICK n, a, s : n = cmd.rel /\ a = cmd.attrs /\ s = "scan"
  OBVIOUS
<1>2. At(s) /\ s \in UsingSteps
  BY <1>1 DEF InsertTuple, UsingSteps
<1>3. /\ DataTypes /\ cmd.todo # <<>> /\ s = Head(cmd.todo) /\ SameCommand(cmd) /\ n \in Names
  BY <1>1, <1>2, Here
<1>4. PICK c : c = cmd'
  OBVIOUS
<1>5. SameCommand(c) /\ c.attrs = cmd.attrs
  <2>1. PICK k, m : cmd' = [cmd EXCEPT !.left = k, !.match = m]
    BY DEF InsertTuple
  <2>2. Scans(c)
    BY <1>4, <2>1 DEF Scans
  <2> QED
    BY <1>3, <2>2, Scanning
<1>6. PICK t \in Counts : file' = [file EXCEPT ![n].tuples = t]
  <2>1. More(file[n].tuples) \in Counts
    BY <1>3, CountsAre
  <2>2. file' = [file EXCEPT ![n].tuples = More(file[n].tuples)]
    BY <1>1, <1>3 DEF InsertTuple, AddTuple
  <2> QED
    BY <2>1, <2>2
<1>7. PICK f \in Files : /\ file' = [file EXCEPT ![n] = f]
                         /\ f.kind = file[n].kind /\ f.leaked = file[n].leaked
  BY <1>3, <1>6, TuplesChange
<1>8. /\ DataTypes' /\ Around
      /\ relcat'[n] = relcat[n] /\ attrcat'[n] = attrcat[n] /\ file'[n] = f
  <2>1. Sets(n, relcat[n], attrcat[n], f) /\ harmed' = harmed
    BY <1>3, <1>7, Kept DEF Sets, InsertTuple, catalogs
  <2>2. relcat[n] \in Nat /\ attrcat[n] \in Seq(Attrs)
    BY <1>3, Kept
  <2> QED
    BY <1>1, <1>3, <2>1, <2>2, Setting
<1>9. n \notin harmed' => Sound(n)'
  <2>1. n \notin harmed => Sound(n)
    BY <1>1, <1>2, HereUsing
  <2> QED
    BY <1>7, <1>8, <2>1 DEF Sound, Absent, InsertTuple
<1>10. Midway(s, n, a)'
  BY <1>1, <1>9 DEF Midway, HalfDone, AllDropped, Given, Creating, Closing
<1>11. reply' = reply
  BY DEF InsertTuple
<1> QED
  BY <1>1, <1>3, <1>4, <1>5, <1>8, <1>10, <1>11, Staying

(* The scan ends, and the command goes on. *)
LEMMA ScanEndsSound ==
  ASSUME SessionInv, At("scan"), Continue(ScanEnds),
         UNCHANGED <<phase, file, catalogs, disk, harmed>>
  PROVE  SessionInv'
<1>1. PICK c : c = ScanEnds
  OBVIOUS
<1>2. Scans(c)
  BY <1>1 DEF Scans, ScanEnds
<1>3. SameCommand(cmd)
  BY Here
<1>4. SameCommand(c) /\ c.attrs = cmd.attrs
  BY <1>2, <1>3, Scanning
<1>5. "scan" \in UsingSteps
  BY DEF UsingSteps
<1> QED
  BY <1>1, <1>4, <1>5, UsedSame

(* The scan has seen everything.                                         *)
LEMMA ScannedSound ==
  ASSUME SessionInv, Scanned
  PROVE  SessionInv'
BY ScanEndsSound DEF Scanned

(* Such a step fails and changes nothing. *)
LEMMA GoOnAfterSound ==
  ASSUME SessionInv, NEW s \in UsingSteps, At(s), NEW st, GoOnAfter(st),
         UNCHANGED <<phase, file, catalogs, disk, harmed>>
  PROVE  SessionInv'
<1>1. PICK c : SameCommand(c) /\ c.attrs = cmd.attrs /\ Continue(c)
  BY GoesOnAfter
<1> QED
  BY <1>1, UsedSame

(* The scan is not opened: its where clause names no attribute,           *)
LEMMA WhereUnknownSound ==
  ASSUME SessionInv, WhereUnknown
  PROVE  SessionInv'
<1>1. At("scan") /\ "scan" \in UsingSteps
  BY DEF WhereUnknown, UsingSteps
<1> QED
  BY <1>1, GoOnAfterSound DEF WhereUnknown

(* or a call fails.                                                      *)
LEMMA OpenFailsSound ==
  ASSUME SessionInv, OpenFails
  PROVE  SessionInv'
<1>1. At("scan") /\ "scan" \in UsingSteps
  BY DEF OpenFails, UsingSteps
<1> QED
  BY <1>1, BadObjectSound DEF OpenFails

(* A tuple of the result fits on no page.                                *)
LEMMA InsertTooWideSound ==
  ASSUME SessionInv, InsertTooWide
  PROVE  SessionInv'
<1>1. At("scan") /\ "scan" \in UsingSteps
  BY DEF InsertTooWide, UsingSteps
<1>2. \/ Dies
      \/ GoOnAfter("INVALIDRECLEN") /\ UNCHANGED <<phase, file, catalogs, disk, troubles, harmed>>
  BY DEF InsertTooWide
<1>3. CASE Dies
  BY <1>3, LostSound DEF Dies
<1>4. CASE GoOnAfter("INVALIDRECLEN") /\ UNCHANGED <<phase, file, catalogs, disk, troubles, harmed>>
  BY <1>1, <1>4, GoOnAfterSound
<1> QED
  BY <1>2, <1>3, <1>4

(* A read or an insertion fails.                                         *)
LEMMA ScanFailsSound ==
  ASSUME SessionInv, ScanFails
  PROVE  SessionInv'
<1>1. At("scan") /\ "scan" \in UsingSteps
  BY DEF ScanFails, UsingSteps
<1>2. \/ Lost
      \/ /\ Continue(ScanEnds) \/ GoOnAfter("IOERR")
         /\ UNCHANGED <<phase, file, catalogs, disk, harmed>>
  BY DEF ScanFails
<1>3. CASE Lost
  BY <1>3, LostSound
<1>4. CASE Continue(ScanEnds) /\ UNCHANGED <<phase, file, catalogs, disk, harmed>>
  BY <1>1, <1>4, ScanEndsSound
<1>5. CASE GoOnAfter("IOERR") /\ UNCHANGED <<phase, file, catalogs, disk, harmed>>
  BY <1>1, <1>5, GoOnAfterSound
<1> QED
  BY <1>2, <1>3, <1>4, <1>5

(* The tuples are printed,                                               *)
LEMMA PrintTuplesSound ==
  ASSUME SessionInv, PrintTuples
  PROVE  SessionInv'
<1>1. At("print") /\ "print" \in UsingSteps
  BY DEF PrintTuples, UsingSteps
<1>2. \/ Undefined
      \/ Continue(cmd) /\ UNCHANGED <<phase, file, catalogs, disk, troubles, harmed>>
  BY DEF PrintTuples
<1>3. SameCommand(cmd)
  BY <1>1, Here
<1> QED
  BY <1>1, <1>2, <1>3, UndefinedSound, UsedSame

(* or not all of them, and the scan may be left as it is.                *)
LEMMA PrintFailsSound ==
  ASSUME SessionInv, PrintFails
  PROVE  SessionInv'
<1>1. At("print") /\ "print" \in UsingSteps /\ GoOnAfter("IOERR")
      /\ UNCHANGED <<phase, catalogs, disk>>
      /\ \/ UNCHANGED <<file, harmed>>
         \/ file' = [file EXCEPT ![cmd.rel] = Leaked(@)] /\ harmed' = harmed \cup {cmd.rel}
  BY DEF PrintFails, UsingSteps, Harmed
<1> QED
  BY <1>1, LeftSound

(* The steps that create the result are put in front of what is left.      *)
LEMMA CreateFirst ==
  ASSUME NEW todo \in Seq(Steps), NEW op, NEW rel, Ordered(todo), Planned(op, rel, todo),
         todo[1] = "result", todo # <<>>
  PROVE  LET w == <<"result">> \o CreateSteps \o Tail(todo)
         IN  /\ Len(w) > 1 /\ Tail(w) \in Seq(Steps) /\ Tail(w) # <<>>
             /\ Ordered(Tail(w)) /\ Planned(op, rel, Tail(w)) /\ Head(Tail(w)) = "checkNew"
<1> DEFINE r == <<"result">> \o CreateSteps
           u == Tail(todo)
           w == r \o u
           t == Tail(w)
<1>1. /\ r \in Seq(Steps) /\ Len(r) = 5
      /\ r[2] = "checkNew" /\ r[3] = "addRel" /\ r[4] = "addAttrs" /\ r[5] = "createFile"
  BY DEF CreateSteps, Steps, Creating
<1>2. /\ Len(todo) \in Nat /\ Len(todo) > 0 /\ u \in Seq(Steps) /\ Len(u) = Len(todo) - 1
      /\ \A i \in 1 .. Len(todo) - 1 : u[i] = todo[i + 1]
  BY TailIs
<1>3. Len(todo) > 1 /\ op \in {"select", "join"} /\ LastOf(todo) \in {"scan", "destroyFile"}
  <2>1. op \in {"select", "join"} /\ LastOf(todo) \in {"scan", "destroyFile"}
    <3>1. 1 \in 1 .. Len(todo)
      BY <1>2
    <3>2. \A S : Only(todo, S) => "result" \in S
      BY <3>1 DEF Only
    <3> QED
      BY <3>2 DEF Planned, Creating, Destroying, Using, Closing
  <2>2. Len(todo) # 1
    BY <2>1 DEF LastOf
  <2> QED
    BY <1>2, <2>1, <2>2
<1>4. u[1] = "scan"
  <2>1. Follows(todo[1], todo[2]) /\ u[1] = todo[2]
    BY <1>2, <1>3 DEF Ordered
  <2> QED
    BY <2>1 DEF Follows
<1> HIDE DEF r, u
<1>5. /\ w \in Seq(Steps) /\ Len(w) = 5 + Len(u) /\ Len(u) \in Nat /\ Len(u) > 0
      /\ \A i \in 1 .. 5 : w[i] = r[i]
      /\ \A i \in 1 .. Len(u) : w[5 + i] = u[i]
  <2>1. w \in Seq(Steps) /\ Len(w) = Len(r) + Len(u)
        /\ \A i \in 1 .. Len(r) + Len(u) : w[i] = IF i <= Len(r) THEN r[i] ELSE u[i - Len(r)]
    BY <1>1, <1>2, ConcatProperties
  <2>2. Len(u) \in Nat /\ Len(u) > 0
    BY <1>2, <1>3
  <2> HIDE DEF w
  <2>3. \A i \in 1 .. 5 : w[i] = r[i]
    BY <1>1, <2>1, <2>2
  <2>4. ASSUME NEW i \in 1 .. Len(u) PROVE w[5 + i] = u[i]
    <3>1. 5 + i \in 1 .. 5 + Len(u) /\ ~(5 + i <= 5) /\ (5 + i) - 5 = i
      BY <2>2
    <3> QED
      BY <1>1, <2>1, <3>1
  <2> QED
    BY <1>1, <2>1, <2>2, <2>3, <2>4
<1> HIDE DEF w
<1>6. w # <<>>
  <2> DEFINE k == Len(w)
  <2>1. k > 0
    BY <1>5
  <2> HIDE DEF k
  <2>2. k # 0
    BY <2>1
  <2> QED
    BY <2>2, EmptySeq DEF k
<1>7. /\ t \in Seq(Steps) /\ Len(t) = 4 + Len(u) /\ t # <<>> /\ Head(t) = w[2]
      /\ \A i \in 1 .. 4 : t[i] = r[i + 1]
      /\ \A i \in 1 .. Len(u) : t[4 + i] = u[i]
  <2>1. /\ t \in Seq(Steps) /\ Len(t) = Len(w) - 1 /\ t # <<>> /\ Head(t) = w[2]
        /\ \A i \in 1 .. Len(w) - 1 : t[i] = w[i + 1]
    BY <1>5, <1>6, TailIs
  <2> HIDE DEF t
  <2>2. \A i \in 1 .. 4 : t[i] = w[i + 1] /\ w[i + 1] = r[i + 1]
    BY <1>5, <2>1
  <2>3. ASSUME NEW i \in 1 .. Len(u) PROVE t[4 + i] = u[i]
    <3>1. 4 + i \in 1 .. Len(w) - 1 /\ (4 + i) + 1 = 5 + i
      BY <1>5, <2>3
    <3>2. t[4 + i] = w[5 + i]
      BY <2>1, <3>1
    <3> QED
      BY <1>5, <3>2
  <2> QED
    BY <1>5, <2>1, <2>2, <2>3
<1> HIDE DEF t
<1>8. t[1] = "checkNew" /\ t[2] = "addRel" /\ t[3] = "addAttrs" /\ t[4] = "createFile"
  BY <1>1, <1>7
<1>9. Ordered(t)
  <2> SUFFICES ASSUME NEW i \in 1 .. Len(t) - 1 PROVE Follows(t[i], t[i + 1])
    BY DEF Ordered
  <2>1. CASE i < 4
    <3>1. i \in {1, 2, 3}
      BY <2>1, <1>5, <1>7
    <3> QED
      BY <1>8, <3>1 DEF Follows
  <2>2. CASE i = 4
    BY <1>4, <1>5, <1>7, <1>8, <2>2 DEF Follows
  <2>3. CASE i > 4
    <3>1. PICK j \in 1 .. Len(u) - 1 : i = 4 + j
      BY <1>5, <1>7, <2>3
    <3>2. t[i] = u[j] /\ t[i + 1] = u[j + 1]
      <4>1. j \in 1 .. Len(u) /\ j + 1 \in 1 .. Len(u) /\ i + 1 = 4 + (j + 1)
        BY <1>5, <3>1
      <4> QED
        BY <1>7, <3>1, <4>1
    <3>3. u[j] = todo[j + 1] /\ u[j + 1] = todo[(j + 1) + 1]
      BY <1>2, <1>5, <3>1
    <3>4. Follows(todo[j + 1], todo[(j + 1) + 1])
      <4>1. j + 1 \in 1 .. Len(todo) - 1
        BY <1>2, <1>5, <3>1
      <4> QED
        BY <4>1 DEF Ordered
    <3> QED
      BY <3>2, <3>3, <3>4
  <2> QED
    BY <1>5, <1>7, <2>1, <2>2, <2>3
<1>10. LastOf(t) = LastOf(todo)
  <2>1. t[4 + Len(u)] = u[Len(u)] /\ u[Len(u)] = todo[Len(todo)]
    BY <1>2, <1>5, <1>7
  <2> QED
    BY <1>7, <2>1 DEF LastOf
<1>11. ASSUME NEW S, Creating \subseteq S, Only(todo, S) PROVE Only(t, S)
  <2> SUFFICES ASSUME NEW i \in 1 .. Len(t) PROVE t[i] \in S
    BY DEF Only
  <2>1. CASE i <= 4
    <3>1. i \in {1, 2, 3, 4}
      BY <1>5, <1>7, <2>1
    <3> QED
      BY <1>8, <1>11, <3>1 DEF Creating
  <2>2. CASE i > 4
    <3>1. PICK j \in 1 .. Len(u) : i = 4 + j
      BY <1>5, <1>7, <2>2
    <3>2. t[i] = todo[j + 1] /\ j + 1 \in 1 .. Len(todo)
      BY <1>2, <1>5, <1>7, <3>1
    <3> QED
      BY <1>11, <3>2 DEF Only
  <2> QED
    BY <1>5, <1>7, <2>1, <2>2
<1>12. Planned(op, rel, t)
  <2>1. \/ /\ rel # Tmp /\ Only(todo, Creating \cup {"result", "scan"}) /\ LastOf(todo) = "scan"
        \/ /\ rel = Tmp
           /\ Only(todo, Creating \cup Destroying \cup {"result", "scan", "print"})
           /\ LastOf(todo) = "destroyFile"
    BY <1>3 DEF Planned
  <2>2. \/ /\ rel # Tmp /\ Only(t, Creating \cup {"result", "scan"}) /\ LastOf(t) = "scan"
        \/ /\ rel = Tmp
           /\ Only(t, Creating \cup Destroying \cup {"result", "scan", "print"})
           /\ LastOf(t) = "destroyFile"
    BY <1>10, <1>11, <2>1
  <2> QED
    BY <1>3, <2>2 DEF Planned
<1>13. Len(w) > 1 /\ Head(t) = "checkNew"
  BY <1>1, <1>5, <1>7
<1> QED
  BY <1>7, <1>9, <1>12, <1>13 DEF r, u, w, t

(* The result is there, or it is created; or there is an error. *)
LEMMA ResultSound ==
  ASSUME SessionInv, Result
  PROVE  SessionInv'
<1>1. PICK n, a, s : n = cmd.rel /\ a = cmd.attrs /\ s = "result"
  OBVIOUS
<1>2. At(s)
  BY <1>1 DEF Result
<1>3. /\ DataTypes /\ CommandSound /\ cmd.todo # <<>> /\ cmd # Idle /\ s = Head(cmd.todo)
      /\ SameCommand(cmd) /\ reply = NoReply /\ n \in Names /\ cmd.todo[1] = s
      /\ Midway(s, n, a) /\ Planned(cmd.op, n, cmd.todo) /\ 1 \in 1 .. Len(cmd.todo)
  BY <1>1, <1>2, Here
<1>4. /\ n \notin harmed => Sound(n) /\ (n = Tmp => Absent(n))
      /\ a \in Seq(Attrs) \ {<<>>}
  BY <1>1, <1>3 DEF Midway, HalfDone, Given
<1>5. UNCHANGED <<phase, file, catalogs, disk, harmed>>
  BY DEF Result, Refused
<1>6. /\ DataTypes' /\ Around /\ phase' = phase /\ harmed' = harmed
      /\ Absent(n)' <=> Absent(n)
      /\ Sound(n)' <=> Sound(n)
  BY <1>3, <1>5, Unmoved DEF Sound, Absent, catalogs
<1>7. CASE Refused("TMP_RES_EXISTS") \/ Refused("ATTRNOTFOUND") \/ Refused("ATTRTYPEMISMATCH")
  <2>1. AtRest(n)
    BY <1>4 DEF AtRest
  <2> QED
    BY <1>1, <1>3, <1>7, <2>1, RefusedSound
<1>8. CASE Continue(cmd)
  <2>1. ASSUME NEW h \in Steps, Follows(s, h) PROVE Midway(h, n, a)'
    <3>1. h = "scan"
      BY <1>1, <2>1 DEF Follows
    <3> QED
      BY <1>4, <1>6, <3>1 DEF Midway, HalfDone, AllDropped, Given, Creating, Closing
  <2>2. cmd.op \notin {"create", "destroy"} /\ ~MayEnd(cmd.op, n, s)
    <3>1. \A S : Only(cmd.todo, S) => "result" \in S
      BY <1>1, <1>3 DEF Only
    <3> QED
      BY <1>1, <1>3, <3>1 DEF Planned, MayEnd, Creating, Destroying, Using, Closing
  <2> QED
    BY <1>1, <1>3, <1>6, <1>8, <2>1, <2>2, Going
<1>9. CASE Continue([cmd EXCEPT !.todo = <<"result">> \o CreateSteps \o Tail(@)])
  <2> DEFINE w == <<"result">> \o CreateSteps \o Tail(cmd.todo)
             t == Tail(w)
  <2>1. /\ Len(w) > 1 /\ t \in Seq(Steps) /\ t # <<>>
        /\ Ordered(t) /\ Planned(cmd.op, n, t) /\ Head(t) = "checkNew"
    <3>1. cmd.todo \in Seq(Steps) /\ Ordered(cmd.todo)
      BY <1>3 DEF CommandSound
    <3> QED
      BY <1>1, <1>3, <3>1, CreateFirst
  <2> HIDE DEF t
  <2>2. cmd' = [cmd EXCEPT !.todo = t] /\ reply' = reply
    <3> DEFINE c == [cmd EXCEPT !.todo = w]
    <3>1. Continue(c)
      BY <1>9
    <3>2. c.todo = w /\ [c EXCEPT !.todo = Tail(@)] = [cmd EXCEPT !.todo = t]
      BY <1>3 DEF SameCommand, IsCommand, t
    <3> HIDE DEF c, w
    <3> QED
      BY <2>1, <3>1, <3>2 DEF Continue
  <2>3. /\ cmd'.op = cmd.op /\ cmd'.rel = n /\ cmd'.attrs = a /\ cmd'.todo = t
        /\ cmd'.status = cmd.status
        /\ cmd' = [op |-> cmd'.op, arg |-> cmd'.arg, rel |-> cmd'.rel, from |-> cmd'.from,
                   attrs |-> cmd'.attrs, todo |-> cmd'.todo, left |-> cmd'.left,
                   match |-> cmd'.match, status |-> cmd'.status, had |-> cmd'.had]
    BY <1>1, <1>3, <2>2 DEF SameCommand, IsCommand
  <2>4. cmd' # Idle
    <3>1. Idle.todo = <<>>
      BY DEF Idle
    <3> QED
      BY <2>1, <2>3, <3>1
  <2>5. CommandSound'
    BY <1>1, <1>3, <2>1, <2>2, <2>3 DEF CommandSound, IsCommand
  <2>6. PICK h : h = "checkNew"
    OBVIOUS
  <2>7. Midway(h, n, a)'
    BY <1>4, <1>6, <2>6 DEF Midway, HalfDone, AllDropped, Given
  <2>8. InTheMiddle'
    BY <2>1, <2>3, <2>6, <2>7 DEF InTheMiddle
  <2>9. AroundIt'
    BY <1>1, <1>3, <1>6, <2>3, <2>4, OthersRest DEF AroundIt
  <2>10. OkMeansDone'
    BY <1>3, <2>2 DEF OkMeansDone, NoReply
  <2> QED
    BY <1>6, <2>5, <2>8, <2>9, <2>10 DEF SessionInv, TypeInv
<1> QED
  BY <1>7, <1>8, <1>9 DEF Result

-----------------------------------------------------------------------------
(* Commands.                                                               *)

(* What a user has said is begun: nothing has been done yet, and its plan  *)
(* is one of those above.                                                  *)
LEMMA BeginSound ==
  ASSUME SessionInv, cmd = Idle, NEW op, NEW arg, NEW n \in Names, NEW from,
         NEW a \in Seq(Attrs), NEW todo \in Seq(Steps), todo # <<>>,
         Begin(op, arg, n, from, a, todo), Ordered(todo), Planned(op, n, todo),
         NEW h, h = todo[1],
         h \in Using \cup Closing \cup {"checkNew", "getRelInfo", "result"},
         h \in Creating \cup {"result"} => a # <<>>
  PROVE  SessionInv'
<1>1. /\ cmd' = [op |-> op, arg |-> arg, rel |-> n, from |-> from, attrs |-> a, todo |-> todo,
                 left |-> -1, match |-> FALSE, status |-> "OK", had |-> Len(attrcat[n])]
      /\ reply' = NoReply /\ UNCHANGED <<phase, file, catalogs, disk, harmed>>
  BY DEF Begin, Idle
<1>2. /\ cmd'.op = op /\ cmd'.rel = n /\ cmd'.attrs = a /\ cmd'.todo = todo /\ cmd'.status = "OK"
      /\ IsCommand(cmd')
  BY <1>1 DEF IsCommand
<1>3. cmd' # Idle
  <2>1. Idle.todo = <<>>
    BY DEF Idle
  <2> QED
    BY <1>2, <2>1
<1>4. a \in Seq(Attrs \cup {Unset})
  <2>1. Len(a) \in Nat /\ \A i \in 1 .. Len(a) : a[i] \in Attrs
    BY LenProperties, ElementOfSeq
  <2>2. a = [i \in 1 .. Len(a) |-> a[i]]
    BY LenProperties
  <2> QED
    BY <2>1, <2>2
<1>5. DataTypes /\ \A m \in Names : AtRest(m)
  BY DEF SessionInv, TypeInv, AroundIt
<1>6. /\ DataTypes' /\ phase' = phase /\ harmed' = harmed
      /\ \A m : AtRest(m)' <=> AtRest(m)
      /\ \A x, m, q : Midway(x, m, q)' <=> Midway(x, m, q)
  BY <1>1, <1>5, Unmoved
<1>7. Midway(h, n, a)
  BY <1>5 DEF Midway, HalfDone, AllDropped, Given, AtRest, Using, Closing
<1>8. Head(todo) = h
  BY TailIs
<1>9. InTheMiddle'
  BY <1>2, <1>6, <1>7, <1>8 DEF InTheMiddle
<1>10. AroundIt'
  BY <1>5, <1>6 DEF AroundIt
<1>11. CommandSound'
  BY <1>1, <1>2, <1>4 DEF CommandSound, IsCommand
<1>12. OkMeansDone'
  BY <1>1 DEF OkMeansDone, NoReply
<1> QED
  BY <1>6, <1>9, <1>10, <1>11, <1>12 DEF SessionInv, TypeInv

(* A plan that has been written down. *)
Plan(op, n, todo, h) ==
  todo \in Seq(Steps) /\ todo # <<>> /\ Ordered(todo) /\ Planned(op, n, todo) /\ h = todo[1]

(* create.                                                               *)
LEMMA CreatePlan ==
  ASSUME NEW n \in Rels
  PROVE  Plan("create", n, CreateSteps, "checkNew")
<1>1. PICK t : t = CreateSteps
  OBVIOUS
<1>2. /\ t \in Seq(Steps) /\ Len(t) = 4
      /\ t[1] = "checkNew" /\ t[2] = "addRel" /\ t[3] = "addAttrs" /\ t[4] = "createFile"
  BY <1>1 DEF CreateSteps, Steps, Creating
<1>3. Ordered(t)
  BY <1>2 DEF Ordered, Follows
<1>4. Only(t, Creating) /\ LastOf(t) = "createFile"
  BY <1>2 DEF Only, LastOf, Creating
<1>5. n # Tmp /\ t # <<>>
  BY <1>1, TmpAssumption DEF CreateSteps
<1> QED
  BY <1>1, <1>2, <1>3, <1>4, <1>5 DEF Plan, Planned

(* destroy.                                                              *)
LEMMA DestroyPlan ==
  ASSUME NEW n \in Names
  PROVE  Plan("destroy", n, DestroySteps, "getRelInfo")
<1>1. PICK t : t = DestroySteps
  OBVIOUS
<1>2. /\ t \in Seq(Steps) /\ Len(t) = 4
      /\ t[1] = "getRelInfo" /\ t[2] = "dropAttrs" /\ t[3] = "dropRel" /\ t[4] = "destroyFile"
  BY <1>1 DEF DestroySteps, Steps, Destroying
<1>3. Ordered(t)
  BY <1>2 DEF Ordered, Follows
<1>4. Only(t, Destroying) /\ LastOf(t) = "destroyFile"
  BY <1>2 DEF Only, LastOf, Destroying
<1>5. t # <<>>
  BY <1>1 DEF DestroySteps
<1> QED
  BY <1>1, <1>2, <1>3, <1>4, <1>5 DEF Plan, Planned

(* load, print, help, insert and delete. *)
LEMMA UsingPlan ==
  ASSUME NEW n \in Rels, NEW op \in {"load", "print", "help", "insert", "delete"},
         NEW t, \/ op = "help" /\ t = <<"lookUp">>
                \/ op = "delete" /\ t = <<"delete">>
                \/ op \in {"load", "print", "insert"} /\ t = <<"lookUp", op>>
  PROVE  Plan(op, n, t, t[1]) /\ t[1] \in Using
<1>1. /\ t \in Seq(Steps) /\ t # <<>> /\ Len(t) \in {1, 2} /\ t[1] \in Using
      /\ Len(t) = 2 => t[1] = "lookUp" /\ t[2] \in {"load", "print", "insert"}
  <2>1. CASE t = <<"lookUp">> \/ t = <<"delete">>
    BY <2>1 DEF Steps, Using
  <2>2. CASE t = <<"lookUp", op>> /\ op \in {"load", "print", "insert"}
    BY <2>2 DEF Steps, Using
  <2> QED
    BY <2>1, <2>2
<1>2. Ordered(t) /\ Only(t, Using)
  BY <1>1 DEF Ordered, Only, Follows, Using
<1>3. n # Tmp
  BY TmpAssumption
<1> QED
  BY <1>1, <1>2, <1>3 DEF Plan, Planned

(* quit.                                                                 *)
LEMMA QuitPlan ==
  ASSUME NEW t, t = <<"closeRelCat", "closeAttrCat", "exit">>
  PROVE  Plan("quit", Tmp, t, "closeRelCat")
<1>1. /\ t \in Seq(Steps) /\ t # <<>> /\ Len(t) = 3
      /\ t[1] = "closeRelCat" /\ t[2] = "closeAttrCat" /\ t[3] = "exit"
  BY DEF Steps, Closing
<1>2. Ordered(t)
  BY <1>1 DEF Ordered, Follows
<1>3. Only(t, Closing) /\ LastOf(t) = "exit"
  BY <1>1 DEF Only, LastOf, Closing
<1> QED
  BY <1>1, <1>2, <1>3 DEF Plan, Planned

(* select and join, without into and with it. *)
LEMMA QueryPlan ==
  ASSUME NEW op \in {"select", "join"}, NEW n, NEW t,
         \/ n = Tmp /\ t = <<"result", "scan">> \o (<<"print">> \o DestroySteps)
         \/ n # Tmp /\ t = <<"result", "scan">> \o <<>>
  PROVE  Plan(op, n, t, "result")
<1>1. CASE n = Tmp
  <2>1. t = <<"result", "scan">> \o (<<"print">> \o DestroySteps)
    BY <1>1
  <2>2. /\ t \in Seq(Steps) /\ t # <<>> /\ Len(t) = 7
        /\ t[1] = "result" /\ t[2] = "scan" /\ t[3] = "print"
        /\ t[4] = "getRelInfo" /\ t[5] = "dropAttrs" /\ t[6] = "dropRel" /\ t[7] = "destroyFile"
    BY <2>1 DEF DestroySteps, Steps, Destroying, Using
  <2>3. Ordered(t)
    BY <2>2 DEF Ordered, Follows
  <2>4. /\ Only(t, Creating \cup Destroying \cup {"result", "scan", "print"})
        /\ LastOf(t) = "destroyFile"
    BY <2>2 DEF Only, LastOf, Destroying
  <2> QED
    BY <1>1, <2>2, <2>3, <2>4 DEF Plan, Planned
<1>2. CASE n # Tmp
  <2>1. t = <<"result", "scan">> \o <<>>
    BY <1>2
  <2>2. t \in Seq(Steps) /\ t # <<>> /\ Len(t) = 2 /\ t[1] = "result" /\ t[2] = "scan"
    BY <2>1 DEF Steps
  <2>3. Ordered(t)
    BY <2>2 DEF Ordered, Follows
  <2>4. Only(t, Creating \cup {"result", "scan"}) /\ LastOf(t) = "scan"
    BY <2>2 DEF Only, LastOf
  <2> QED
    BY <1>2, <2>2, <2>3, <2>4 DEF Plan, Planned
<1> QED
  BY <1>1, <1>2

(* A command whose plan has been written down is begun.                  *)
LEMMA PlanBegins ==
  ASSUME SessionInv, cmd = Idle, NEW op, NEW arg, NEW n \in Names, NEW from,
         NEW a \in Seq(Attrs), NEW todo, NEW h, Plan(op, n, todo, h),
         Begin(op, arg, n, from, a, todo),
         h \in Using \cup Closing \cup {"checkNew", "getRelInfo", "result"},
         h \in Creating \cup {"result"} => a # <<>>
  PROVE  SessionInv'
BY BeginSound DEF Plan

(* create is begun, of a relation of users.                              *)
LEMMA CreateSound ==
  ASSUME SessionInv, NEW n \in Rels, NEW a \in Lists[n], Create(n, a)
  PROVE  SessionInv'
<1>1. PICK op, arg, from, todo, h :
        /\ op = "create" /\ arg = "" /\ from = <<>> /\ todo = CreateSteps /\ h = "checkNew"
  OBVIOUS
<1>2. Plan(op, n, todo, h)
  BY <1>1, CreatePlan
<1>3. cmd = Idle /\ Begin(op, arg, n, from, a, todo)
  BY <1>1 DEF Create, Parsed, Statement
<1>4. n \in Names /\ a \in Seq(Attrs) /\ a # <<>>
  BY ListsAssumption DEF Names
<1> QED
  BY <1>1, <1>2, <1>3, <1>4, PlanBegins

(* destroy is begun, of any relation.                                    *)
LEMMA DestroySound ==
  ASSUME SessionInv, NEW n \in Names, Destroy(n)
  PROVE  SessionInv'
<1>1. PICK op, arg, from, todo, h :
        /\ op = "destroy" /\ arg = "" /\ from = <<>> /\ todo = DestroySteps /\ h = "getRelInfo"
  OBVIOUS
<1>2. Plan(op, n, todo, h)
  BY <1>1, DestroyPlan
<1>3. PICK a \in Seq(Attrs) : a = <<>>
  BY EmptySeq
<1>4. cmd = Idle /\ Begin(op, arg, n, from, a, todo)
  BY <1>1, <1>3 DEF Destroy, Parsed, Statement
<1>5. h \notin Creating \cup {"result"}
  BY <1>1 DEF Creating
<1> QED
  BY <1>1, <1>2, <1>4, <1>5, PlanBegins

(* load, print, help, insert and delete. *)
LEMMA UseBegins ==
  ASSUME SessionInv, cmd = Idle, NEW n \in Rels,
         NEW op \in {"load", "print", "help", "insert", "delete"}, NEW arg,
         NEW todo, \/ op = "help" /\ todo = <<"lookUp">>
                   \/ op = "delete" /\ todo = <<"delete">>
                   \/ op \in {"load", "print", "insert"} /\ todo = <<"lookUp", op>>,
         Begin(op, arg, n, <<>>, <<>>, todo)
  PROVE  SessionInv'
<1>1. PICK h : h = todo[1]
  OBVIOUS
<1>2. Plan(op, n, todo, h) /\ h \in Using
  BY <1>1, UsingPlan
<1>3. PICK a, from : a \in Seq(Attrs) /\ a = <<>> /\ from = <<>>
  BY EmptySeq
<1>4. h \notin Creating \cup {"result"}
  BY <1>2 DEF Using, Creating
<1>5. n \in Names /\ Begin(op, arg, n, from, a, todo)
  BY <1>3 DEF Names
<1> QED
  BY <1>2, <1>3, <1>4, <1>5, PlanBegins

(* Each of the five is begun.                                            *)
LEMMA UseSound ==
  ASSUME SessionInv, NEW n \in Rels, NEW w,
         Load(n) \/ PrintRel(n) \/ Help(n) \/ InsertInto(n) \/ DeleteFrom(n, w)
  PROVE  SessionInv'
<1>1. cmd = Idle
  BY DEF Load, PrintRel, Help, InsertInto, DeleteFrom, Parsed, Statement
<1>2. PICK load, print, help, insert, delete, none :
        /\ load = "load" /\ print = "print" /\ help = "help" /\ insert = "insert"
        /\ delete = "delete" /\ none = ""
  OBVIOUS
<1>3. PICK l, p, h, i, d :
        /\ l = <<"lookUp", "load">> /\ p = <<"lookUp", "print">> /\ h = <<"lookUp">>
        /\ i = <<"lookUp", "insert">> /\ d = <<"delete">>
  OBVIOUS
<1>4. CASE Load(n)
  <2>1. Begin(load, none, n, <<>>, <<>>, l)
    BY <1>2, <1>3, <1>4 DEF Load
  <2> QED
    BY <1>1, <1>2, <1>3, <2>1, UseBegins
<1>5. CASE PrintRel(n)
  <2>1. Begin(print, none, n, <<>>, <<>>, p)
    BY <1>2, <1>3, <1>5 DEF PrintRel
  <2> QED
    BY <1>1, <1>2, <1>3, <2>1, UseBegins
<1>6. CASE Help(n)
  <2>1. Begin(help, none, n, <<>>, <<>>, h)
    BY <1>2, <1>3, <1>6 DEF Help
  <2> QED
    BY <1>1, <1>2, <1>3, <2>1, UseBegins
<1>7. CASE InsertInto(n)
  <2>1. Begin(insert, none, n, <<>>, <<>>, i)
    BY <1>2, <1>3, <1>7 DEF InsertInto
  <2> QED
    BY <1>1, <1>2, <1>3, <2>1, UseBegins
<1>8. CASE DeleteFrom(n, w)
  <2>1. Begin(delete, w, n, <<>>, <<>>, d)
    BY <1>2, <1>3, <1>8 DEF DeleteFrom
  <2> QED
    BY <1>1, <1>2, <1>3, <2>1, UseBegins
<1> QED
  BY <1>4, <1>5, <1>6, <1>7, <1>8

(* quit is begun.                                                        *)
LEMMA QuitSound ==
  ASSUME SessionInv, Quit
  PROVE  SessionInv'
<1>1. PICK op, arg, from, todo, h :
        /\ op = "quit" /\ arg = "" /\ from = <<>> /\ h = "closeRelCat"
        /\ todo = <<"closeRelCat", "closeAttrCat", "exit">>
  OBVIOUS
<1>2. Plan(op, Tmp, todo, h)
  BY <1>1, QuitPlan
<1>3. PICK a \in Seq(Attrs) : a = <<>>
  BY EmptySeq
<1>4. PICK n \in Names : n = Tmp
  BY DEF Names
<1>5. cmd = Idle /\ Begin(op, arg, n, from, a, todo)
  BY <1>1, <1>3, <1>4 DEF Quit, Parsed, Statement
<1>6. h \in Closing /\ h \notin Creating \cup {"result"}
  BY <1>1 DEF Creating, Closing
<1> QED
  BY <1>2, <1>4, <1>5, <1>6, PlanBegins

(* select or join is begun.                                              *)
LEMMA QuerySound ==
  ASSUME SessionInv, NEW q \in Queries, Query(q)
  PROVE  SessionInv'
<1> DEFINE kind == IF Len(q.where) = 2 THEN "join" ELSE "select"
           into == IF q.into = NoName THEN Tmp ELSE q.into
           plan == <<"result", "scan">> \o IF q.into = NoName THEN <<"print">> \o DestroySteps ELSE <<>>
<1>1. PICK op, n, todo : op = kind /\ n = into /\ todo = plan
  OBVIOUS
<1>2. cmd = Idle
  BY DEF Query, Parsed, Statement
<1>3. q.into \in Rels \cup {NoName} /\ AttrNames(q.attrs) \in Seq(Attrs) \ {<<>>}
  BY ListsAssumption
<1>4. n \in Names
  BY <1>1, <1>3 DEF Names
<1>5. PICK arg, from, h : arg = Knowledge(q) /\ from = Sources(q) /\ h = "result"
  OBVIOUS
<1>6. PICK a \in Seq(Attrs) : a = AttrNames(q.attrs) /\ a # <<>>
  BY <1>3
<1>7. Plan(op, n, todo, h)
  <2>1. CASE q.into = NoName
    BY <1>1, <1>5, <2>1, QueryPlan
  <2>2. CASE q.into # NoName
    <3>1. n # Tmp
      BY <1>1, <1>3, <2>2, TmpAssumption
    <3> QED
      BY <1>1, <1>5, <2>2, <3>1, QueryPlan
  <2> QED
    BY <2>1, <2>2
<1>8. Begin(op, arg, n, from, a, todo)
  BY <1>1, <1>5, <1>6 DEF Query
<1> QED
  BY <1>2, <1>4, <1>5, <1>6, <1>7, <1>8, PlanBegins

-----------------------------------------------------------------------------
(* The invariant, and what follows from it.                                *)

(* Whatever users say keeps the invariant.                               *)
LEMMA CommandKeeps ==
  ASSUME SessionInv, Command
  PROVE  SessionInv'
<1>1. CASE \E n \in Rels : \E attrs \in Lists[n] : Create(n, attrs) \/ Kills(CreateNodes(attrs))
  BY <1>1, CreateSound, LostSound DEF Kills, Dies
<1>2. CASE \E n \in Names : Destroy(n)
  BY <1>2, DestroySound
<1>3. CASE \E n \in Rels : Load(n) \/ PrintRel(n) \/ Help(n)
  BY <1>3, UseSound
<1>4. CASE \E n \in Rels : InsertInto(n) \/ Kills(InsertNodes(Len(attrcat[n])))
  BY <1>4, UseSound, LostSound DEF Kills, Dies
<1>5. CASE \E n \in Rels, which \in {"known", "unknown"} : DeleteFrom(n, which)
  BY <1>5, UseSound
<1>6. CASE \E q \in Queries : Query(q) \/ Kills(QueryNodes(q))
  BY <1>6, QuerySound, LostSound DEF Kills, Dies
<1>7. CASE BuildIndex
  BY <1>7, LostSound DEF BuildIndex, Dies
<1>8. CASE Quit
  BY <1>8, QuitSound
<1> QED
  BY <1>1, <1>2, <1>3, <1>4, <1>5, <1>6, <1>7, <1>8 DEF Command

(* One lemma for each step of a command. *)
LEMMA StepKeeps ==
  ASSUME SessionInv, Step
  PROVE  SessionInv'
<1>1. CASE LookUp \/ GetRelInfo \/ CheckNew
  BY <1>1, LookUpSound, GetRelInfoSound, CheckNewSound
<1>2. CASE AddRel \/ AddAttrs \/ AddOverlong \/ AddOverlong5 \/ FileIsThere \/ CreateFile
  BY <1>2, AddRelSound, AddAttrsSound, AddsFailSound, AddOverlong5Sound, FileIsThereSound, CreateFileSound
<1>3. CASE DropAttrs \/ DropUnset \/ DropRel \/ UsedAfterDelete \/ DestroyFile
  BY <1>3, DropAttrsSound, DropFailsSound, DropRelSound, LostSound, DestroyFileSound DEF UsedAfterDelete, Dies
<1>4. CASE LoadTuples \/ Insert \/ Delete
  BY <1>4, LoadTuplesSound, InsertSound, DeleteSound
<1>5. CASE Result \/ WhereUnknown \/ OpenForScan \/ NextTuple \/ InsertTuple \/ InsertTooWide \/ Scanned \/ PrintTuples
  BY <1>5, ResultSound, WhereUnknownSound, OpenForScanSound, NextTupleSound, InsertTupleSound, InsertTooWideSound,
     ScannedSound, PrintTuplesSound
<1>6. CASE CloseRelCat \/ CloseAttrCat \/ Exit
  BY <1>6, ClosesSound
<1> QED
  BY <1>1, <1>2, <1>3, <1>4, <1>5, <1>6 DEF Step

(* One for each way in which it fails. *)
LEMMA FailureKeeps ==
  ASSUME SessionInv, Failure
  PROVE  SessionInv'
<1>1. CASE CatalogFails \/ AddAttrsFails \/ CreateFileFails \/ DropAttrsFails \/ DestroyFileFails
  BY <1>1, CatalogFailsSound, AddsFailSound, CreateFileFailsSound, DropFailsSound, DestroyFileFailsSound
<1>2. CASE LoadFails \/ InsertFails \/ DeleteFails \/ OpenFails \/ ScanFails \/ PrintFails
  BY <1>2, LoadFailsSound, InsertFailsSound, DeleteSound, OpenFailsSound, ScanFailsSound, PrintFailsSound
<1>3. CASE Crash
  BY <1>3, LostSound DEF Crash
<1> QED
  BY <1>1, <1>2, <1>3 DEF Failure

(* The database that dbcreate has left, or that sessions have.             *)
LEMMA SessionInit ==
  ASSUME Init
  PROVE  SessionInv
<1>1. PICK start \in Starts : attrcat = [n \in Names |-> IF n = Tmp THEN <<>> ELSE start[n]]
  BY DEF Init
<1>2. /\ phase \in {5, 6} /\ cmd = Idle /\ reply = NoReply /\ harmed = {}
      /\ file = [n \in Names |-> IF attrcat[n] = <<>> THEN NoFile
                                 ELSE [NewFile EXCEPT !.tuples = IF TooWide(attrcat[n]) THEN 0 ELSE Many]]
      /\ relcat = [n \in Names |-> Len(attrcat[n])]
      /\ disk = [relcat |-> relcat, attrcat |-> attrcat]
  BY PhasesAssumption DEF Init
<1>3. ASSUME NEW n \in Names PROVE attrcat[n] \in Seq(Attrs)
  <2>1. CASE n = Tmp
    BY <1>1, <2>1, EmptySeq
  <2>2. CASE n # Tmp
    <3>1. start \in [Rels \cup Others -> Seq(Attrs \ Overlong)] /\ n \in Rels \cup Others
      BY <2>2, ListsAssumption DEF Names
    <3>2. PICK q \in Seq(Attrs \ Overlong) : q = start[n]
      BY <3>1
    <3>3. Len(q) \in Nat /\ \A i \in 1 .. Len(q) : q[i] \in Attrs
      BY ElementOfSeq, LenProperties
    <3>4. q = [i \in 1 .. Len(q) |-> q[i]]
      BY LenProperties
    <3>5. q \in Seq(Attrs)
      BY <3>3, <3>4
    <3> QED
      BY <1>1, <2>2, <3>2, <3>5
  <2> QED
    BY <2>1, <2>2
<1>4. relcat \in [Names -> Nat] /\ attrcat \in Rows
  <2>1. \A n \in Names : Len(attrcat[n]) \in Nat
    BY <1>3, LenProperties
  <2> QED
    BY <1>1, <1>2, <1>3, <2>1 DEF Rows
<1>5. ASSUME NEW n \in Names PROVE file[n] \in Files /\ AtRest(n)
  <2>1. CASE attrcat[n] = <<>>
    <3>1. file[n] = NoFile /\ relcat[n] = 0
      BY <1>2, <2>1, EmptySeq
    <3> QED
      BY <2>1, <3>1, FileKinds DEF AtRest, Sound, Absent
  <2>2. CASE attrcat[n] # <<>>
    <3>1. /\ file[n] = [NewFile EXCEPT !.tuples = IF TooWide(attrcat[n]) THEN 0 ELSE Many]
          /\ relcat[n] = Len(attrcat[n])
      BY <1>2, <2>2
    <3>2. relcat[n] > 0 /\ n # Tmp
      <4>1. n # Tmp
        BY <1>1, <2>2
      <4>2. Len(attrcat[n]) > 0
        BY <1>3, <2>2, TailIs
      <4> QED
        BY <3>1, <4>1, <4>2
    <3>3. file[n] \in Files /\ file[n].kind = "heap" /\ file[n].leaked = FALSE
      <4>1. 0 \in Counts /\ Many \in Counts
        BY SizesAssumption DEF Counts
      <4> QED
        BY <3>1, <4>1 DEF Files, NewFile, NoFile
    <3> QED
      BY <3>1, <3>2, <3>3 DEF AtRest, Sound
  <2> QED
    BY <2>1, <2>2
<1>6. DataTypes
  BY <1>2, <1>4, <1>5 DEF DataTypes
<1>7. CommandSound
  BY <1>2, EmptySeq DEF CommandSound, Idle, IsCommand, Names
<1>8. InTheMiddle /\ AroundIt
  BY <1>2, <1>5 DEF InTheMiddle, AroundIt
<1>9. OkMeansDone
  BY <1>2 DEF OkMeansDone, NoReply
<1> QED
  BY <1>6, <1>7, <1>8, <1>9 DEF SessionInv, TypeInv

(* Every step keeps the invariant.                                       *)
LEMMA SessionNext ==
  ASSUME SessionInv, [Next]_vars
  PROVE  SessionInv'
<1>1. CASE Next
  BY <1>1, CommandKeeps, StepKeeps, FailureKeeps DEF Next
<1>2. CASE UNCHANGED vars
  <2>1. UNCHANGED <<phase, file, relcat, attrcat, disk, cmd, reply, harmed>>
    BY <1>2 DEF vars
  <2>2. TypeInv'
    BY <2>1 DEF SessionInv, TypeInv, DataTypes, CommandSound
  <2>3. InTheMiddle'
    BY <2>1 DEF SessionInv, InTheMiddle, Midway, HalfDone, AllDropped, Given, Sound, Absent, Ready
  <2>4. AroundIt'
    BY <2>1 DEF SessionInv, AroundIt, AtRest, Sound, Absent
  <2>5. OkMeansDone'
    BY <2>1 DEF SessionInv, OkMeansDone, Absent
  <2> QED
    BY <2>2, <2>3, <2>4, <2>5 DEF SessionInv
<1> QED
  BY <1>1, <1>2

(* The invariant holds in every session.                                   *)
LEMMA AlwaysSessionInv == Spec => []SessionInv
<1>1. Init => SessionInv
  BY SessionInit
<1>2. SessionInv /\ [Next]_vars => SessionInv'
  BY SessionNext
<1> QED
  BY <1>1, <1>2, PTL DEF Spec

(* The catalogs, the files and the command are what they should be.        *)
THEOREM SessionTypes == Spec => []TypeInv
<1>1. SessionInv => TypeInv
  BY DEF SessionInv
<1> QED
  BY <1>1, AlwaysSessionInv, PTL

(* Between commands every relation is as it should be: the catalogs and    *)
(* the file agree.  Whatever call failed, and wherever the process ended,  *)
(* the only others are those that the failed command was about or that     *)
(* were changed in a session that did not end with quit.                   *)
THEOREM DamageIsConfined == Spec => []DamageConfined
<1>1. SessionInv => DamageConfined
  BY DEF SessionInv, AroundIt, AtRest, DamageConfined
<1> QED
  BY <1>1, AlwaysSessionInv, PTL

(* The result of a query without into is gone between commands.            *)
THEOREM TempIsGone == Spec => []TempGone
<1>1. SessionInv => TempGone
  BY DEF SessionInv, AroundIt, AtRest, TempGone, Names
<1> QED
  BY <1>1, AlwaysSessionInv, PTL

(* A destroy that reports OK has left nothing of the relation, and a       *)
(* create that does has left an empty file.                                *)
THEOREM OkIsDone == Spec => []OkMeansDone
<1>1. SessionInv => OkMeansDone
  BY DEF SessionInv
<1> QED
  BY <1>1, AlwaysSessionInv, PTL

-----------------------------------------------------------------------------
(* Creates that phase 5 refuses.                                           *)

Answers == reply' \in {reply, NoReply} \/ reply'.op = cmd.op

(* A command answers for itself. *)
LEMMA AnswersItself ==
  ASSUME Next
  PROVE  Answers
<1>1. \A st : Finish(st) => Answers
  BY DEF Finish, Answers
<1>2. \A c : Continue(c) => Answers
  BY <1>1 DEF Continue, Answers
<1>3. \A st : (GoOnAfter(st) => Answers) /\ (Refused(st) => Answers)
  BY <1>1, <1>2 DEF GoOnAfter, Refused
<1>4. Lost => Answers
  BY DEF Lost, Answers
<1>5. BadObject => Answers
  BY <1>3, <1>4 DEF BadObject
<1>6. Command => Answers
  <2>1. \A o, a, n, f, q, t : Begin(o, a, n, f, q, t) => Answers
    BY DEF Begin, Answers
  <2> QED
    BY <1>4, <2>1 DEF Command, Create, Kills, Dies, Destroy, Load, PrintRel, Help, InsertInto,
                     DeleteFrom, Query, BuildIndex, Quit
<1>7. Step => Answers
  <2>1. LookUp \/ GetRelInfo \/ CheckNew => Answers
    BY <1>2, <1>3 DEF LookUp, GetRelInfo, CheckNew
  <2>2. AddRel \/ AddAttrs \/ AddOverlong \/ AddOverlong5 \/ FileIsThere \/ CreateFile => Answers
    BY <1>1, <1>2 DEF AddRel, AddAttrs, AddOverlong, AddOverlong5, FileIsThere, CreateFile
  <2>3. DropAttrs \/ DropUnset \/ DropRel \/ UsedAfterDelete \/ DestroyFile => Answers
    BY <1>1, <1>2, <1>3, <1>4 DEF DropAttrs, DropUnset, DropRel, UsedAfterDelete, Dies, DestroyFile
  <2>4. LoadTuples \/ Insert \/ Delete => Answers
    BY <1>2, <1>3, <1>5 DEF LoadTuples, Insert, Delete, Undefined
  <2>5. Result \/ WhereUnknown \/ Scanned \/ PrintTuples => Answers
    BY <1>2, <1>3, <1>5 DEF Result, WhereUnknown, Scanned, PrintTuples, Undefined
  <2>6. OpenForScan \/ NextTuple \/ InsertTuple \/ InsertTooWide => Answers
    BY <1>3, <1>4, <1>5 DEF OpenForScan, NextTuple, InsertTuple, InsertTooWide, Dies, Undefined, Answers
  <2>7. CloseRelCat \/ CloseAttrCat \/ Exit => Answers
    BY <1>2 DEF CloseRelCat, CloseAttrCat, Exit
  <2> QED
    BY <2>1, <2>2, <2>3, <2>4, <2>5, <2>6, <2>7 DEF Step
<1>8. Failure => Answers
  BY <1>1, <1>2, <1>3, <1>4, <1>5
  DEF Failure, CatalogFails, AddAttrsFails, CreateFileFails, DropAttrsFails, DestroyFileFails,
      LoadFails, InsertFails, DeleteFails, OpenFails, ScanFails, PrintFails, Crash
<1> QED
  BY <1>6, <1>7, <1>8 DEF Next


(* The rows in the catalogs of the relation n of a create whose next step  *)
(* is h.                                                                   *)
AddedSoFar(h, n, attrs, had) ==
  /\ h \in {"checkNew", "addRel", "addAttrs"} => Len(attrcat[n]) = had
  /\ h \in {"addAttrs", "createFile"} => relcat[n] = Len(attrs)
  /\ h = "createFile" => Len(attrcat[n]) = had + Len(attrs)
  /\ h \in Creating => had \in Nat

SameOp(c) == IsCommand(c) /\ c.op = cmd.op

CreateInv == cmd.op = "create" => AddedSoFar(Head(cmd.todo), cmd.rel, cmd.attrs, cmd.had)

(* A command that is another one in such fields has the same name. *)
LEMMA SameName ==
  ASSUME IsCommand(cmd)
  PROVE  /\ \A x : SameOp([cmd EXCEPT !.attrs = x]) /\ SameOp([cmd EXCEPT !.todo = x])
         /\ \A x, y, z : SameOp([cmd EXCEPT !.left = x, !.match = y, !.status = z])
         /\ \A x, y : SameOp([cmd EXCEPT !.left = x, !.match = y])
         /\ \A x : SameOp([cmd EXCEPT !.left = x])
         /\ SameOp(cmd)
<1> DEFINE c(attrs, todo, left, match, status) ==
             [op |-> cmd.op, arg |-> cmd.arg, rel |-> cmd.rel, from |-> cmd.from, attrs |-> attrs,
              todo |-> todo, left |-> left, match |-> match, status |-> status, had |-> cmd.had]
<1>1. \A a, t, l, m, st : SameOp(c(a, t, l, m, st))
  BY DEF SameOp, IsCommand
<1>2. /\ \A x : [cmd EXCEPT !.attrs = x] = c(x, cmd.todo, cmd.left, cmd.match, cmd.status)
      /\ \A x : [cmd EXCEPT !.todo = x] = c(cmd.attrs, x, cmd.left, cmd.match, cmd.status)
      /\ \A x : [cmd EXCEPT !.left = x] = c(cmd.attrs, cmd.todo, x, cmd.match, cmd.status)
  BY DEF IsCommand
<1>3. ASSUME NEW x, NEW y, NEW d, d = [cmd EXCEPT !.left = x, !.match = y]
      PROVE  d = c(cmd.attrs, cmd.todo, x, y, cmd.status)
  BY <1>3 DEF IsCommand
<1>4. ASSUME NEW x, NEW y, NEW z, NEW d, d = [cmd EXCEPT !.left = x, !.match = y, !.status = z]
      PROVE  d = c(cmd.attrs, cmd.todo, x, y, z)
  BY <1>4 DEF IsCommand
<1> HIDE DEF c
<1>5. \A x : SameOp([cmd EXCEPT !.attrs = x]) /\ SameOp([cmd EXCEPT !.todo = x])
  BY <1>1, <1>2
<1>6. \A x : SameOp([cmd EXCEPT !.left = x])
  BY <1>1, <1>2
<1>7. \A x, y : SameOp([cmd EXCEPT !.left = x, !.match = y])
  <2>1. ASSUME NEW x, NEW y PROVE SameOp([cmd EXCEPT !.left = x, !.match = y])
    <3>1. PICK d : d = [cmd EXCEPT !.left = x, !.match = y]
      OBVIOUS
    <3>2. d = c(cmd.attrs, cmd.todo, x, y, cmd.status)
      BY <1>3, <3>1
    <3>3. SameOp(d)
      BY <1>1, <3>2
    <3> QED
      BY <3>1, <3>3
  <2> QED
    BY <2>1
<1>8. \A x, y, z : SameOp([cmd EXCEPT !.left = x, !.match = y, !.status = z])
  <2>1. ASSUME NEW x, NEW y, NEW z PROVE SameOp([cmd EXCEPT !.left = x, !.match = y, !.status = z])
    <3>1. PICK d : d = [cmd EXCEPT !.left = x, !.match = y, !.status = z]
      OBVIOUS
    <3>2. d = c(cmd.attrs, cmd.todo, x, y, z)
      BY <1>4, <3>1
    <3>3. SameOp(d)
      BY <1>1, <3>2
    <3> QED
      BY <3>1, <3>3
  <2> QED
    BY <2>1
<1>9. SameOp(cmd)
  BY DEF SameOp
<1> QED
  BY <1>5, <1>6, <1>7, <1>8, <1>9

NameStays == cmd' = Idle \/ cmd'.op = cmd.op

(* A command that goes on is the same one. *)
LEMMA ItsNameStays ==
  ASSUME IsCommand(cmd), Step \/ Failure
  PROVE  NameStays
<1>1. \A st : Finish(st) => NameStays
  BY DEF Finish, NameStays
<1>2. \A c : SameOp(c) /\ Continue(c) => NameStays
  <2>1. ASSUME NEW c, SameOp(c), cmd' = [c EXCEPT !.todo = Tail(@)] PROVE cmd'.op = cmd.op
    BY <2>1 DEF SameOp, IsCommand
  <2> QED
    BY <1>1, <2>1 DEF Continue, NameStays
<1>3. Continue(cmd) => NameStays
  BY <1>2, SameName
<1>4. \A st : (GoOnAfter(st) => NameStays) /\ (Refused(st) => NameStays)
  BY <1>1, <1>2, SameName DEF GoOnAfter, Refused
<1>5. Lost => NameStays
  BY DEF Lost, NameStays
<1>6. BadObject => NameStays
  BY <1>4, <1>5 DEF BadObject
<1>7. Continue(ScanEnds) => NameStays
  BY <1>2, SameName DEF ScanEnds
<1>8. ASSUME Step PROVE NameStays
  <2>1. LookUp \/ GetRelInfo \/ CheckNew => NameStays
    BY <1>2, <1>3, <1>4, SameName DEF LookUp, GetRelInfo, CheckNew
  <2>2. AddRel \/ AddAttrs \/ AddOverlong \/ AddOverlong5 \/ FileIsThere \/ CreateFile => NameStays
    BY <1>1, <1>3 DEF AddRel, AddAttrs, AddOverlong, AddOverlong5, FileIsThere, CreateFile
  <2>3. DropAttrs \/ DropUnset \/ DropRel \/ UsedAfterDelete \/ DestroyFile => NameStays
    BY <1>1, <1>3, <1>4, <1>5 DEF DropAttrs, DropUnset, DropRel, UsedAfterDelete, Dies, DestroyFile
  <2>4. LoadTuples \/ Insert \/ Delete => NameStays
    BY <1>3, <1>4, <1>6 DEF LoadTuples, Insert, Delete, Undefined
  <2>5. Result \/ WhereUnknown \/ Scanned \/ PrintTuples => NameStays
    BY <1>2, <1>3, <1>4, <1>6, <1>7, SameName DEF Result, WhereUnknown, Scanned, PrintTuples, Undefined
  <2>6. OpenForScan \/ NextTuple \/ InsertTuple => NameStays
    <3>1. ASSUME NEW d, cmd' = d, SameOp(d) PROVE NameStays
      BY <3>1 DEF NameStays, SameOp
    <3>2. ASSUME OpenForScan PROVE NameStays
      <4>1. Undefined \/ \E x : cmd' = [cmd EXCEPT !.left = x]
        BY <3>2 DEF OpenForScan
      <4>2. ASSUME NEW x, cmd' = [cmd EXCEPT !.left = x] PROVE NameStays
        BY <3>1, <4>2, SameName
      <4> QED
        BY <1>6, <4>1, <4>2 DEF Undefined
    <3>3. ASSUME NEW x, NEW y, cmd' = [cmd EXCEPT !.left = x, !.match = y] PROVE NameStays
      BY <3>1, <3>3, SameName
    <3>4. NextTuple \/ InsertTuple => \E x, y : cmd' = [cmd EXCEPT !.left = x, !.match = y]
      BY DEF NextTuple, InsertTuple
    <3> QED
      BY <3>2, <3>3, <3>4
  <2>7. InsertTooWide \/ CloseRelCat \/ CloseAttrCat \/ Exit => NameStays
    BY <1>3, <1>4, <1>5 DEF InsertTooWide, Dies, CloseRelCat, CloseAttrCat, Exit
  <2> QED
    BY <1>8, <2>1, <2>2, <2>3, <2>4, <2>5, <2>6, <2>7 DEF Step
<1>9. ASSUME Failure PROVE NameStays
  BY <1>9, <1>1, <1>3, <1>4, <1>5, <1>6, <1>7
  DEF Failure, CatalogFails, AddAttrsFails, CreateFileFails, DropAttrsFails, DestroyFileFails,
      LoadFails, InsertFails, DeleteFails, OpenFails, ScanFails, PrintFails, Crash
<1> QED
  BY <1>8, <1>9

(* Nothing is executed between commands. *)
LEMMA IdleRests ==
  ASSUME cmd = Idle, Next
  PROVE  reply' = NoReply
<1>1. \A s : ~At(s)
  BY DEF At, Idle
<1>2. Lost => reply' = NoReply
  BY DEF Lost
<1>3. Command => reply' = NoReply
  BY <1>2 DEF Command, Create, Kills, Dies, Destroy, Load, PrintRel, Help, InsertInto,
              DeleteFrom, Query, BuildIndex, Quit, Begin
<1>4. Failure => reply' = NoReply
  BY <1>1, <1>2 DEF Failure, CatalogFails, AddAttrsFails, CreateFileFails, DropAttrsFails,
    DestroyFileFails, LoadFails, InsertFails, DeleteFails, OpenFails, ScanFails, PrintFails, Crash
<1>5. ~Step
  <2>1. ~(LookUp \/ GetRelInfo \/ CheckNew \/ AddRel \/ AddAttrs \/ AddOverlong \/ AddOverlong5)
    BY <1>1 DEF LookUp, GetRelInfo, CheckNew, AddRel, AddAttrs, AddOverlong, AddOverlong5
  <2>2. ~(FileIsThere \/ CreateFile \/ DropAttrs \/ DropUnset \/ DropRel \/ UsedAfterDelete \/ DestroyFile)
    BY <1>1 DEF FileIsThere, CreateFile, DropAttrs, DropUnset, DropRel, UsedAfterDelete, DestroyFile
  <2>3. ~(LoadTuples \/ Insert \/ Delete \/ Result \/ WhereUnknown \/ OpenForScan \/ NextTuple)
    BY <1>1 DEF LoadTuples, Insert, Delete, Result, WhereUnknown, OpenForScan, NextTuple
  <2>4. ~(InsertTuple \/ InsertTooWide \/ Scanned \/ PrintTuples \/ CloseRelCat \/ CloseAttrCat \/ Exit)
    BY <1>1 DEF InsertTuple, InsertTooWide, Scanned, PrintTuples, CloseRelCat, CloseAttrCat, Exit
  <2> QED
    BY <2>1, <2>2, <2>3, <2>4 DEF Step
<1> QED
  BY <1>3, <1>4, <1>5 DEF Next

Refusals == CreateInv /\ RefusedAddsNothing

(* No create is executed between commands. *)
LEMMA NoneCreates == Idle.op = "none" /\ NoReply.op = "none"
BY DEF Idle, NoReply

(* A create ends with an error. *)
LEMMA CreateEnds ==
  ASSUME SessionInv, cmd.op = "create", cmd.todo # <<>>, NEW st, Finish(st), NEW n, n = cmd.rel,
         st \in {"NAMETOOLONG", "FILEEXISTS"} /\ phase' = 5 =>
           relcat'[n] = 0 /\ Len(attrcat'[n]) <= cmd.had
  PROVE  Refusals'
<1>1. /\ cmd' = Idle
      /\ reply'.rel = n /\ reply'.had = cmd.had
      /\ reply'.status = IF cmd.status # "OK" THEN cmd.status ELSE st
  BY Finishes DEF SessionInv, TypeInv
<1>2. cmd.status = "OK"
  BY Executing DEF SessionInv, TypeInv, CommandSound
<1>3. CreateInv'
  BY <1>1, NoneCreates DEF CreateInv
<1> QED
  BY <1>1, <1>2, <1>3 DEF Refusals, RefusedAddsNothing

(* A create goes on. *)
LEMMA CreateGoesOn ==
  ASSUME SessionInv, cmd.op = "create", NEW s, At(s), Continue(cmd),
         NEW n, n = cmd.rel, NEW a, a = cmd.attrs, NEW k, k = cmd.had,
         \A h \in Creating : Follows(s, h) => AddedSoFar(h, n, a, k)'
  PROVE  Refusals'
<1>1. /\ CommandSound /\ cmd.todo # <<>> /\ s = Head(cmd.todo) /\ cmd # Idle
      /\ SameCommand(cmd) /\ cmd.status = "OK"
  BY Here DEF CommandSound
<1>2. CASE Len(cmd.todo) > 1
  <2>1. /\ reply' = NoReply /\ cmd'.rel = n /\ cmd'.attrs = a /\ cmd'.had = cmd.had
        /\ Follows(s, Head(cmd'.todo)) /\ Head(cmd'.todo) \in Steps
    BY <1>1, <1>2, GoesOn
  <2>2. PICK h \in Steps : h = Head(cmd'.todo)
    BY <2>1
  <2>3. h \in Creating => AddedSoFar(h, n, a, k)'
    BY <2>1, <2>2
  <2>4. AddedSoFar(h, n, a, k)'
    BY <2>3 DEF AddedSoFar, Creating
  <2>5. CreateInv'
    BY <2>1, <2>2, <2>4 DEF CreateInv, AddedSoFar
  <2> QED
    BY <2>1, <2>5, NoneCreates DEF Refusals, RefusedAddsNothing
<1>3. CASE ~(Len(cmd.todo) > 1)
  <2>1. Finish("OK")
    BY <1>1, <1>3 DEF Continue
  <2>2. PICK st : st = "OK"
    OBVIOUS
  <2> QED
    BY <1>1, <2>1, <2>2, CreateEnds
<1> QED
  BY <1>2, <1>3

(* No more are left than there were before some that are removed. *)
LEMMA AtMostKept ==
  ASSUME NEW rows \in Seq(Attrs), NEW m \in Nat, NEW k \in Nat, NEW g \in 0 .. m, Len(rows) = k + g
  PROVE  Len(Without(rows, m)) <= k
<1>1. PICK w, j : w = Len(Without(rows, m)) /\ j = Len(rows)
  OBVIOUS
<1>2. (m >= j => w = 0) /\ (m < j => w = j - m)
  BY <1>1, WithoutIs
<1> QED
  BY <1>1, <1>2

(* Each step of a create keeps count of the rows that are added. *)
LEMMA CreateKeeps ==
  ASSUME SessionInv, Refusals, cmd.op = "create", Step \/ Failure
  PROVE  Refusals'
<1>1. PICK n, a, k, s : n = cmd.rel /\ a = cmd.attrs /\ k = cmd.had /\ s = Head(cmd.todo)
  OBVIOUS
<1>2. At(s) /\ s \in Creating
  <2>1. cmd # Idle
    BY NoneCreates
  <2>2. At(s)
    BY <1>1, <2>1 DEF SessionInv, TypeInv, CommandSound, At
  <2>3. Planned(cmd.op, n, cmd.todo) /\ cmd.todo[1] = s /\ 1 \in 1 .. Len(cmd.todo)
    BY <1>1, <2>2, Here
  <2> QED
    BY <2>2, <2>3 DEF Planned, Only
<1>3. /\ DataTypes /\ cmd.todo # <<>> /\ n \in Names /\ Midway(s, n, a)
      /\ AddedSoFar(s, n, a, k)
  <2>1. AddedSoFar(s, n, a, k)
    BY <1>1 DEF Refusals, CreateInv
  <2> QED
    BY <1>1, <1>2, <2>1, Here
<1>4. a \in Seq(Attrs) /\ Len(a) \in Nat /\ attrcat[n] \in Seq(Attrs) /\ Len(attrcat[n]) \in Nat
  BY <1>2, <1>3, Kept, LenProperties DEF Midway, Given
<1>5. relcat \in [Names -> Nat] /\ attrcat \in [Names -> Seq(Attrs)]
  BY <1>3 DEF DataTypes, Rows
<1>6. ASSUME NEW st, st \notin {"NAMETOOLONG", "FILEEXISTS"}, Finish(st) PROVE Refusals'
  BY <1>1, <1>3, <1>6, CreateEnds
<1>7. Lost => Refusals'
  BY NoneCreates DEF Lost, Refusals, CreateInv, RefusedAddsNothing
<1>8. CASE CheckNew
  <2>1. CASE \E st \in {"RELEXISTS", "DUPLATTR", "ATTRTOOLONG"} : Refused(st)
    BY <1>6, <2>1 DEF Refused
  <2>2. CASE Continue(cmd) /\ UNCHANGED <<phase, file, catalogs, disk, troubles, harmed>>
    <3>1. s = "checkNew"
      BY <1>1, <1>8 DEF CheckNew, At
    <3>2. attrcat' = attrcat
      BY <2>2 DEF catalogs
    <3>3. ASSUME NEW h \in Creating, Follows(s, h) PROVE AddedSoFar(h, n, a, k)'
      BY <1>1, <1>3, <3>1, <3>2, <3>3 DEF AddedSoFar, Follows
    <3> QED
      BY <1>1, <1>2, <2>2, <3>3, CreateGoesOn
  <2> QED
    BY <1>8, <2>1, <2>2 DEF CheckNew
<1>9. CASE AddRel
  <2>1. s = "addRel" /\ Continue(cmd) /\ relcat'[n] = Len(a) /\ attrcat' = attrcat
    BY <1>1, <1>3, <1>5, <1>9 DEF AddRel, At
  <2>2. ASSUME NEW h \in Creating, Follows(s, h) PROVE AddedSoFar(h, n, a, k)'
    BY <1>1, <1>3, <2>1, <2>2 DEF AddedSoFar, Follows
  <2> QED
    BY <1>1, <1>2, <2>1, <2>2, CreateGoesOn
<1>10. CASE AddAttrs
  <2>1. s = "addAttrs" /\ Continue(cmd) /\ relcat' = relcat /\ attrcat'[n] = attrcat[n] \o a
    BY <1>1, <1>3, <1>5, <1>10 DEF AddAttrs, At
  <2>2. Len(attrcat[n] \o a) = Len(attrcat[n]) + Len(a)
    BY <1>4, ConcatProperties
  <2>3. /\ Len(attrcat[n]) = k /\ relcat[n] = Len(a) /\ k \in Nat
    BY <1>2, <1>3, <2>1 DEF AddedSoFar
  <2>4. Len(attrcat'[n]) = k + Len(a) /\ relcat'[n] = Len(a)
    BY <2>1, <2>2, <2>3
  <2>5. ASSUME NEW h \in Creating, Follows(s, h) PROVE AddedSoFar(h, n, a, k)'
    <3>1. h = "createFile"
      BY <2>1, <2>5 DEF Follows
    <3> QED
      BY <2>3, <2>4, <3>1 DEF AddedSoFar
  <2> QED
    BY <1>1, <1>2, <2>1, <2>5, CreateGoesOn
<1>11. CASE AddOverlong5
  <2>1. PICK rows : rows = attrcat[n] \o SubSeq(a, 1, GoodNames(a))
    OBVIOUS
  <2>2. s = "addAttrs" /\ TakeBack(rows) /\ Finish("NAMETOOLONG") /\ GoodNames(a) < Len(a)
    BY <1>1, <1>11, <2>1 DEF AddOverlong5, At
  <2>3. PICK g : g = GoodNames(a)
    OBVIOUS
  <2>4. rows \in Seq(Attrs) /\ Len(rows) = Len(attrcat[n]) + g /\ g \in 0 .. Len(a)
    BY <1>4, <2>1, <2>3, AddedRows, GoodNamesIs
  <2>5. relcat[n] = Len(a) /\ Len(attrcat[n]) = k
    BY <1>3, <2>2 DEF AddedSoFar
  <2>6. relcat'[n] = 0 /\ attrcat'[n] = Without(rows, Len(a))
    BY <1>1, <1>3, <1>5, <2>2, <2>5 DEF TakeBack
  <2>7. Len(Without(rows, Len(a))) <= k
    BY <1>4, <2>3, <2>4, <2>5, AtMostKept
  <2> QED
    BY <1>1, <1>3, <2>2, <2>6, <2>7, CreateEnds
<1>12. ASSUME s = "createFile", TakeBack(attrcat[cmd.rel])
       PROVE  relcat'[n] = 0 /\ Len(attrcat'[n]) <= k
  <2>1. relcat[n] = Len(a) /\ Len(attrcat[n]) = k + Len(a)
    BY <1>3, <1>12 DEF AddedSoFar
  <2>2. relcat'[n] = 0 /\ attrcat'[n] = Without(attrcat[n], Len(a))
    BY <1>1, <1>3, <1>5, <1>12, <2>1 DEF TakeBack
  <2>3. Len(Without(attrcat[n], Len(a))) <= k
    <3>1. k \in Nat
      BY <1>2, <1>3 DEF AddedSoFar
    <3> QED
      BY <1>4, <2>1, <3>1, AtMostKept
  <2> QED
    BY <2>2, <2>3
<1>13. CASE FileIsThere
  <2>1. s = "createFile" /\ Finish("FILEEXISTS") /\ phase' = phase
        /\ (phase = 5 => TakeBack(attrcat[cmd.rel]))
    BY <1>1, <1>13 DEF FileIsThere, At
  <2> QED
    BY <1>1, <1>3, <1>12, <2>1, CreateEnds
<1>14. CASE CreateFile
  <2>1. s = "createFile" /\ Continue(cmd)
    BY <1>1, <1>14 DEF CreateFile, At
  <2>2. ASSUME NEW h \in Creating, Follows(s, h) PROVE AddedSoFar(h, n, a, k)'
    BY <2>1, <2>2 DEF Follows, Creating
  <2> QED
    BY <1>1, <1>2, <2>1, <2>2, CreateGoesOn
<1>15. CASE AddOverlong
  <2>1. phase' # 5 /\ Finish("NAMETOOLONG")
    BY <1>15 DEF AddOverlong
  <2> QED
    BY <1>1, <1>3, <2>1, CreateEnds
<1>16. CASE CatalogFails \/ AddAttrsFails \/ CreateFileFails
  <2>1. Finish("IOERR")
    BY <1>16 DEF CatalogFails, AddAttrsFails, CreateFileFails
  <2> QED
    BY <1>6, <2>1
<1>17. CASE Crash
  BY <1>7, <1>17 DEF Crash
<1> QED
  <2>1. ~(LookUp \/ GetRelInfo \/ DropAttrs \/ DropUnset \/ DropRel \/ UsedAfterDelete \/ DestroyFile)
    BY <1>1, <1>2 DEF LookUp, GetRelInfo, DropAttrs, DropUnset, DropRel, UsedAfterDelete, DestroyFile, At, Creating
  <2>2. ~(LoadTuples \/ Insert \/ Delete \/ Result \/ WhereUnknown \/ OpenForScan \/ NextTuple)
    BY <1>1, <1>2 DEF LoadTuples, Insert, Delete, Result, WhereUnknown, OpenForScan, NextTuple, At, Creating
  <2>3. ~(InsertTuple \/ InsertTooWide \/ Scanned \/ PrintTuples \/ CloseRelCat \/ CloseAttrCat \/ Exit)
    BY <1>1, <1>2 DEF InsertTuple, InsertTooWide, Scanned, PrintTuples, CloseRelCat, CloseAttrCat, Exit, At, Creating
  <2>4. ~(DropAttrsFails \/ DestroyFileFails \/ LoadFails \/ InsertFails \/ DeleteFails \/ OpenFails \/ ScanFails \/ PrintFails)
    BY <1>1, <1>2 DEF DropAttrsFails, DestroyFileFails, LoadFails, InsertFails, DeleteFails, OpenFails, ScanFails, PrintFails, At, Creating
  <2> QED
    BY <1>8, <1>9, <1>10, <1>11, <1>13, <1>14, <1>15, <1>16, <1>17, <2>1, <2>2, <2>3, <2>4 DEF Step, Failure

(* So does every step. *)
LEMMA RefusalsNext ==
  ASSUME SessionInv, Refusals, [Next]_vars
  PROVE  Refusals'
<1>1. CASE UNCHANGED vars
  BY <1>1 DEF vars, Refusals, CreateInv, AddedSoFar, RefusedAddsNothing
<1>2. CASE Command
  <2>1. cmd = Idle \/ Lost
    BY <1>2 DEF Command, Create, Kills, Destroy, Load, PrintRel, Help, InsertInto, DeleteFrom, Query,
                BuildIndex, Quit, Parsed, Statement, Dies
  <2>2. CASE Lost
    BY <2>2, NoneCreates DEF Lost, Refusals, CreateInv, RefusedAddsNothing
  <2>3. CASE cmd = Idle /\ ~Lost
    <3>1. reply' = NoReply
      BY <1>2, <2>3, IdleRests DEF Next
    <3>2. cmd'.op # "create" \/ \E n \in Rels : \E attrs \in Lists[n] : Create(n, attrs)
      <4>1. ASSUME NEW nodes, Kills(nodes) PROVE FALSE
        BY <4>1, <2>3 DEF Kills, Dies
      <4>2. ASSUME BuildIndex PROVE FALSE
        BY <4>2, <2>3 DEF BuildIndex, Dies
      <4>3. CASE \E n \in Names : Destroy(n)
        BY <4>3 DEF Destroy, Begin, Idle
      <4>4. CASE \E n \in Rels : Load(n) \/ PrintRel(n) \/ Help(n)
        BY <4>4 DEF Load, PrintRel, Help, Begin, Idle
      <4>5. CASE \E n \in Rels : InsertInto(n)
        BY <4>5 DEF InsertInto, Begin, Idle
      <4>6. CASE \E n \in Rels, which \in {"known", "unknown"} : DeleteFrom(n, which)
        BY <4>6 DEF DeleteFrom, Begin, Idle
      <4>7. CASE \E q \in Queries : Query(q)
        BY <4>7 DEF Query, Begin, Idle
      <4>8. CASE Quit
        BY <4>8 DEF Quit, Begin, Idle
      <4> QED
        BY <1>2, <4>1, <4>2, <4>3, <4>4, <4>5, <4>6, <4>7, <4>8 DEF Command
    <3>3. ASSUME NEW n \in Rels, NEW attrs \in Lists[n], Create(n, attrs) PROVE CreateInv'
      <4>1. /\ cmd'.rel = n /\ cmd'.attrs = attrs /\ cmd'.had = Len(attrcat[n]) /\ cmd'.todo = CreateSteps
            /\ attrcat' = attrcat
        BY <3>3 DEF Create, Begin, Idle, catalogs
      <4>2. Head(CreateSteps) = "checkNew"
        BY DEF CreateSteps
      <4> QED
        BY <4>1, <4>2 DEF CreateInv, AddedSoFar
    <3>4. CreateInv'
      BY <3>2, <3>3 DEF CreateInv
    <3> QED
      BY <3>1, <3>4, NoneCreates DEF Refusals, RefusedAddsNothing
  <2> QED
    BY <2>1, <2>2, <2>3
<1>3. CASE (Step \/ Failure) /\ cmd.op = "create"
  BY <1>3, CreateKeeps
<1>4. CASE (Step \/ Failure) /\ cmd.op # "create"
  <2>1. cmd'.op # "create"
    <3>1. NameStays
      BY <1>4, ItsNameStays DEF SessionInv, TypeInv, CommandSound
    <3> QED
      BY <1>4, <3>1, NoneCreates DEF NameStays
  <2>2. reply'.op # "create"
    <3>1. reply = NoReply \/ reply' = NoReply
      BY <1>4, IdleRests DEF SessionInv, TypeInv, CommandSound, Next
    <3> QED
      BY <1>4, <3>1, AnswersItself, NoneCreates DEF Answers, Next
  <2> QED
    BY <2>1, <2>2 DEF Refusals, CreateInv, RefusedAddsNothing
<1> QED
  BY <1>1, <1>2, <1>3, <1>4 DEF Next

(* A create that phase 5 refuses leaves no row in relcat and no more rows  *)
(* in attrcat than there were before it, which are those of a session that *)
(* was lost.                                                               *)
THEOREM RefusedAddsNone == Spec => []RefusedAddsNothing
<1>1. Init => Refusals
  BY NoneCreates DEF Init, Refusals, CreateInv, RefusedAddsNothing
<1>2. SessionInv /\ Refusals /\ [Next]_vars => Refusals'
  BY RefusalsNext
<1>3. Refusals => RefusedAddsNothing
  BY DEF Refusals
<1> QED
  BY <1>1, <1>2, <1>3, AlwaysSessionInv, PTL DEF Spec
=============================================================================
