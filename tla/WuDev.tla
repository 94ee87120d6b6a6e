------------------------------- MODULE WuDev -------------------------------
(***************************************************************************)
(* The plug-in of a WattsUp meter on a serial line.  A read writes a       *)
(* command and takes characters off the line up to ";".  The line is       *)
(* opened with O_NDELAY: when nothing has come yet the read fails, and the *)
(* reply is still on its way.  A reply is modelled as two parts, of which  *)
(* the second ends with the terminator and neither says what it answers.   *)
(***************************************************************************)
EXTENDS Integers, Sequences, FiniteSets

CONSTANTS
  WuAttr,     \* attributes that are asked for
  MaxCmds     \* commands that are sent

ASSUME WuAssumption == "none" \notin WuAttr /\ MaxCmds \in Nat

WuFields == {"power", "voltage", "current", "energy"}   \* attributes with a field in the reply

VARIABLES
  wuSent,     \* commands written so far
  wuMeter,    \* commands the meter has to answer, and the part it is at
  wuRx,       \* the parts of replies that have come and were not read
  wuRead,     \* the read that is under way, or WuIdle
  wuOut,      \* what the last read returned
  wuFailed    \* whether a read has given up with its reply to come

wuVars == <<wuSent, wuMeter, wuRx, wuRead, wuOut, wuFailed>>

WuPart == [cmd : 1..MaxCmds, end : BOOLEAN]
FirstOf(c) == [cmd |-> c, end |-> FALSE]
Back(c)  == [cmd |-> c, end |-> TRUE]
WuIdle == [attr |-> "none", cmd |-> 0, buf |-> <<>>]
WuNothing == [attr |-> "none", st |-> 0, cmd |-> 0, from |-> "nothing"]

WuInit ==
  /\ wuSent = 0
  /\ wuMeter = <<>>
  /\ wuRx = <<>>
  /\ wuRead = WuIdle
  /\ wuOut = WuNothing
  /\ wuFailed = FALSE

(* What a read returns: the status, and where the number in the buffer     *)
(* comes from: a command's whole reply, a piece of one, or nowhere.        *)
WuResult(st, from) ==
  [attr |-> wuRead.attr, st |-> st, cmd |-> wuRead.cmd, from |-> from]

(* Mutant of WuCommand: the command is written twice.                      *)
WuCommandTwice(a) ==
  /\ wuRead = WuIdle
  /\ wuSent < MaxCmds
  /\ wuSent' = wuSent + 1
  /\ wuMeter' = wuMeter \o <<FirstOf(wuSent + 1), Back(wuSent + 1), FirstOf(wuSent + 1), Back(wuSent + 1)>>
  /\ wuRead' = [attr |-> a, cmd |-> wuSent + 1, buf |-> <<>>]
  /\ UNCHANGED <<wuRx, wuOut, wuFailed>>

(* pwr_wudev_read up to the command.                                       *)
WuCommand(a) ==
  /\ wuRead = WuIdle
  /\ wuSent < MaxCmds
  /\ \/ /\ wuSent' = wuSent + 1
        /\ wuMeter' = wuMeter \o <<FirstOf(wuSent + 1), Back(wuSent + 1)>>
        /\ wuRead' = [attr |-> a, cmd |-> wuSent + 1, buf |-> <<>>]
        /\ UNCHANGED <<wuRx, wuOut, wuFailed>>
     \/ /\ wuSent' = wuSent + 1      \* the write fails
        /\ wuOut' = [attr |-> a, st |-> -1, cmd |-> wuSent + 1, from |-> "nothing"]
        /\ UNCHANGED <<wuMeter, wuRx, wuRead, wuFailed>>

(* The meter answers, in order.                                            *)
WuReplies ==
  /\ wuMeter # <<>>
  /\ wuRx' = Append(wuRx, Head(wuMeter))
  /\ wuMeter' = Tail(wuMeter)
  /\ UNCHANGED <<wuSent, wuRead, wuOut, wuFailed>>

(* wudev_extract: the field of the attribute.  A buffer that does not hold *)
(* a reply from its beginning has other numbers in the field's place.      *)
WuExtract(buf) ==
  CASE wuRead.attr \notin WuFields -> "nothing"
    [] Len(buf) = 2                -> IF buf[1].cmd = wuRead.cmd THEN "own reply" ELSE "old reply"
    [] OTHER                       -> "piece"

(* wudev_read takes the next part: the loop ends with the terminator.      *)
WuTakes ==
  /\ wuRead # WuIdle /\ wuRx # <<>>
  /\ wuRx' = Tail(wuRx)
  /\ LET buf == Append(wuRead.buf, Head(wuRx)) IN
     IF Head(wuRx).end
     THEN wuRead' = WuIdle /\ wuOut' = WuResult(0, WuExtract(buf))
     ELSE wuRead' = [wuRead EXCEPT !.buf = buf] /\ UNCHANGED wuOut
  /\ UNCHANGED <<wuSent, wuMeter, wuFailed>>

(* Nothing to take: read() fails.                                          *)
WuGivesUp ==
  /\ wuRead # WuIdle /\ wuRx = <<>>
  /\ wuRead' = WuIdle
  /\ wuOut' = WuResult(-1, "nothing")
  /\ wuFailed' = TRUE
  /\ UNCHANGED <<wuSent, wuMeter, wuRx>>

(* read() returns 0: "continue" goes to the test of the loop, which looks  *)
(* at the last character, or, before the first one, at whatever is in the  *)
(* variable.  If that is ";" the call ends in success without a value.     *)
WuGarbage ==
  /\ wuRead # WuIdle /\ wuRx = <<>> /\ wuRead.buf = <<>>
  /\ wuRead' = WuIdle
  /\ wuOut' = WuResult(0, "nothing")
  /\ wuFailed' = TRUE
  /\ UNCHANGED <<wuSent, wuMeter, wuRx>>

WuNext ==
  \/ \E a \in WuAttr : WuCommand(a)
  \/ WuReplies
  \/ WuTakes
  \/ WuGivesUp
  \/ WuGarbage

WuSpec == WuInit /\ [][WuNext]_wuVars

-----------------------------------------------------------------------------
WuTypeOK ==
  /\ wuSent \in 0..MaxCmds
  /\ wuMeter \in Seq(WuPart) /\ wuRx \in Seq(WuPart)
  /\ wuRead = WuIdle \/ wuRead \in [attr : WuAttr, cmd : 1..MaxCmds, buf : Seq(WuPart)]
  /\ wuOut = WuNothing \/ wuOut \in [attr : WuAttr, st : {0, -1}, cmd : 1..MaxCmds,
                                     from : {"nothing", "own reply", "old reply", "piece"}]
  /\ wuFailed \in BOOLEAN

(* A value that a read returns is the meter's reply to the command of this *)
(* very read, until a read gives up: from then on replies can be late by   *)
(* one command, and nothing ever clears the line (wudev_read, which leaves *)
(* what is still to come).                                                 *)
WuReplyIsOwn == wuOut.from \in {"old reply", "piece"} => wuFailed

(* Until a read gives up the line is clean between reads: what was asked   *)
(* for was taken to the last character.                                    *)
WuLineClean == wuRead = WuIdle /\ ~wuFailed => wuMeter = <<>> /\ wuRx = <<>>

(* The invariant behind both: the reply of the read under way is in the    *)
(* meter, on the line and in the buffer, in this order from its end, and   *)
(* nothing else is.                                                        *)
WuOnLine(c) ==
  \/ wuRead.buf = <<>> /\ wuRx = <<>> /\ wuMeter = <<FirstOf(c), Back(c)>>
  \/ wuRead.buf = <<>> /\ wuRx = <<FirstOf(c)>> /\ wuMeter = <<Back(c)>>
  \/ wuRead.buf = <<>> /\ wuRx = <<FirstOf(c), Back(c)>> /\ wuMeter = <<>>
  \/ wuRead.buf = <<FirstOf(c)>> /\ wuRx = <<>> /\ wuMeter = <<Back(c)>>
  \/ wuRead.buf = <<FirstOf(c)>> /\ wuRx = <<Back(c)>> /\ wuMeter = <<>>

WuIInv ==
  /\ WuTypeOK
  /\ ~wuFailed /\ wuRead # WuIdle => WuOnLine(wuRead.cmd)
  /\ WuLineClean
  /\ WuReplyIsOwn
=============================================================================
