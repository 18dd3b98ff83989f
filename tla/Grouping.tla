------------------------------ MODULE Grouping ------------------------------
(***************************************************************************)
(* Which events fall together: fingerprint.rs, on the fields of            *)
(* errex-proto's Event that it reads.                                      *)
(*                                                                         *)
(* An optional field is <<>> when absent and <<value>> when present; a     *)
(* string is its sequence of bytes, UTF-8 and so without 255.  A           *)
(* fingerprint is the bytes written to the hasher: FNV-1a is taken to be   *)
(* without collisions.                                                     *)
(***************************************************************************)
EXTENDS Naturals, Sequences

Frame(function, filename) == [function |-> function, filename |-> filename]

\* frames is None without a stack trace.
Exception(type, frames) == [type |-> type, frames |-> frames]

\* exceptions is the container's list, message the top-level message.
Event(id, exceptions, message) ==
  [id |-> id, exceptions |-> exceptions, message |-> message]

\* primary_exception: the first of the chain.
Primary(event) ==
  IF event.exceptions = <<>> \/ event.exceptions[1] = <<>> THEN <<>>
  ELSE <<event.exceptions[1][1]>>

\* first_frame: the innermost, which SDKs send last.
FirstFrame(exception) ==
  IF exception.frames = <<>> \/ exception.frames[1] = <<>> THEN <<>>
  ELSE <<exception.frames[1][Len(exception.frames[1])]>>

\* Variant: a field without its terminator.
OpenField(s) == IF s = <<>> THEN <<0>> ELSE <<1>> \o s[1]

\* write_opt_str: whether the field is there, its bytes, a terminator.
Field(s) == (IF s = <<>> THEN <<0>> ELSE <<1>> \o s[1]) \o <<255>>

\* derive.
Fingerprint(event) ==
  IF Primary(event) # <<>>
    THEN LET exception == Primary(event)[1]
             frame == FirstFrame(exception)
         IN  Field(exception.type)
               \o IF frame = <<>> THEN <<>>
                  ELSE Field(frame[1].function) \o Field(frame[1].filename)
  ELSE IF event.message # <<>> THEN Field(event.message)
  ELSE event.id

----------------------------------------------------------------------------
(***************************************************************************)
(* The grouping that is meant: by the exception's type and innermost       *)
(* frame, else by the message, else every event by itself.                 *)
(***************************************************************************)

SameException(a, b) ==
  /\ Primary(a) # <<>> /\ Primary(b) # <<>>
  /\ Primary(a)[1].type = Primary(b)[1].type
  /\ LET framesOf(e) == IF Primary(e)[1].frames = <<>> THEN <<>>
                        ELSE Primary(e)[1].frames[1]
     IN  /\ (framesOf(a) = <<>>) = (framesOf(b) = <<>>)
         /\ framesOf(a) # <<>> =>
              framesOf(a)[Len(framesOf(a))] = framesOf(b)[Len(framesOf(b))]

SameMessage(a, b) ==
  /\ Primary(a) = <<>> /\ Primary(b) = <<>>
  /\ a.message # <<>> /\ a.message = b.message

\* What the code cannot tell apart: an exception without frames and a
\* message that reads as its type.
TypeReadsAsMessage(a, b) ==
  /\ Primary(a) # <<>> /\ Primary(b) = <<>>
  /\ FirstFrame(Primary(a)[1]) = <<>>
  /\ b.message # <<>> /\ Primary(a)[1].type = b.message

SameGroup(a, b) ==
  \/ SameException(a, b)
  \/ SameMessage(a, b)
  \/ TypeReadsAsMessage(a, b)
  \/ TypeReadsAsMessage(b, a)
  \/ /\ Primary(a) = <<>> /\ Primary(b) = <<>>
     /\ a.message = <<>> /\ b.message = <<>>
     /\ a.id = b.id
============================================================================
