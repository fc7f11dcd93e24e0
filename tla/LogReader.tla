------------------------------ MODULE LogReader ------------------------------
(***************************************************************************)
(* The bytes of the update log: how the recorder writes an entry           *)
(* (write_impl.cpp, recorder.cpp) and how the reader takes it from a file  *)
(* descriptor (read_fd_forward.h, read_impl.h, read.cpp). UpdateLog has    *)
(* what the entries mean; here an entry is [kind, ids, bytes]: the ids it  *)
(* names in the order they are written, and the bytes of its name or of    *)
(* its imprint and hash.                                                   *)
(***************************************************************************)
EXTENDS Naturals, SequencesExt

CONSTANTS
  Radix,        \* 128: a byte of a variable-length integer has seven bits
  MaxBytes,     \* 5: the bytes read_var_size_t tries
  ScalarSize,   \* 8: the size of an imprint and of a hash
  BufferSize,   \* 4096: what is asked of read() at once
  Logs,         \* the sequences of entries a log may have been written with
  Foreign       \* files this version did not write

VersionByte == 4
TypeByte    == [root_entity_name |-> 82, entity_name |-> 69, file_update |-> 85]

(* Logs as the recorder writes them: an entry names entities that were     *)
(* written before it, as UpdateLog has them do.                            *)
EntityCount(log) == Len(SelectSeq(log, LAMBDA e : e.kind # "file_update"))

WellFormed(log) ==
  /\ log \in Seq([kind : DOMAIN TypeByte, ids : Seq(Nat), bytes : Seq(Nat)])
  /\ \A k \in DOMAIN log :
       /\ CASE log[k].kind = "root_entity_name" -> log[k].ids = <<>>
            [] log[k].kind = "entity_name"      -> Len(log[k].ids) = 1
            [] log[k].kind = "file_update"      -> /\ log[k].ids # <<>>
                                                   /\ Len(log[k].bytes) = 2 * ScalarSize
       /\ \A n \in DOMAIN log[k].ids : log[k].ids[n] < EntityCount(SubSeq(log, 1, k - 1))

ASSUME SizesAssumption ==
  /\ Radix \in Nat \ {0, 1} /\ MaxBytes \in Nat \ {0, 1}
  /\ ScalarSize \in Nat \ {0} /\ BufferSize \in Nat \ {0}

ASSUME LogsAssumption == \A log \in Logs : WellFormed(log)

VARIABLES
  file, written, \* the bytes on disk, and the entries they were written from
  position,      \* what read() has taken of the file
  buffer,        \* the part of buf_ between next_ and end_
  got,           \* what the current call of the reader has copied out
  size,          \* the bytes of the integer being read
  fields,        \* what is still to be read of the current entry
  entry,         \* what has been read of it
  entries,       \* the entries read before
  ended          \* "no", or how read() returned or threw

logReaderVars == <<file, written, position, buffer, got, size, fields, entry, entries, ended>>

-----------------------------------------------------------------------------
(* Writing.                                                                *)

VarSize[value \in Nat] ==
  IF value < Radix THEN <<value>>
  ELSE <<Radix + (value % Radix)>> \o VarSize[value \div Radix]

(* What recorder::record() writes of an update after its type, and         *)
(* record_ent_name_() of the others, one call after the other.             *)
EntryParts(e) ==
  IF e.kind = "file_update"
  THEN <<SubSeq(e.bytes, 1, ScalarSize), SubSeq(e.bytes, ScalarSize + 1, 2 * ScalarSize),
         VarSize[Head(e.ids)], VarSize[Len(e.ids) - 1]>>
       \o [k \in 1..(Len(e.ids) - 1) |-> VarSize[e.ids[k + 1]]]
  ELSE [k \in DOMAIN e.ids |-> VarSize[e.ids[k]]] \o <<VarSize[Len(e.bytes)], e.bytes>>

EntryBytes(e) == <<TypeByte[e.kind]>> \o FlattenSeq(EntryParts(e))

LogBytes(log) == <<VersionByte>> \o FlattenSeq([k \in DOMAIN log |-> EntryBytes(log[k])])

-----------------------------------------------------------------------------
(* Reading. A field is what one call of the reader is for; `count` is the  *)
(* number of bytes it asks.                                                *)
Field(is) == [is |-> is, count |-> 1]
Scalar    == [is |-> "scalar", count |-> ScalarSize]
Name(n)   == [is |-> "name", count |-> n]
NoEntry   == [kind |-> "none", ids |-> <<>>, bytes |-> <<>>]

FieldsOf ==
  [root_entity_name |-> <<Field("length")>>,
   entity_name      |-> <<Field("id"), Field("length")>>,
   file_update      |-> <<Scalar, Scalar, Field("id"), Field("dep_count")>>]

Asked == Head(fields).count

LogInit ==
  /\ \/ /\ written \in Logs
        /\ \E n \in 0..Len(LogBytes(written)) : file = SubSeq(LogBytes(written), 1, n)
     \/ file \in Foreign /\ written = <<>>
  /\ position = 0 /\ buffer = <<>> /\ got = <<>> /\ size = <<>>
  /\ fields = <<Field("version")>>
  /\ entry = NoEntry /\ entries = <<>> /\ ended = "no"

(* read_fd_forward::read_(): read() may return less than there is.         *)
Refill ==
  /\ ended = "no" /\ Len(got) < Asked /\ buffer = <<>>
  /\ \E n \in 1..BufferSize :
       /\ position + n <= Len(file)
       /\ buffer' = SubSeq(file, position + 1, position + n)
       /\ position' = position + n
  /\ UNCHANGED <<file, written, got, size, fields, entry, entries, ended>>

(* Mutant: the rest of a value is copied over its beginning.               *)
FillOver ==
  /\ ended = "no" /\ Len(got) < Asked /\ buffer # <<>>
  /\ LET missing == Asked - Len(got)
         n == IF missing < Len(buffer) THEN missing ELSE Len(buffer)
     IN  /\ got' = SubSeq(buffer, 1, n) \o [k \in DOMAIN got |-> 0]
         /\ buffer' = SubSeq(buffer, n + 1, Len(buffer))
  /\ UNCHANGED <<file, written, position, size, fields, entry, entries, ended>>

(* read_fd_forward::fill_().                                               *)
Fill ==
  /\ ended = "no" /\ Len(got) < Asked /\ buffer # <<>>
  /\ LET missing == Asked - Len(got)
         n == IF missing < Len(buffer) THEN missing ELSE Len(buffer)
     IN  /\ got' = got \o SubSeq(buffer, 1, n)
         /\ buffer' = SubSeq(buffer, n + 1, Len(buffer))
  /\ UNCHANGED <<file, written, position, size, fields, entry, entries, ended>>

(* The call returns less than was asked: only between two entries is that  *)
(* not an error (try_read_scalar, read_scalar, read_string).               *)
ReachEnd ==
  /\ ended = "no" /\ Len(got) < Asked /\ buffer = <<>> /\ position = Len(file)
  /\ ended' = IF Head(fields).is = "type" /\ got = <<>> THEN "end"
              ELSE "unexpected_end_of_file"
  /\ UNCHANGED <<file, written, position, buffer, got, size, fields, entry, entries>>

Has(is) == ended = "no" /\ Head(fields).is = is /\ Len(got) = Asked

(* The current field is done: `e` is the entry with it, `more` the fields  *)
(* it calls for. After the last one the entry is complete.                 *)
Proceed(e, more) ==
  /\ got' = <<>>
  /\ LET left == more \o Tail(fields)
     IN  IF left = <<>>
         THEN fields' = <<Field("type")>> /\ entry' = NoEntry /\ entries' = Append(entries, e)
         ELSE fields' = left /\ entry' = e /\ UNCHANGED entries
  /\ UNCHANGED <<file, written, position, buffer>>

Refuse(reason) ==
  /\ ended' = reason
  /\ UNCHANGED <<file, written, position, buffer, got, fields, entry, entries>>

GetVersion ==
  /\ Has("version")
  /\ IF Head(got) = VersionByte
     THEN /\ fields' = <<Field("type")>> /\ got' = <<>>
          /\ UNCHANGED <<file, written, position, buffer, entry, entries, ended>>
     ELSE Refuse("version_mismatch")
  /\ UNCHANGED size

GetType ==
  /\ Has("type")
  /\ IF \E kind \in DOMAIN TypeByte : TypeByte[kind] = Head(got)
     THEN /\ LET kind == CHOOSE k \in DOMAIN TypeByte : TypeByte[k] = Head(got)
             IN  Proceed([NoEntry EXCEPT !.kind = kind], FieldsOf[kind])
          /\ UNCHANGED ended
     ELSE Refuse("wrong record type")
  /\ UNCHANGED size

(* vector::at() of ent_paths, which has the entities read so far.          *)
Known(id) == id < EntityCount(entries)

GetScalar ==
  /\ Has("scalar")
  /\ Proceed([entry EXCEPT !.bytes = @ \o got], <<>>)
  /\ UNCHANGED <<size, ended>>

(* The parent of an entity is looked up once its name has been read.       *)
GetName ==
  /\ Has("name")
  /\ IF entry.kind = "entity_name" /\ ~Known(Head(entry.ids)) THEN Refuse("out_of_range")
     ELSE Proceed([entry EXCEPT !.bytes = got], <<>>) /\ UNCHANGED ended
  /\ UNCHANGED size

(* One turn of the loop of read_var_size_t. The count is only looked at    *)
(* after the loop, so a fifth byte is refused even if it is the last one.  *)
SizeRead == Append(size, Head(got))
IsLast   == Head(got) < Radix

AtSize   == Has("length") \/ Has("id") \/ Has("dep_count")

GetSizeByte ==
  /\ AtSize /\ ~IsLast /\ Len(SizeRead) < MaxBytes
  /\ size' = SizeRead /\ got' = <<>>
  /\ UNCHANGED <<file, written, position, buffer, fields, entry, entries, ended>>

GetInvalidSize ==
  /\ AtSize /\ Len(SizeRead) = MaxBytes
  /\ size' = SizeRead /\ Refuse("invalid var size_t")

Value(bytes) ==
  LET OfLast[n \in 0..Len(bytes)] ==
        IF n = 0 THEN 0 ELSE (bytes[Len(bytes) + 1 - n] % Radix) + Radix * OfLast[n - 1]
  IN  OfLast[Len(bytes)]

GetLength ==
  /\ Has("length") /\ IsLast /\ Len(SizeRead) < MaxBytes
  /\ Proceed(entry, <<Name(Value(SizeRead))>>)
  /\ size' = <<>> /\ UNCHANGED ended

(* read_ent_path(), and the parent of an entity.                           *)
GetId ==
  /\ Has("id") /\ IsLast /\ Len(SizeRead) < MaxBytes
  /\ IF entry.kind = "file_update" /\ ~Known(Value(SizeRead)) THEN Refuse("out_of_range")
     ELSE Proceed([entry EXCEPT !.ids = Append(@, Value(SizeRead))], <<>>) /\ UNCHANGED ended
  /\ size' = <<>>

GetDepCount ==
  /\ Has("dep_count") /\ IsLast /\ Len(SizeRead) < MaxBytes
  /\ Proceed(entry, [k \in 1..Value(SizeRead) |-> Field("id")])
  /\ size' = <<>> /\ UNCHANGED ended

LogNext ==
  \/ Refill \/ Fill \/ ReachEnd
  \/ GetVersion \/ GetType \/ GetScalar \/ GetName
  \/ GetSizeByte \/ GetInvalidSize \/ GetLength \/ GetId \/ GetDepCount

LogSpec == LogInit /\ [][LogNext]_logReaderVars

-----------------------------------------------------------------------------
Numbers(e) ==
  ToSet(e.ids) \cup {IF e.kind = "file_update" THEN Len(e.ids) - 1 ELSE Len(e.bytes)}

Power[n \in Nat] == IF n = 0 THEN 1 ELSE Radix * Power[n - 1]

Fits(e) == \A n \in Numbers(e) : n < Power[MaxBytes - 1]

(* However read() cuts the file, and wherever a crash has cut it off, the  *)
(* reader returns the entries that were written: all of them, or those     *)
(* before one that is incomplete or has a number it cannot read, at which  *)
(* it throws. It never takes the bytes of one entry for another.           *)
EntriesSurvive ==
  file \notin Foreign =>
    /\ IsPrefix(entries, written)
    /\ ended = "end" => file = LogBytes(entries)
    /\ ended = "unexpected_end_of_file" => \A k \in 0..Len(written) : file # LogBytes(SubSeq(written, 1, k))
    /\ ended = "invalid var size_t" => ~Fits(written[Len(entries) + 1])
    /\ ended \in {"no", "end", "unexpected_end_of_file", "invalid var size_t"}
===============================================================================
