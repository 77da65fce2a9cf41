------------------------- MODULE ConnectionStringTable -------------------------
(***************************************************************************)
(* ConnectionStringTable (connectionStringTable.cpp) and the string buffer *)
(* of BitStream (bitStream.cpp): strings that are sent again and again     *)
(* over a connection are replaced by the index of a table entry, as soon   *)
(* as the sender knows that the receiver has the entry; until then the     *)
(* text is sent, without the prefix it shares with the text before it in   *)
(* the same packet.  One direction of a connection, over NotifyChannel.    *)
(*                                                                         *)
(* A packet is written unit by unit (an event, an update), here with one   *)
(* string each.  One that does not fit is taken back: the stream is set to *)
(* where the unit began, and nothing else is.  The entry, the list of the  *)
(* notify and the text that the next one is written relative to are as if  *)
(* the string had been sent.  doubtful, a history, has the entries with    *)
(* the strings for which this makes a difference.                          *)
(***************************************************************************)
EXTENDS NotifyChannel, Sequences

CONSTANTS
  String,        \* the strings
  NoString,      \* the empty string
  Garbage,       \* a string nobody has written
  Prefix(_),     \* strings with the same Prefix share more than two characters
  EntryCount,
  MaxUnits,      \* bound of the model: strings in a packet
  MaxPackets     \* bound of the model: packets sent

ASSUME StringConstants ==
  /\ NoString \notin String /\ Garbage \notin String /\ Garbage # NoString
  /\ EntryCount \in Nat \ {0} /\ MaxUnits \in Nat /\ MaxPackets \in Nat

VARIABLES
  mEntryTable,          \* [Index -> [string, receiveConfirmed]]
  lru,                  \* mLRUHead .. mLRUTail: the entries, oldest use first
  notes,                \* the packets with a queued notify, and what they carry
  mRemoteStringTable,   \* the table of the receiver
  doubtful              \* history: entries, with the text each had in a packet

vars == <<chanVars, mEntryTable, lru, notes, mRemoteStringTable, doubtful>>

Sender == "host"
Receiver == "initiator"

Index == 0 .. EntryCount - 1

Init ==
  /\ ChanInit
  /\ mEntryTable = [e \in Index |-> [string |-> NoString, receiveConfirmed |-> FALSE]]
  /\ lru = [k \in 1 .. EntryCount |-> k - 1]
  /\ notes = << >>
  /\ mRemoteStringTable = [e \in Index |-> NoString]
  /\ doubtful = {}

-----------------------------------------------------------------------------
(* The sender.  A state of writing a packet is a record w of the table,    *)
(* the LRU list, the last text written, the list of the notify, the units, *)
(* whether every text so far was sent, and the history.                    *)
\* pushBack: e is unlinked and linked in again before mLRUTail.
PushedBack(list, e) ==
  LET i == CHOOSE i \in 1 .. EntryCount : list[i] = e
  IN  [k \in 1 .. EntryCount |-> IF k = EntryCount THEN e
                                 ELSE IF k < i THEN list[k] ELSE list[k + 1]]

\* The entry of s, or the one that it takes over.
EntryFor(w, s) ==
  IF \E e \in Index : w.table[e].string = s
    THEN CHOOSE e \in Index : w.table[e].string = s
    ELSE w.lru[1]

\* Faulty variant: an entry that is taken over stays confirmed.
TakenOver_Confirmed(entry, s) == [entry EXCEPT !.string = s]
TakenOver(entry, s) ==
  IF entry.string = s THEN entry ELSE [string |-> s, receiveConfirmed |-> FALSE]

SharesPrefix(buffer, s) == buffer # NoString /\ Prefix(buffer) = Prefix(s)

\* writeStringTableEntry, in a unit that fits or does not.
writeStringTableEntry(w, s, fits) ==
  LET e == EntryFor(w, s)
      table == [w.table EXCEPT ![e] = TakenOver(@, s)]
      text == ~table[e].receiveConfirmed
      written == [index |-> e, string |-> s, text |-> text, sent |-> fits,
                  relative |-> text /\ SharesPrefix(w.buffer, s)]
      sound == w.sound /\ (text => fits)
      listed == [index |-> e, string |-> s]
  IN  [table |-> table,
       lru |-> PushedBack(w.lru, e),
       buffer |-> IF text THEN s ELSE w.buffer,
       stringList |-> IF text THEN Append(w.stringList, listed) ELSE w.stringList,
       packet |-> Append(w.packet, written),
       sound |-> sound,
       doubtful |-> IF text /\ ~sound THEN w.doubtful \union {listed} ELSE w.doubtful]

Writing(strings, fits) ==
  LET w[k \in 0 .. Len(strings)] ==
        IF k = 0 THEN [table |-> mEntryTable, lru |-> lru, buffer |-> NoString,
                       stringList |-> << >>, packet |-> << >>,
                       sound |-> TRUE, doubtful |-> doubtful]
                 ELSE writeStringTableEntry(w[k-1], strings[k], fits[k])
  IN  w[Len(strings)]

WritePacket ==
  /\ sent[Sender] < InitSeq[Sender] + MaxPackets        \* bound of the model
  /\ Send(Sender)
  /\ \E n \in 1 .. MaxUnits : \E strings \in [1 .. n -> String], fits \in [1 .. n -> BOOLEAN] :
       LET w == Writing(strings, fits)
       IN  /\ mEntryTable' = w.table
           /\ lru' = w.lru
           /\ notes' = Append(notes, [stringList |-> w.stringList, packet |-> w.packet])
           /\ doubtful' = w.doubtful
  /\ UNCHANGED mRemoteStringTable

-----------------------------------------------------------------------------
(* The fate of the packet at the head of notes.                            *)
HandleNotify ==
  /\ Unnotified(Sender) # {}
  /\ NotifyUpTo(Sender, notified[Sender] + 1)
  /\ notes' = Tail(notes)
  /\ UNCHANGED <<open, sent, arrived, lru, mRemoteStringTable, doubtful>>

\* Faulty variant: whatever the entry holds now.
IsConfirmedBy_Any(e, list) == \E k \in DOMAIN list : list[k].index = e
IsConfirmedBy(e, list) ==
  \E k \in DOMAIN list : list[k] = [index |-> e, string |-> mEntryTable[e].string]

packetReceived ==
  /\ HandleNotify
  /\ notified[Sender] + 1 \in arrived[Sender]
  /\ mEntryTable' = [e \in Index |-> [mEntryTable[e] EXCEPT
                       !.receiveConfirmed = @ \/ IsConfirmedBy(e, Head(notes).stringList)]]

packetDropped ==
  /\ HandleNotify
  /\ notified[Sender] + 1 \notin arrived[Sender]
  /\ UNCHANGED mEntryTable

-----------------------------------------------------------------------------
(* The receiver, for which a unit that was taken back is not there.  A     *)
(* state of reading a packet is a record r of the table and the last text  *)
(* read; the string read last is the one its entry has.                    *)
TextOf(r, x) ==
  IF x.relative /\ ~SharesPrefix(r.buffer, x.string) THEN Garbage ELSE x.string

readStringTableEntry(r, x) ==
  IF x.sent /\ x.text
    THEN [table |-> [r.table EXCEPT ![x.index] = TextOf(r, x)], buffer |-> TextOf(r, x)]
    ELSE r

Reading(n) ==
  LET packet == notes[n - notified[Sender]].packet
      r[k \in 0 .. Len(packet)] ==
        IF k = 0 THEN [table |-> mRemoteStringTable, buffer |-> NoString]
                 ELSE readStringTableEntry(r[k-1], packet[k])
  IN  r

ReadPacket ==
  \E n \in Unnotified(Sender) :
    /\ Readable(Receiver, n)
    /\ arrived' = [arrived EXCEPT ![Sender] = @ \union {n}]
    /\ mRemoteStringTable' = Reading(n)[Len(notes[n - notified[Sender]].packet)].table
    /\ UNCHANGED <<open, sent, notified, confirmed, mEntryTable, lru, notes, doubtful>>

Next == WritePacket \/ packetReceived \/ packetDropped \/ ReadPacket

Spec == Init /\ [][Next]_vars

-----------------------------------------------------------------------------
\* Is the text s of entry e none of those?
Sure(texts, e, s) == [index |-> e, string |-> s] \notin texts

(* What a packet carries is read as it was written, whichever packets were *)
(* lost before it and whichever units were taken back: the damage that a   *)
(* unit taken back does stays with the texts of its packet from there on.  *)
ReadAsWritten ==
  \A n \in Unnotified(Sender) : Readable(Receiver, n) =>
    LET packet == notes[n - notified[Sender]].packet
    IN  \A k \in DOMAIN packet :
          packet[k].sent /\ Sure(doubtful, packet[k].index, packet[k].string) =>
            Reading(n)[k].table[packet[k].index] = packet[k].string

(* receiveConfirmed: "Does the other side now have this string?"           *)
ConfirmedIsThere ==
  \A e \in Index :
    mEntryTable[e].receiveConfirmed /\ Sure(doubtful, e, mEntryTable[e].string) =>
      mRemoteStringTable[e] = mEntryTable[e].string
=============================================================================
