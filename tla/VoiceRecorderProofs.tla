------------------------ MODULE VoiceRecorderProofs ------------------------
(***************************************************************************)
(* What VoiceRecorder promises for a recording of any length, any input    *)
(* buffers of the encoder, packets of any size and any size of a page: the *)
(* stream is well formed, nothing is lost, what is attached is finished.   *)
(*                                                                         *)
(* The argument is in two halves.  Each operation of the muxer keeps a     *)
(* stream a stream: what is pending follows the last page (Streams).  And  *)
(* the encoder holds exactly the frames that are not in the muxer yet,     *)
(* with the mark of the end after them, if at all (QueueInv), so that the  *)
(* next packet is the next frame.  It also follows that a loop which has   *)
(* seen the microphone end has the end of the stream before it.            *)
(***************************************************************************)
EXTENDS VoiceRecorder, SequenceTheorems, TLAPS

Stored == [what : {"head", "tags", "audio"}, frame : Nat, len : Nat]
Page == [type : {"BOS", "none", "EOS"}, granule : Nat, packets : Seq(Stored)]
Muxer == [pages : Seq(Page), pending : Seq(Stored), granule : Nat, finished : BOOLEAN]

HeadPage == [type |-> "BOS", granule |-> 0, packets |-> <<OpusHead>>]
TagsPage == [type |-> "none", granule |-> 0, packets |-> <<OpusTags>>]

\* The frames up to the last page's end
Paged(m) == m.pages[Len(m.pages)].granule

\* Packets in their order, after the frames up to n
Follow(packets, n) ==
    \A k \in DOMAIN packets : packets[k].what = "audio" /\ packets[k].frame = n + k

\* A muxer with its header written: the pages follow one another, what is
\* pending follows the last one.
Streams(m) ==
    /\ Len(m.pages) >= 2 /\ m.pages[1] = HeadPage /\ m.pages[2] = TagsPage
    /\ \A i \in 3 .. Len(m.pages) :
          /\ m.pages[i].granule = m.pages[i - 1].granule + Len(m.pages[i].packets)
          /\ Follow(m.pages[i].packets, m.pages[i - 1].granule)
          /\ (m.pages[i].type = "EOS") = (m.finished /\ i = Len(m.pages))
    /\ Follow(m.pending, Paged(m))
    /\ m.granule = Paged(m) + Len(m.pending)
    /\ m.finished => m.pages[Len(m.pages)].type = "EOS" /\ m.pending = << >>

\* A muxer that has been given nothing
Blank(m) ==
    /\ m.pending = << >> /\ m.granule = 0
    /\ IF m.finished THEN Len(m.pages) = 1 /\ m.pages[1].type = "EOS" ELSE m.pages = << >>

StreamInv == mux \in Muxer /\ IF headWritten THEN Streams(mux) ELSE Blank(mux)

\* The file is closed and the microphone released when the thread is dead.
ThreadInv ==
    /\ mux.finished <=> pc = "dead"
    /\ mic = "released" <=> pc = "dead"
    /\ ui = "idle" <=> pc = "off"
    /\ mic = "off" <=> pc = "off"
    /\ ui \in {"attached", "discarded", "left"} => mic \in {"failed", "released"}

\* A queue with the frames after granule up to frames, and after them the mark
\* of the end, or not
Holds(q, granule, frames) ==
    LET rest == frames - granule
    IN  /\ rest >= 0
        /\ Len(q) \in {rest, rest + 1}
        /\ \A i \in 1 .. rest : q[i] = granule + i
        /\ Len(q) = rest + 1 => q[rest + 1] = Eos

\* The encoder has the frames that are not in the muxer, and the mark of the end
\* only once no other frame will follow.
QueueInv ==
    /\ Holds(queue, mux.granule, framesIn)
    /\ Len(queue) > framesIn - mux.granule => inputEos \/ pc \in {"tailDrain", "finally", "dead"}
    /\ inputEos => ~framePending

RecorderInv == TypeOK /\ StreamInv /\ ThreadInv /\ QueueInv

-----------------------------------------------------------------------------
(* The muxer *)

LEMMA BlankNew == NewMuxer \in Muxer /\ Blank(NewMuxer)
  BY EmptySeq, SMT DEF NewMuxer, Muxer, Blank

LEMMA HeadersStored == OpusHead \in Stored /\ OpusTags \in Stored
  BY DEF Stored, OpusHead, OpusTags

LEMMA AudioStored ==
  ASSUME NEW frame \in Nat, NEW len \in Nat
  PROVE  Audio(frame, len) \in Stored
  BY DEF Stored, Audio

LEMMA PageIsPage ==
  ASSUME NEW type \in {"BOS", "none", "EOS"}, NEW granule \in Nat, NEW packets \in Seq(Stored)
  PROVE  [type |-> type, granule |-> granule, packets |-> packets] \in Page
  BY DEF Page

LEMMA MuxerIs ==
  ASSUME NEW m \in Muxer
  PROVE  /\ m = [pages |-> m.pages, pending |-> m.pending, granule |-> m.granule,
                 finished |-> m.finished]
         /\ m.pages \in Seq(Page) /\ m.pending \in Seq(Stored) /\ m.granule \in Nat
         /\ m.finished \in BOOLEAN
  BY DEF Muxer

LEMMA IsMuxer ==
  ASSUME NEW a \in Seq(Page), NEW b \in Seq(Stored), NEW c \in Nat, NEW d \in BOOLEAN
  PROVE  [pages |-> a, pending |-> b, granule |-> c, finished |-> d] \in Muxer
  BY DEF Muxer

\* Assignments to the fields of a muxer
LEMMA Assigned ==
  ASSUME NEW m \in Muxer, NEW x, NEW y
  PROVE  /\ [m EXCEPT !.pages = x] =
               [pages |-> x, pending |-> m.pending, granule |-> m.granule, finished |-> m.finished]
         /\ [m EXCEPT !.pending = x] =
               [pages |-> m.pages, pending |-> x, granule |-> m.granule, finished |-> m.finished]
         /\ [m EXCEPT !.finished = x] =
               [pages |-> m.pages, pending |-> m.pending, granule |-> m.granule, finished |-> x]
         /\ [m EXCEPT !.pending = x, !.granule = y] =
               [pages |-> m.pages, pending |-> x, granule |-> y, finished |-> m.finished]
  <1> DEFINE a == m.pages
             b == m.pending
             c == m.granule
             d == m.finished
  <1>1. m = [pages |-> a, pending |-> b, granule |-> c, finished |-> d]
    BY MuxerIs
  <1> HIDE DEF a, b, c, d
  <1>2. /\ [m EXCEPT !.pages = x] = [pages |-> x, pending |-> b, granule |-> c, finished |-> d]
        /\ [m EXCEPT !.finished = x] = [pages |-> a, pending |-> b, granule |-> c, finished |-> x]
    BY <1>1
  <1>3. [m EXCEPT !.pending = x] = [pages |-> a, pending |-> x, granule |-> c, finished |-> d]
    BY <1>1
  <1> DEFINE k == [m EXCEPT !.pending = x]
  <1>4. [m EXCEPT !.pending = x, !.granule = y] = [k EXCEPT !.granule = y]
    BY <1>1
  <1>5. k = [pages |-> a, pending |-> x, granule |-> c, finished |-> d]
    BY <1>3
  <1> HIDE DEF k
  <1>6. [k EXCEPT !.granule = y] = [pages |-> a, pending |-> x, granule |-> y, finished |-> d]
    BY <1>5
  <1> QED
    BY <1>2, <1>3, <1>4, <1>6 DEF a, b, c, d

\* w is m with one page more.
Grown(m, page, w) ==
    /\ w = [pages |-> Append(m.pages, page), pending |-> m.pending,
            granule |-> m.granule, finished |-> m.finished]
    /\ w \in Muxer /\ page \in Page
    /\ Len(w.pages) = Len(m.pages) + 1
    /\ w.pages[Len(m.pages) + 1] = page
    /\ \A i \in 1 .. Len(m.pages) : w.pages[i] = m.pages[i]

LEMMA PageWritten ==
  ASSUME NEW m \in Muxer, NEW type \in {"BOS", "none", "EOS"}, NEW granule \in Nat,
         NEW packets \in Seq(Stored)
  PROVE  Grown(m, [type |-> type, granule |-> granule, packets |-> packets],
               WritePage(m, type, granule, packets))
  <1> DEFINE w == WritePage(m, type, granule, packets)
             page == [type |-> type, granule |-> granule, packets |-> packets]
  <1>1. page \in Page /\ m.pages \in Seq(Page)
    BY PageIsPage DEF Muxer
  <1>2. w = [pages |-> Append(m.pages, page), pending |-> m.pending,
             granule |-> m.granule, finished |-> m.finished]
    <2>1. w = [m EXCEPT !.pages = Append(m.pages, page)]
      BY DEF WritePage
    <2> HIDE DEF w, page
    <2> QED
      BY <2>1, Assigned
  <1> HIDE DEF page
  <1>3. /\ Append(m.pages, page) \in Seq(Page)
        /\ Len(Append(m.pages, page)) = Len(m.pages) + 1
        /\ \A i \in 1 .. Len(m.pages) : Append(m.pages, page)[i] = m.pages[i]
        /\ Append(m.pages, page)[Len(m.pages) + 1] = page
    BY <1>1, AppendProperties
  <1>4. w \in Muxer
    <2> HIDE DEF w
    <2> QED
      BY <1>2, <1>3, MuxerIs, IsMuxer
  <1>5. w.pages = Append(m.pages, page)
    BY <1>2
  <1> HIDE DEF w
  <1>6. /\ Len(w.pages) = Len(m.pages) + 1
        /\ w.pages[Len(m.pages) + 1] = page
        /\ \A i \in 1 .. Len(m.pages) : w.pages[i] = m.pages[i]
    BY <1>3, <1>5
  <1> QED
    BY <1>1, <1>2, <1>4, <1>6 DEF w, page, Grown

\* The header on a muxer that has been given nothing
LEMMA HeaderWritten ==
  ASSUME NEW m \in Muxer, Blank(m), ~m.finished
  PROVE  LET w == WriteTags(WriteHeader(m))
         IN  w \in Muxer /\ Streams(w) /\ ~w.finished /\ w.granule = m.granule
  <1> DEFINE h == WriteHeader(m)
             w == WriteTags(h)
  <1>1. <<OpusHead>> \in Seq(Stored) /\ <<OpusTags>> \in Seq(Stored)
    BY HeadersStored
  <1>2. Grown(m, HeadPage, h)
    BY <1>1, PageWritten DEF WriteHeader, HeadPage
  <1> HIDE DEF h
  <1>3. Grown(h, TagsPage, w)
    <2>1. h \in Muxer
      BY <1>2 DEF Grown
    <2> QED
      BY <1>1, <2>1, PageWritten DEF WriteTags, TagsPage
  <1> HIDE DEF w
  <1>4. Len(m.pages) = 0 /\ m.pending = << >> /\ m.granule = 0
    BY EmptySeq DEF Blank
  <1>5. w.pending = << >> /\ w.granule = 0 /\ ~w.finished
    <2>1. h.pending = m.pending /\ h.granule = m.granule /\ h.finished = m.finished
      BY <1>2 DEF Grown
    <2>2. w.pending = h.pending /\ w.granule = h.granule /\ w.finished = h.finished
      BY <1>3 DEF Grown
    <2> QED
      BY <1>4, <2>1, <2>2
  <1>6. Len(w.pages) = 2 /\ w.pages[1] = HeadPage /\ w.pages[2] = TagsPage
    BY <1>2, <1>3, <1>4 DEF Grown
  <1>7. Paged(w) = 0
    BY <1>6 DEF Paged, TagsPage
  <1>8. Follow(w.pending, Paged(w)) /\ w.granule = Paged(w) + Len(w.pending)
    BY <1>5, <1>7, EmptySeq DEF Follow
  <1>9. Streams(w)
    BY <1>5, <1>6, <1>8 DEF Streams
  <1> QED
    BY <1>3, <1>4, <1>5, <1>9 DEF w, h, Grown

\* What is pending becomes the next page, which is the last one if the muxer
\* is finished by it.
LEMMA NextPage ==
  ASSUME NEW m \in Muxer, Streams(m), ~m.finished, NEW end \in BOOLEAN,
         NEW w, w = [pages |-> Append(m.pages, [type |-> IF end THEN "EOS" ELSE "none",
                                                granule |-> m.granule, packets |-> m.pending]),
                     pending |-> << >>, granule |-> m.granule, finished |-> end]
  PROVE  w \in Muxer /\ Streams(w)
  <1> DEFINE page == [type |-> IF end THEN "EOS" ELSE "none",
                      granule |-> m.granule, packets |-> m.pending]
             n == Len(m.pages)
  <1>1. /\ m.pages \in Seq(Page) /\ m.pending \in Seq(Stored) /\ m.granule \in Nat
        /\ m.finished = FALSE /\ n \in Nat /\ n >= 2
    BY LenProperties DEF Muxer, Streams
  <1>2. page \in Page
    BY <1>1 DEF Page
  <1>3. /\ w.pages = Append(m.pages, page) /\ w.pending = << >>
        /\ w.granule = m.granule /\ w.finished = end
    OBVIOUS
  <1>4. /\ page.granule = m.granule /\ page.packets = m.pending
        /\ (page.type = "EOS") = end
    OBVIOUS
  <1> HIDE DEF page
  <1>5. /\ w.pages \in Seq(Page) /\ Len(w.pages) = n + 1 /\ w.pages[n + 1] = page
        /\ \A i \in 1 .. n : w.pages[i] = m.pages[i]
    BY <1>1, <1>2, <1>3, AppendProperties
  <1>6. w \in Muxer
    BY <1>1, <1>5, EmptySeq DEF Muxer
  <1> HIDE DEF n
  <1>7. w.pages[1] = HeadPage /\ w.pages[2] = TagsPage /\ Len(w.pages) >= 2
    BY <1>1, <1>5 DEF Streams
  <1>8. m.pages[n].granule = Paged(m)
    BY DEF Paged, n
  <1>9. ASSUME NEW i \in 3 .. Len(w.pages)
        PROVE  /\ w.pages[i].granule = w.pages[i - 1].granule + Len(w.pages[i].packets)
               /\ Follow(w.pages[i].packets, w.pages[i - 1].granule)
               /\ (w.pages[i].type = "EOS") = (w.finished /\ i = Len(w.pages))
    <2>1. CASE i = n + 1
      <3>1. w.pages[i] = page /\ w.pages[i - 1] = m.pages[n]
        BY <1>1, <1>5, <2>1
      <3>2. m.granule = Paged(m) + Len(m.pending) /\ Follow(m.pending, Paged(m))
        BY DEF Streams
      <3> QED
        BY <1>3, <1>4, <1>5, <1>8, <2>1, <3>1, <3>2
    <2>2. CASE i # n + 1
      <3>1. i \in 3 .. n /\ i - 1 \in 1 .. n
        BY <1>1, <1>5, <2>2
      <3>2. w.pages[i] = m.pages[i] /\ w.pages[i - 1] = m.pages[i - 1]
        BY <1>1, <1>5, <3>1
      <3>3. /\ m.pages[i].granule = m.pages[i - 1].granule + Len(m.pages[i].packets)
            /\ Follow(m.pages[i].packets, m.pages[i - 1].granule)
            /\ (m.pages[i].type = "EOS") = FALSE
        BY <1>1, <3>1 DEF Streams, n
      <3>4. (w.finished /\ i = Len(w.pages)) = FALSE
        BY <1>5, <2>2
      <3> QED
        BY <3>2, <3>3, <3>4
    <2> QED
      BY <2>1, <2>2
  <1>10. Paged(w) = m.granule
    BY <1>4, <1>5 DEF Paged
  <1>11. Follow(w.pending, Paged(w)) /\ w.granule = Paged(w) + Len(w.pending)
    BY <1>1, <1>3, <1>10, EmptySeq DEF Follow
  <1>12. w.finished => w.pages[Len(w.pages)].type = "EOS" /\ w.pending = << >>
    BY <1>3, <1>4, <1>5
  <1> QED
    BY <1>6, <1>7, <1>9, <1>11, <1>12 DEF Streams

\* The packet of the next frame
LEMMA PacketWritten ==
  ASSUME NEW m \in Muxer, Streams(m), ~m.finished, NEW len \in Nat, NEW w,
         w = WritePacket(m, Audio(m.granule + 1, len))
  PROVE  w \in Muxer /\ Streams(w) /\ ~w.finished /\ w.granule = m.granule + 1
  <1> DEFINE packet == Audio(m.granule + 1, len)
             more == [m EXCEPT !.pending = Append(@, packet), !.granule = @ + 1]
  <1>1. /\ m.pages \in Seq(Page) /\ m.pending \in Seq(Stored) /\ m.granule \in Nat
        /\ packet \in Stored
    BY AudioStored DEF Muxer
  <1>2. packet.what = "audio" /\ packet.frame = m.granule + 1
    BY DEF Audio
  <1>3. more = [pages |-> m.pages, pending |-> Append(m.pending, packet),
                granule |-> m.granule + 1, finished |-> m.finished]
    <2>1. more = [m EXCEPT !.pending = Append(m.pending, packet), !.granule = m.granule + 1]
      OBVIOUS
    <2> HIDE DEF packet, more
    <2> QED
      BY <1>1, <2>1, Assigned
  <1>4. w = IF PendingBytes(more) >= FlushThreshold THEN Flush(more, FALSE) ELSE more
    BY DEF WritePacket
  <1> HIDE DEF packet
  <1>5. /\ Append(m.pending, packet) \in Seq(Stored)
        /\ Append(m.pending, packet) # << >>
        /\ Len(Append(m.pending, packet)) = Len(m.pending) + 1
        /\ \A i \in 1 .. Len(m.pending) : Append(m.pending, packet)[i] = m.pending[i]
        /\ Append(m.pending, packet)[Len(m.pending) + 1] = packet
    BY <1>1, AppendProperties
  <1>6. /\ more.pages = m.pages /\ more.pending = Append(m.pending, packet)
        /\ more.granule = m.granule + 1 /\ more.finished = m.finished
    BY <1>3
  <1>7. more \in Muxer
    <2>1. m.granule + 1 \in Nat /\ m.finished \in BOOLEAN
      BY MuxerIs
    <2>2. [pages |-> m.pages, pending |-> Append(m.pending, packet),
           granule |-> m.granule + 1, finished |-> m.finished] \in Muxer
      BY <1>1, <1>5, <2>1, IsMuxer
    <2> HIDE DEF more
    <2> QED
      BY <1>3, <2>2
  <1> HIDE DEF more
  <1>8. Paged(more) = Paged(m) /\ m.granule = Paged(m) + Len(m.pending)
    BY <1>6 DEF Paged, Streams
  <1>9. Len(m.pending) \in Nat /\ Len(m.pages) \in Nat /\ Len(m.pages) >= 2
        /\ DOMAIN m.pending = 1 .. Len(m.pending)
        /\ DOMAIN more.pending = 1 .. Len(m.pending) + 1
    BY <1>1, <1>5, <1>6, LenProperties DEF Streams
  <1>10. Paged(m) \in Nat
    <2>1. m.pages[Len(m.pages)] \in Page
      BY <1>1, <1>9, ElementOfSeq
    <2> QED
      BY <2>1 DEF Paged, Page
  <1>11. Follow(more.pending, Paged(more))
    <2>1. ASSUME NEW k \in DOMAIN more.pending
          PROVE  more.pending[k].what = "audio" /\ more.pending[k].frame = Paged(m) + k
      <3>1. CASE k \in DOMAIN m.pending
        <4>1. more.pending[k] = m.pending[k]
          BY <1>5, <1>6, <1>9, <3>1
        <4> QED
          BY <3>1, <4>1 DEF Streams, Follow
      <3>2. CASE k \notin DOMAIN m.pending
        <4>1. k = Len(m.pending) + 1
          BY <1>9, <3>2
        <4>2. more.pending[k] = packet
          BY <1>5, <1>6, <4>1
        <4>3. m.granule + 1 = Paged(m) + k
          BY <1>1, <1>8, <1>9, <1>10, <4>1
        <4> QED
          BY <1>2, <4>2, <4>3
      <3> QED
        BY <3>1, <3>2
    <2> QED
      BY <1>8, <2>1 DEF Follow
  <1>12. more.granule = Paged(more) + Len(more.pending)
    BY <1>5, <1>6, <1>8, <1>9, <1>10
  <1>13. Streams(more) /\ ~more.finished
    BY <1>1, <1>6, <1>11, <1>12 DEF Streams
  <1>14. CASE w = more
    BY <1>6, <1>7, <1>13, <1>14
  <1>15. CASE w = Flush(more, FALSE)
    <2>1. w = [WritePage(more, "none", more.granule, more.pending) EXCEPT !.pending = << >>]
      BY <1>5, <1>6, <1>15 DEF Flush
    <2> DEFINE page == [type |-> "none", granule |-> more.granule, packets |-> more.pending]
               grown == WritePage(more, "none", more.granule, more.pending)
    <2>2. Grown(more, page, grown)
      BY <1>7, MuxerIs, PageWritten
    <2> HIDE DEF grown, page
    <2>3. w = [pages |-> grown.pages, pending |-> << >>, granule |-> grown.granule,
               finished |-> grown.finished]
      <3>1. grown \in Muxer /\ w = [grown EXCEPT !.pending = << >>]
        BY <2>1, <2>2 DEF grown, Grown
      <3> QED
        BY <3>1, Assigned
    <2>5. w = [pages |-> Append(more.pages, page), pending |-> << >>, granule |-> more.granule,
               finished |-> more.finished]
      BY <2>2, <2>3 DEF Grown
    <2>6. page = [type |-> IF more.finished THEN "EOS" ELSE "none",
                  granule |-> more.granule, packets |-> more.pending]
      BY <1>13 DEF page
    <2>4. w \in Muxer /\ Streams(w)
      BY <1>7, <1>13, <2>5, <2>6, MuxerIs, NextPage
    <2> QED
      BY <1>6, <2>5, <2>4
  <1> QED
    BY <1>4, <1>14, <1>15

\* finish() on an unfinished muxer, with or without a header
LEMMA Finished ==
  ASSUME NEW m \in Muxer, ~m.finished, NEW w, w = Finish(m)
  PROVE  /\ w \in Muxer /\ w.finished /\ w.granule = m.granule
         /\ Streams(m) => Streams(w)
         /\ Blank(m) => Blank(w)
  <1> DEFINE closed == [m EXCEPT !.finished = TRUE]
             page == [type |-> "EOS", granule |-> m.granule, packets |-> m.pending]
  <1>1. /\ m.pages \in Seq(Page) /\ m.pending \in Seq(Stored) /\ m.granule \in Nat
    BY DEF Muxer
  <1>2. closed = [pages |-> m.pages, pending |-> m.pending, granule |-> m.granule,
                  finished |-> TRUE]
    BY Assigned
  <1>3. closed \in Muxer
    BY <1>1, <1>2 DEF Muxer
  <1>4. w = [WritePage(closed, "EOS", closed.granule, closed.pending) EXCEPT !.pending = << >>]
    BY DEF Finish, Flush
  <1>5. /\ closed.pages = m.pages /\ closed.pending = m.pending
        /\ closed.granule = m.granule /\ closed.finished = TRUE
    BY <1>2
  <1> HIDE DEF closed
  <1> DEFINE grown == WritePage(closed, "EOS", closed.granule, closed.pending)
  <1>6. Grown(closed, page, grown)
    BY <1>1, <1>3, <1>5, PageWritten
  <1> HIDE DEF grown, page
  <1>7. w = [pages |-> Append(m.pages, page), pending |-> << >>, granule |-> m.granule,
             finished |-> TRUE]
    <2>1. grown \in Muxer /\ w = [grown EXCEPT !.pending = << >>]
      BY <1>4, <1>6 DEF grown, Grown
    <2>2. w = [pages |-> grown.pages, pending |-> << >>, granule |-> grown.granule,
               finished |-> grown.finished]
      BY <2>1, Assigned
    <2> QED
      BY <1>5, <1>6, <2>2 DEF Grown
  <1>8. w \in Muxer
    <2>1. Append(m.pages, page) \in Seq(Page) /\ << >> \in Seq(Stored)
      BY <1>1, <1>6, AppendProperties, EmptySeq DEF Grown
    <2> QED
      BY <1>1, <1>7, <2>1 DEF Muxer
  <1>9. ASSUME Streams(m) PROVE Streams(w)
    BY <1>7, <1>9, NextPage DEF page
  <1>10. ASSUME Blank(m) PROVE Blank(w)
    <2>1. m.pages = << >> /\ m.granule = 0
      BY <1>10 DEF Blank
    <2>2. w.pages = Append(m.pages, page) /\ w.pending = << >> /\ w.granule = 0 /\ w.finished
      BY <1>7, <2>1
    <2>3. page.type = "EOS"
      BY DEF page
    <2>4. /\ Len(Append(m.pages, page)) = Len(m.pages) + 1
          /\ Append(m.pages, page)[Len(m.pages) + 1] = page
      BY <1>1, <1>6, AppendProperties DEF Grown
    <2>5. Len(m.pages) = 0
      BY <2>1, EmptySeq
    <2> QED
      BY <2>2, <2>3, <2>4, <2>5 DEF Blank
  <1> QED
    BY <1>7, <1>8, <1>9, <1>10

-----------------------------------------------------------------------------
(* The queue of the encoder *)

LEMMA FrameQueued ==
  ASSUME NEW q \in Seq(Nat), NEW g \in Nat, NEW n \in Nat, Holds(q, g, n), Len(q) = n - g
  PROVE  Holds(Append(q, n + 1), g, n + 1) /\ Len(Append(q, n + 1)) = (n + 1) - g
  <1>1. /\ Len(Append(q, n + 1)) = Len(q) + 1
        /\ \A i \in 1 .. Len(q) : Append(q, n + 1)[i] = q[i]
        /\ Append(q, n + 1)[Len(q) + 1] = n + 1
    BY AppendProperties
  <1>2. n - g \in Nat /\ (n + 1) - g = (n - g) + 1 /\ (n + 1) - g \in Nat
    BY DEF Holds
  <1>3. \A i \in 1 .. (n + 1) - g : Append(q, n + 1)[i] = g + i
    BY <1>1, <1>2 DEF Holds
  <1> QED
    BY <1>1, <1>2, <1>3 DEF Holds

LEMMA EosQueued ==
  ASSUME NEW q \in Seq(Nat), NEW g \in Nat, NEW n \in Nat, Holds(q, g, n), Len(q) = n - g
  PROVE  Holds(Append(q, Eos), g, n)
  <1>1. Eos \in Nat
    BY DEF Eos
  <1>2. /\ Len(Append(q, Eos)) = Len(q) + 1
        /\ \A i \in 1 .. Len(q) : Append(q, Eos)[i] = q[i]
        /\ Append(q, Eos)[Len(q) + 1] = Eos
    BY <1>1, AppendProperties
  <1> QED
    BY <1>2 DEF Holds

\* A frame at the head is the next one; if the mark is all that follows, it is
\* the last one.
LEMMA FrameTaken ==
  ASSUME NEW q \in Seq(Nat), NEW g \in Nat, NEW n \in Nat, Holds(q, g, n),
         q # << >>, Head(q) # Eos
  PROVE  /\ Head(q) = g + 1 /\ g + 1 <= n
         /\ Holds(Tail(q), g + 1, n)
         /\ Len(Tail(q)) > n - (g + 1) => Len(q) > n - g
         /\ Tail(q) = <<Eos>> => g + 1 = n
  <1> DEFINE t == Tail(q)
  <1>1. /\ t \in Seq(Nat) /\ Len(q) \in Nat \ {0}
        /\ Len(t) = Len(q) - 1
        /\ \A i \in 1 .. Len(q) - 1 : t[i] = q[i + 1]
    BY HeadTailProperties, EmptySeq
  <1> HIDE DEF t
  <1>2. Head(q) = q[1]
    BY <1>1
  <1>3. n - g \in Nat /\ Len(q) \in {n - g, n - g + 1}
    BY DEF Holds
  <1>4. n - g # 0
    BY <1>1, <1>2, <1>3 DEF Holds
  <1>5. n - (g + 1) = (n - g) - 1 /\ n - (g + 1) \in Nat
    BY <1>3, <1>4
  <1>6. Head(q) = g + 1
    BY <1>2, <1>3, <1>4 DEF Holds
  <1>7. \A i \in 1 .. n - (g + 1) : t[i] = (g + 1) + i
    <2> TAKE i \in 1 .. n - (g + 1)
    <2>1. i + 1 \in 1 .. n - g /\ i \in 1 .. Len(q) - 1
      BY <1>1, <1>3, <1>5
    <2>2. t[i] = q[i + 1] /\ q[i + 1] = g + (i + 1)
      BY <1>1, <2>1 DEF Holds
    <2> QED
      BY <2>1, <2>2
  <1>8. Len(t) = n - (g + 1) + 1 => t[n - (g + 1) + 1] = Eos
    <2> HAVE Len(t) = n - (g + 1) + 1
    <2>1. Len(q) = n - g + 1 /\ n - g \in 1 .. Len(q) - 1
      BY <1>1, <1>3, <1>4, <1>5
    <2>2. t[n - g] = q[n - g + 1] /\ q[n - g + 1] = Eos
      BY <1>1, <2>1 DEF Holds
    <2> QED
      BY <1>3, <1>5, <2>2
  <1>9. Holds(t, g + 1, n)
    <2>1. Len(t) \in {n - (g + 1), n - (g + 1) + 1}
      BY <1>1, <1>3, <1>5
    <2> QED
      BY <1>5, <1>7, <1>8, <2>1 DEF Holds
  <1>10. ASSUME t = <<Eos>>
         PROVE  g + 1 = n
    <2>1. t[1] = Eos
      BY <1>10
    <2>2. Len(t) = 1
      BY <1>10
    <2>3. Len(t) = n - (g + 1) \/ Len(t) = n - (g + 1) + 1
      BY <1>1, <1>3, <1>5
    <2>4. n - (g + 1) = 0 \/ n - (g + 1) = 1
      <3> DEFINE l == Len(t)
                 r == n - (g + 1)
      <3>1. l = 1 /\ r \in Nat /\ (l = r \/ l = r + 1)
        BY <1>5, <2>2, <2>3
      <3> HIDE DEF l, r
      <3>2. r = 0 \/ r = 1
        BY <3>1
      <3> QED
        BY <3>2 DEF r
    <2>5. ASSUME n - (g + 1) = 1 PROVE FALSE
      <3>1. t[1] = (g + 1) + 1
        BY <1>7, <2>5
      <3> QED
        BY <2>1, <3>1 DEF Eos
    <2> QED
      BY <2>4, <2>5
  <1> QED
    BY <1>1, <1>3, <1>5, <1>6, <1>9, <1>10 DEF t

\* With the mark at the head there is nothing else.
LEMMA EosTaken ==
  ASSUME NEW g \in Nat, NEW n \in Nat, Holds(<<Eos>>, g, n)
  PROVE  g = n
  <1>1. Len(<<Eos>>) = 1 /\ <<Eos>>[1] = Eos
    OBVIOUS
  <1>2. n - g \in {0, 1}
    BY <1>1 DEF Holds
  <1>3. n - g # 1
    BY <1>1 DEF Holds, Eos
  <1> QED
    BY <1>2, <1>3

LEMMA NothingQueued ==
  ASSUME NEW g \in Nat
  PROVE  Holds(<< >>, g, g)
  BY EmptySeq DEF Holds

-----------------------------------------------------------------------------
(* The actions on the muxer *)

LEMMA TypesOfState ==
  ASSUME TypeOK
  PROVE  /\ queue \in Seq(Nat) /\ framesIn \in Nat /\ mux.granule \in Nat
         /\ MaxFrames \in Nat /\ Lens \subseteq Nat
  <1>1. 0 .. MaxFrames \subseteq Nat /\ MaxFrames \in Nat /\ Lens \subseteq Nat
    BY RecorderAssumption
  <1>2. queue \in Seq(0 .. MaxFrames) /\ framesIn \in 0 .. MaxFrames /\ mux.granule \in 0 .. MaxFrames
    BY DEF TypeOK
  <1>3. queue \in Seq(Nat)
    BY <1>1, <1>2, SeqMonotonic
  <1> QED
    BY <1>1, <1>2, <1>3

\* writeHeaderOnce makes a stream of whatever it is given.
LEMMA WithHeaderStreams ==
  ASSUME StreamInv, ~mux.finished
  PROVE  LET w == WithHeader(mux)
         IN  w \in Muxer /\ Streams(w) /\ ~w.finished /\ w.granule = mux.granule
  <1>1. CASE headWritten
    BY <1>1 DEF StreamInv, WithHeader
  <1>2. CASE ~headWritten
    <2>1. mux \in Muxer /\ Blank(mux) /\ WithHeader(mux) = WriteTags(WriteHeader(mux))
      BY <1>2 DEF StreamInv, WithHeader
    <2> QED
      BY <2>1, HeaderWritten
  <1> QED
    BY <1>1, <1>2

LEMMA NotFinished ==
  ASSUME RecorderInv, pc # "dead"
  PROVE  ~mux.finished
  BY DEF RecorderInv, ThreadInv

LEMMA FormatStep ==
  ASSUME RecorderInv, FormatChanged
  PROVE  StreamInv' /\ ~mux'.finished /\ mux'.granule = mux.granule
  <1>1. ~mux.finished
    BY NotFinished DEF FormatChanged, Draining
  <1>2. mux' = WithHeader(mux) /\ headWritten'
    BY DEF FormatChanged
  <1> QED
    BY <1>1, <1>2, WithHeaderStreams DEF RecorderInv, StreamInv

\* The packet that comes out is the frame after those in the muxer.
LEMMA PacketStep ==
  ASSUME RecorderInv, Packet
  PROVE  StreamInv' /\ ~mux'.finished /\ mux'.granule = mux.granule + 1
  <1>1. ~mux.finished
    BY NotFinished DEF Packet, Draining
  <1> DEFINE w == WithHeader(mux)
  <1>2. w \in Muxer /\ Streams(w) /\ ~w.finished /\ w.granule = mux.granule
    BY <1>1, WithHeaderStreams DEF RecorderInv
  <1>3. Head(queue) = mux.granule + 1
    BY TypesOfState, FrameTaken DEF RecorderInv, QueueInv, Packet
  <1> HIDE DEF w
  <1>4. PICK len \in Lens : mux' = WritePacket(w, Audio(w.granule + 1, len))
    BY <1>2, <1>3 DEF Packet, w
  <1>5. len \in Nat
    BY TypesOfState DEF RecorderInv
  <1>6. mux' \in Muxer /\ Streams(mux') /\ ~mux'.finished /\ mux'.granule = w.granule + 1
    BY <1>2, <1>4, <1>5, PacketWritten
  <1>7. headWritten'
    BY DEF Packet
  <1> QED
    BY <1>2, <1>6, <1>7 DEF StreamInv

LEMMA FinallyStep ==
  ASSUME RecorderInv, Finally
  PROVE  StreamInv' /\ mux'.finished /\ mux'.granule = mux.granule
  <1>1. ~mux.finished
    BY NotFinished DEF Finally
  <1>2. mux' = Finish(mux) /\ headWritten' = headWritten
    BY DEF Finally
  <1>3. mux \in Muxer
    BY DEF RecorderInv, StreamInv
  <1>4. /\ mux' \in Muxer /\ mux'.finished /\ mux'.granule = mux.granule
        /\ Streams(mux) => Streams(mux')
        /\ Blank(mux) => Blank(mux')
    BY <1>1, <1>2, <1>3, Finished
  <1> QED
    BY <1>2, <1>4 DEF RecorderInv, StreamInv

-----------------------------------------------------------------------------
(* The invariant is inductive *)

LEMMA InvInit == Init => RecorderInv
  <1> SUFFICES ASSUME Init PROVE RecorderInv
    OBVIOUS
  <1>1. mux = NewMuxer /\ mux \in Muxer /\ Blank(mux)
    BY BlankNew DEF Init
  <1>2. mux.granule = 0 /\ mux.finished = FALSE
    BY <1>1 DEF NewMuxer
  <1>3. TypeOK
    <2>1. queue \in Seq(0 .. MaxFrames) /\ Len(queue) <= InputSlots
      BY EmptySeq, RecorderAssumption DEF Init
    <2>2. 0 \in 0 .. MaxFrames
      BY RecorderAssumption
    <2> QED
      BY <1>2, <2>1, <2>2 DEF Init, TypeOK
  <1>4. StreamInv
    BY <1>1 DEF Init, StreamInv
  <1>5. ThreadInv
    BY <1>2 DEF Init, ThreadInv
  <1>6. QueueInv
    <2>1. Holds(<< >>, 0, 0) /\ Len(<< >>) = 0
      BY NothingQueued, EmptySeq
    <2> QED
      BY <1>2, <2>1 DEF Init, QueueInv
  <1> QED
    BY <1>3, <1>4, <1>5, <1>6 DEF RecorderInv

\* What the encoder has been given goes on with what is in the muxer.
LEMMA StreamKept == RecorderInv /\ [Next]_vars => StreamInv'
  <1> SUFFICES ASSUME RecorderInv, [Next]_vars PROVE StreamInv'
    OBVIOUS
  <1>1. StreamInv
    BY DEF RecorderInv
  <1>2. CASE Start
    BY <1>1, <1>2 DEF Start, flags, codec, StreamInv
  <1>3. CASE StopRequested
    BY <1>1, <1>3 DEF StopRequested, flags, codec, StreamInv
  <1>4. CASE Joined
    BY <1>1, <1>4 DEF Joined, flags, codec, StreamInv
  <1>5. CASE LoopEnds
    BY <1>1, <1>5 DEF LoopEnds, flags, codec, StreamInv
  <1>6. CASE QueuesFrame
    BY <1>1, <1>6 DEF QueuesFrame, Turn, flags, codec, StreamInv
  <1>7. CASE ReadsFrame
    BY <1>1, <1>7 DEF ReadsFrame, Turn, flags, codec, StreamInv
  <1>8. CASE ReadFails
    BY <1>1, <1>8 DEF ReadFails, Turn, flags, codec, StreamInv
  <1>9. CASE QueuesEos
    BY <1>1, <1>9 DEF QueuesEos, Turn, flags, codec, StreamInv
  <1>10. CASE FeedsNothing
    BY <1>1, <1>10 DEF FeedsNothing, Turn, flags, codec, StreamInv
  <1>11. CASE FormatChanged
    BY <1>11, FormatStep
  <1>12. CASE ConfigBuffer
    BY <1>1, <1>12 DEF ConfigBuffer, flags, codec, StreamInv
  <1>13. CASE Packet
    BY <1>13, PacketStep
  <1>14. CASE EmptyEos
    BY <1>1, <1>14 DEF EmptyEos, flags, codec, StreamInv
  <1>15. CASE DrainEnds
    BY <1>1, <1>15 DEF DrainEnds, flags, codec, StreamInv
  <1>16. CASE TailQueues
    BY <1>1, <1>16 DEF TailQueues, flags, codec, StreamInv
  <1>17. CASE Throws
    BY <1>1, <1>17 DEF Throws, flags, codec, StreamInv
  <1>18. CASE Finally
    BY <1>18, FinallyStep
  <1>19. CASE MicFails
    BY <1>1, <1>19 DEF MicFails, flags, codec, StreamInv
  <1>20. CASE UNCHANGED vars
    BY <1>1, <1>20 DEF vars, flags, codec, StreamInv
  <1> QED
    BY <1>2, <1>3, <1>4, <1>5, <1>6, <1>7, <1>8, <1>9, <1>10, <1>11, <1>12, <1>13, <1>14, <1>15, <1>16, <1>17, <1>18, <1>19, <1>20 DEF Next, Screen, Feed, Output

LEMMA ThreadKept == RecorderInv /\ [Next]_vars => ThreadInv'
  <1> SUFFICES ASSUME RecorderInv, [Next]_vars PROVE ThreadInv'
    OBVIOUS
  <1>1. ThreadInv
    BY DEF RecorderInv
  <1>2. CASE Start
    BY <1>1, <1>2 DEF Start, flags, codec, ThreadInv
  <1>3. CASE StopRequested
    BY <1>1, <1>3 DEF StopRequested, flags, codec, ThreadInv
  <1>4. CASE Joined
    BY <1>1, <1>4 DEF Joined, Returned, flags, codec, ThreadInv
  <1>5. CASE LoopEnds
    BY <1>1, <1>5 DEF LoopEnds, flags, codec, ThreadInv
  <1>6. CASE QueuesFrame
    BY <1>1, <1>6 DEF QueuesFrame, Turn, flags, codec, ThreadInv
  <1>7. CASE ReadsFrame
    BY <1>1, <1>7 DEF ReadsFrame, Turn, flags, codec, ThreadInv
  <1>8. CASE ReadFails
    BY <1>1, <1>8 DEF ReadFails, Turn, flags, codec, ThreadInv
  <1>9. CASE QueuesEos
    BY <1>1, <1>9 DEF QueuesEos, Turn, flags, codec, ThreadInv
  <1>10. CASE FeedsNothing
    BY <1>1, <1>10 DEF FeedsNothing, Turn, flags, codec, ThreadInv
  <1>11. CASE FormatChanged
    BY <1>1, <1>11, FormatStep DEF FormatChanged, Draining, ThreadInv
  <1>12. CASE ConfigBuffer
    BY <1>1, <1>12 DEF ConfigBuffer, Draining, flags, codec, ThreadInv
  <1>13. CASE Packet
    BY <1>1, <1>13, PacketStep DEF Packet, Draining, ThreadInv
  <1>14. CASE EmptyEos
    BY <1>1, <1>14 DEF EmptyEos, Draining, flags, codec, ThreadInv
  <1>15. CASE DrainEnds
    BY <1>1, <1>15 DEF DrainEnds, Draining, flags, codec, ThreadInv
  <1>16. CASE TailQueues
    BY <1>1, <1>16 DEF TailQueues, flags, codec, ThreadInv
  <1>17. CASE Throws
    BY <1>1, <1>17 DEF Throws, flags, codec, ThreadInv
  <1>18. CASE Finally
    BY <1>1, <1>18, FinallyStep DEF Finally, Draining, ThreadInv
  <1>19. CASE MicFails
    BY <1>1, <1>19 DEF MicFails, flags, codec, ThreadInv
  <1>20. CASE UNCHANGED vars
    BY <1>1, <1>20 DEF vars, flags, codec, ThreadInv
  <1> QED
    BY <1>2, <1>3, <1>4, <1>5, <1>6, <1>7, <1>8, <1>9, <1>10, <1>11, <1>12, <1>13, <1>14, <1>15, <1>16, <1>17, <1>18, <1>19, <1>20 DEF Next, Screen, Feed, Output

LEMMA QueueKept == RecorderInv /\ [Next]_vars => QueueInv'
  <1> SUFFICES ASSUME RecorderInv, [Next]_vars PROVE QueueInv'
    OBVIOUS
  <1>1. /\ QueueInv
        /\ inputEos \in BOOLEAN /\ framePending \in BOOLEAN
        /\ queue \in Seq(Nat) /\ framesIn \in Nat /\ mux.granule \in Nat
    BY TypesOfState DEF RecorderInv, TypeOK
  <1>2. CASE Start
    <2>1. pc = "off"
      BY <1>2 DEF Start, RecorderInv, ThreadInv
    <2> QED
      BY <1>1, <1>2, <2>1 DEF Start, flags, codec, QueueInv
  <1>3. CASE StopRequested
    BY <1>1, <1>3 DEF StopRequested, flags, codec, QueueInv
  <1>4. CASE Joined
    BY <1>1, <1>4 DEF Joined, flags, codec, QueueInv
  <1>5. CASE LoopEnds
    BY <1>1, <1>5 DEF LoopEnds, flags, codec, QueueInv
  <1>6. CASE QueuesFrame
    <2>1. pc = "feed" /\ ~inputEos
      BY <1>6 DEF QueuesFrame, Turn
    <2>2. Holds(queue, mux.granule, framesIn) /\ Len(queue) = framesIn - mux.granule
      BY <1>1, <2>1 DEF QueueInv, Holds
    <2>3. /\ queue' = Append(queue, framesIn + 1) /\ framesIn' = framesIn + 1
          /\ mux' = mux /\ inputEos' = inputEos
      BY <1>6 DEF QueuesFrame, Turn
    <2>4. Holds(queue', mux.granule, framesIn') /\ Len(queue') = framesIn' - mux.granule
      BY <1>1, <2>2, <2>3, FrameQueued
    <2>5. ~(Len(queue') > framesIn' - mux.granule)
      BY <1>1, <2>3, <2>4
    <2> QED
      BY <2>1, <2>3, <2>4, <2>5 DEF QueueInv
  <1>7. CASE ReadsFrame
    BY <1>1, <1>7 DEF ReadsFrame, Turn, flags, codec, QueueInv
  <1>8. CASE ReadFails
    BY <1>1, <1>8 DEF ReadFails, Turn, flags, codec, QueueInv
  <1>9. CASE QueuesEos
    <2>1. pc = "feed" /\ ~inputEos /\ ~framePending
      BY <1>9 DEF QueuesEos, Turn
    <2>2. Holds(queue, mux.granule, framesIn) /\ Len(queue) = framesIn - mux.granule
      BY <1>1, <2>1 DEF QueueInv, Holds
    <2>3. /\ queue' = Append(queue, Eos) /\ framesIn' = framesIn
          /\ mux' = mux /\ inputEos' = TRUE /\ framePending' = framePending
      BY <1>9 DEF QueuesEos, Turn
    <2>4. Holds(queue', mux.granule, framesIn')
      BY <1>1, <2>2, <2>3, EosQueued
    <2> QED
      BY <2>1, <2>3, <2>4 DEF QueueInv
  <1>10. CASE FeedsNothing
    BY <1>1, <1>10 DEF FeedsNothing, Turn, flags, codec, QueueInv
  <1>11. CASE FormatChanged
    BY <1>1, <1>11, FormatStep DEF FormatChanged, QueueInv
  <1>12. CASE ConfigBuffer
    BY <1>1, <1>12 DEF ConfigBuffer, Draining, flags, codec, QueueInv
  <1>13. CASE Packet
    <2>1. /\ mux'.granule = mux.granule + 1 /\ framesIn' = framesIn
          /\ pc' = pc /\ inputEos' = inputEos /\ framePending' = framePending
          /\ queue # << >> /\ Head(queue) # Eos
      BY <1>13, PacketStep DEF Packet
    <2>2. /\ Holds(Tail(queue), mux.granule + 1, framesIn)
          /\ Len(Tail(queue)) > framesIn - (mux.granule + 1) => Len(queue) > framesIn - mux.granule
          /\ Tail(queue) = <<Eos>> => mux.granule + 1 = framesIn
      BY <1>1, <2>1, FrameTaken DEF QueueInv
    <2>3. CASE queue' = Tail(queue)
      BY <1>1, <2>1, <2>2, <2>3 DEF QueueInv
    <2>4. CASE Tail(queue) = <<Eos>> /\ queue' = << >>
      <3>1. mux'.granule = framesIn' /\ mux'.granule \in Nat
        BY <1>1, <2>1, <2>2, <2>4
      <3>2. Holds(queue', mux'.granule, framesIn')
        BY <2>4, <3>1, NothingQueued
      <3>3. ~(Len(queue') > framesIn' - mux'.granule)
        BY <2>4, <3>1, EmptySeq
      <3> QED
        BY <1>1, <2>1, <3>2, <3>3 DEF QueueInv
    <2> QED
      BY <1>13, <2>3, <2>4 DEF Packet
  <1>14. CASE EmptyEos
    <2>1. /\ queue = <<Eos>> /\ queue' = << >> /\ mux' = mux /\ framesIn' = framesIn
          /\ inputEos' = inputEos /\ framePending' = framePending
      BY <1>14 DEF EmptyEos
    <2>2. Holds(<<Eos>>, mux.granule, framesIn)
      BY <1>1, <2>1 DEF QueueInv
    <2>3. mux.granule = framesIn
      BY <1>1, <2>2, EosTaken
    <2>4. Holds(queue', mux'.granule, framesIn')
      BY <1>1, <2>1, <2>3, NothingQueued
    <2>5. ~(Len(queue') > framesIn' - mux'.granule)
      BY <1>1, <2>1, <2>3, EmptySeq
    <2> QED
      BY <1>1, <2>1, <2>4, <2>5 DEF QueueInv
  <1>15. CASE DrainEnds
    BY <1>1, <1>15 DEF DrainEnds, Draining, flags, codec, QueueInv
  <1>16. CASE TailQueues
    <2>1. /\ pc = "tail" /\ pc' = "tailDrain" /\ mux' = mux /\ framesIn' = framesIn
          /\ inputEos' = inputEos /\ framePending' = framePending
          /\ queue' = IF ~inputEos /\ FreeSlot THEN Append(queue, Eos) ELSE queue
      BY <1>16 DEF TailQueues, flags
    <2>2. CASE ~inputEos /\ FreeSlot
      <3>1. Holds(queue, mux.granule, framesIn) /\ Len(queue) = framesIn - mux.granule
        BY <1>1, <2>1, <2>2 DEF QueueInv, Holds
      <3>2. Holds(queue', mux.granule, framesIn)
        BY <1>1, <2>1, <2>2, <3>1, EosQueued
      <3> QED
        BY <1>1, <2>1, <3>2 DEF QueueInv
    <2>3. CASE ~(~inputEos /\ FreeSlot)
      BY <1>1, <2>1, <2>3 DEF QueueInv
    <2> QED
      BY <2>2, <2>3
  <1>17. CASE Throws
    BY <1>1, <1>17 DEF Throws, flags, codec, QueueInv
  <1>18. CASE Finally
    BY <1>1, <1>18, FinallyStep DEF Finally, codec, QueueInv
  <1>19. CASE MicFails
    BY <1>1, <1>19 DEF MicFails, flags, codec, QueueInv
  <1>20. CASE UNCHANGED vars
    BY <1>1, <1>20 DEF vars, flags, codec, QueueInv
  <1> QED
    BY <1>2, <1>3, <1>4, <1>5, <1>6, <1>7, <1>8, <1>9, <1>10, <1>11, <1>12, <1>13, <1>14, <1>15, <1>16, <1>17, <1>18, <1>19, <1>20 DEF Next, Screen, Feed, Output

LEMMA TailOfAnnounce ==
  ASSUME NEW a \in Announcements \cup {<<"config">>}, a # << >>
  PROVE  Tail(a) \in {<< >>, <<"config">>}
  <1>1. CASE a = <<"format">>
    BY <1>1
  <1>2. CASE a = <<"config">>
    BY <1>2
  <1>3. CASE a = <<"format", "config">>
    BY <1>3
  <1> QED
    BY <1>1, <1>2, <1>3 DEF Announcements

LEMMA TailOfQueue ==
  ASSUME NEW q \in Seq(0 .. MaxFrames), q # << >>
  PROVE  /\ Tail(q) \in Seq(0 .. MaxFrames)
         /\ Len(Tail(q)) = Len(q) - 1 /\ Len(q) \in Nat
  BY HeadTailProperties, LenProperties

\* The types of the variables other than the muxer and the queue
LEMMA SmallTypesKept ==
  RecorderInv /\ [Next]_vars =>
    /\ pc' \in {"off", "feed", "drain", "tail", "tailDrain", "finally", "dead"}
    /\ running' \in BOOLEAN /\ done' \in BOOLEAN /\ inputEos' \in BOOLEAN
    /\ framePending' \in BOOLEAN /\ headWritten' \in BOOLEAN /\ crashed' \in BOOLEAN
    /\ framesIn' \in 0 .. MaxFrames
    /\ mic' \in {"off", "on", "failed", "released"}
    /\ announce' \in Announcements \cup {<<"config">>}
    /\ ui' \in {"idle", "recording", "stopping", "attached", "discarded", "cancelling", "left"}
  <1> DEFINE Small ==
        /\ pc \in {"off", "feed", "drain", "tail", "tailDrain", "finally", "dead"}
        /\ running \in BOOLEAN /\ done \in BOOLEAN /\ inputEos \in BOOLEAN
        /\ framePending \in BOOLEAN /\ headWritten \in BOOLEAN /\ crashed \in BOOLEAN
        /\ framesIn \in 0 .. MaxFrames
        /\ mic \in {"off", "on", "failed", "released"}
        /\ announce \in Announcements \cup {<<"config">>}
        /\ ui \in {"idle", "recording", "stopping", "attached", "discarded", "cancelling", "left"}
  <1> SUFFICES ASSUME RecorderInv, [Next]_vars PROVE Small'
    OBVIOUS
  <1>1. Small
    BY DEF RecorderInv, TypeOK
  <1>2. CASE Start
    BY <1>1, <1>2 DEF Start, flags, codec
  <1>3. CASE StopRequested
    BY <1>1, <1>3 DEF StopRequested, flags, codec
  <1>4. CASE Joined
    BY <1>1, <1>4 DEF Joined, Returned, flags, codec
  <1>5. CASE LoopEnds
    BY <1>1, <1>5 DEF LoopEnds, flags, codec
  <1>6. CASE QueuesFrame
    <2>1. framesIn < MaxFrames /\ framesIn + 1 \in 0 .. MaxFrames
      BY <1>1, <1>6, RecorderAssumption DEF QueuesFrame, Turn, More
    <2> QED
      BY <1>1, <1>6, <2>1 DEF QueuesFrame, Turn, flags, codec
  <1>7. CASE ReadsFrame
    BY <1>1, <1>7 DEF ReadsFrame, Turn, flags, codec
  <1>8. CASE ReadFails
    BY <1>1, <1>8 DEF ReadFails, Turn, flags, codec
  <1>9. CASE QueuesEos
    BY <1>1, <1>9 DEF QueuesEos, Turn, flags, codec
  <1>10. CASE FeedsNothing
    BY <1>1, <1>10 DEF FeedsNothing, Turn, flags, codec
  <1>11. CASE FormatChanged
    <2>1. announce' = Tail(announce) /\ announce # << >>
      BY <1>11 DEF FormatChanged
    <2>2. announce' \in {<< >>, <<"config">>}
      BY <1>1, <2>1, TailOfAnnounce
    <2>3. announce' \in Announcements
      BY <2>2 DEF Announcements
    <2> QED
      BY <1>1, <1>11, <2>3 DEF FormatChanged, flags, codec
  <1>12. CASE ConfigBuffer
    <2>1. announce' = Tail(announce) /\ announce # << >>
      BY <1>12 DEF ConfigBuffer
    <2>2. announce' \in {<< >>, <<"config">>}
      BY <1>1, <2>1, TailOfAnnounce
    <2>3. announce' \in Announcements
      BY <2>2 DEF Announcements
    <2> QED
      BY <1>1, <1>12, <2>3 DEF ConfigBuffer, flags, codec
  <1>13. CASE Packet
    <2>1. done' \in BOOLEAN
      <3>1. SeesEos(FALSE) \/ SeesEos(TRUE)
        BY <1>13 DEF Packet
      <3> QED
        BY <3>1 DEF SeesEos
    <2>2. headWritten' = TRUE
      BY <1>13 DEF Packet
    <2>3. UNCHANGED <<pc, running, inputEos, framePending, framesIn, mic, announce, crashed, ui>>
      BY <1>13 DEF Packet
    <2> QED
      BY <1>1, <2>1, <2>2, <2>3
  <1>14. CASE EmptyEos
    BY <1>1, <1>14 DEF EmptyEos, SeesEos, flags, codec
  <1>15. CASE DrainEnds
    BY <1>1, <1>15 DEF DrainEnds, flags, codec
  <1>16. CASE TailQueues
    BY <1>1, <1>16 DEF TailQueues, flags, codec
  <1>17. CASE Throws
    BY <1>1, <1>17 DEF Throws, flags, codec
  <1>18. CASE Finally
    BY <1>1, <1>18 DEF Finally, flags, codec
  <1>19. CASE MicFails
    BY <1>1, <1>19 DEF MicFails, flags, codec
  <1>20. CASE UNCHANGED vars
    BY <1>1, <1>20 DEF vars, flags, codec
  <1> HIDE DEF Small
  <1> QED
    BY <1>2, <1>3, <1>4, <1>5, <1>6, <1>7, <1>8, <1>9, <1>10, <1>11, <1>12, <1>13, <1>14, <1>15, <1>16, <1>17, <1>18, <1>19, <1>20 DEF Next, Screen, Feed, Output

LEMMA QueueTypeKept ==
  RecorderInv /\ [Next]_vars => queue' \in Seq(0 .. MaxFrames) /\ Len(queue') <= InputSlots
  <1> SUFFICES ASSUME RecorderInv, [Next]_vars
               PROVE  queue' \in Seq(0 .. MaxFrames) /\ Len(queue') <= InputSlots
    OBVIOUS
  <1>1. /\ queue \in Seq(0 .. MaxFrames) /\ Len(queue) <= InputSlots
        /\ framesIn \in 0 .. MaxFrames
        /\ MaxFrames \in Nat /\ InputSlots \in Nat
    BY RecorderAssumption DEF RecorderInv, TypeOK
  <1>2. ASSUME NEW e \in 0 .. MaxFrames, FreeSlot
        PROVE  Append(queue, e) \in Seq(0 .. MaxFrames) /\ Len(Append(queue, e)) <= InputSlots
    <2>1. /\ Append(queue, e) \in Seq(0 .. MaxFrames)
          /\ Len(Append(queue, e)) = Len(queue) + 1 /\ Len(queue) \in Nat
      BY <1>1, AppendProperties, LenProperties
    <2> QED
      BY <1>1, <1>2, <2>1 DEF FreeSlot
  <1>3. CASE QueuesFrame
    <2>1. FreeSlot /\ framesIn + 1 \in 0 .. MaxFrames /\ queue' = Append(queue, framesIn + 1)
      BY <1>1, <1>3 DEF QueuesFrame, Turn, More
    <2> QED
      BY <1>2, <2>1
  <1>4. Eos \in 0 .. MaxFrames
    BY <1>1 DEF Eos
  <1>5. CASE QueuesEos
    BY <1>2, <1>4, <1>5 DEF QueuesEos, Turn
  <1>6. CASE TailQueues
    BY <1>1, <1>2, <1>4, <1>6 DEF TailQueues
  <1>7. << >> \in Seq(0 .. MaxFrames) /\ Len(<< >>) <= InputSlots
    BY <1>1, EmptySeq
  <1>8. CASE Packet
    <2>1. queue # << >> /\ (queue' = Tail(queue) \/ queue' = << >>)
      BY <1>8 DEF Packet
    <2>2. Tail(queue) \in Seq(0 .. MaxFrames) /\ Len(Tail(queue)) <= InputSlots
      BY <1>1, <2>1, TailOfQueue
    <2> QED
      BY <1>7, <2>1, <2>2
  <1>9. CASE EmptyEos
    BY <1>7, <1>9 DEF EmptyEos
  <1>10. CASE UNCHANGED queue
    BY <1>1, <1>10
  <1>11. QueuesFrame \/ QueuesEos \/ TailQueues \/ Packet \/ EmptyEos \/ UNCHANGED queue
    BY DEF Next, Screen, Feed, Output, Start, StopRequested, Joined, LoopEnds, ReadsFrame, ReadFails,
           FeedsNothing, Turn, FormatChanged, ConfigBuffer, DrainEnds, Throws, Finally, MicFails,
           vars, flags, codec
  <1> QED
    BY <1>3, <1>5, <1>6, <1>8, <1>9, <1>10, <1>11

LEMMA InvStep == RecorderInv /\ [Next]_vars => RecorderInv'
  <1> SUFFICES ASSUME RecorderInv, [Next]_vars PROVE RecorderInv'
    OBVIOUS
  <1>1. StreamInv' /\ ThreadInv' /\ QueueInv'
    BY StreamKept, ThreadKept, QueueKept
  <1>2. mux'.granule \in 0 .. MaxFrames /\ mux'.finished \in BOOLEAN
    <2>1. mux' \in Muxer /\ Holds(queue', mux'.granule, framesIn')
      BY <1>1 DEF StreamInv, QueueInv
    <2>2. mux'.granule \in Nat /\ mux'.finished \in BOOLEAN
      BY <2>1, MuxerIs
    <2>3. mux'.granule <= framesIn' /\ framesIn' \in 0 .. MaxFrames
      BY <2>1, <2>2, SmallTypesKept DEF Holds
    <2> QED
      BY <2>2, <2>3, RecorderAssumption
  <1>3. TypeOK'
    BY <1>2, SmallTypesKept, QueueTypeKept DEF TypeOK
  <1> QED
    BY <1>1, <1>3 DEF RecorderInv

LEMMA Invariant == Spec => []RecorderInv
  BY InvInit, InvStep, PTL DEF Spec

-----------------------------------------------------------------------------
(* The theorems *)

\* Recorder, muxer, encoder and screen are in their types in every state: no
\* more frames are counted than fit into five minutes, and no more buffers are
\* queued than the encoder has.
THEOREM TypeCorrect == Spec => []TypeOK
  <1>1. RecorderInv => TypeOK
    BY DEF RecorderInv
  <1> QED
    BY Invariant, <1>1, PTL

\* The file is well formed whenever there is audio in it, for packets and pages
\* of any size (handlePacket, writeHeaderOnce, finish).
THEOREM StreamIsWellFormed == Spec => []StreamWellFormed
  <1>1. RecorderInv => StreamWellFormed
    <2> SUFFICES ASSUME RecorderInv, mux.granule > 0 PROVE StreamWellFormed
      BY DEF StreamWellFormed
    <2>1. Streams(mux)
      <3>1. mux.granule # 0
        OBVIOUS
      <3> QED
        BY <3>1 DEF RecorderInv, StreamInv, Blank
    <2>2. mux.finished => mux.pages[Len(mux.pages)].granule = mux.granule
      <3> HAVE mux.finished
      <3>1. mux.pending = << >> /\ mux.granule = Paged(mux) + Len(mux.pending)
        BY <2>1 DEF Streams
      <3>2. Len(mux.pending) = 0
        BY <3>1, EmptySeq
      <3>3. mux \in Muxer /\ Len(mux.pages) >= 2
        BY <2>1 DEF RecorderInv, StreamInv, Streams
      <3>4. Paged(mux) \in Nat
        <4>1. mux.pages \in Seq(Page) /\ Len(mux.pages) \in Nat
          BY <3>3, MuxerIs, LenProperties
        <4>2. mux.pages[Len(mux.pages)] \in Page
          BY <3>3, <4>1, ElementOfSeq
        <4> QED
          BY <4>2 DEF Paged, Page
      <3> QED
        BY <3>1, <3>2, <3>4 DEF Paged
    <2> QED
      BY <2>1, <2>2 DEF Streams, Follow, HeadPage, TagsPage, StreamWellFormed
  <1> QED
    BY Invariant, <1>1, PTL

\* No frame read from the microphone is lost on the way to the end of the
\* stream, whenever the recording is stopped (feedInput, handlePacket).
THEOREM NothingIsLost == Spec => []NothingLost
  <1>1. RecorderInv => NothingLost
    <2> SUFFICES ASSUME RecorderInv, pc = "dead", queue = << >>, inputEos
                 PROVE  ~framePending /\ mux.granule = framesIn
      BY DEF NothingLost
    <2>1. Holds(queue, mux.granule, framesIn) /\ ~framePending
      BY DEF RecorderInv, QueueInv
    <2>2. Len(queue) = 0
      BY EmptySeq
    <2> QED
      BY <2>1, <2>2, TypesOfState DEF RecorderInv, Holds
  <1> QED
    BY Invariant, <1>1, PTL

\* What is attached is a finished file, and the microphone is free again, unless
\* the microphone had failed (stop, the finally block of the thread).
THEOREM AttachedFilesAreFinished == Spec => []AttachedIsFinished
  <1>1. RecorderInv => AttachedIsFinished
    <2> SUFFICES ASSUME RecorderInv, ui = "attached", mic # "failed"
                 PROVE  /\ mic = "released"
                        /\ mux.pages[Len(mux.pages)].type = "EOS"
                        /\ mux.pending = << >>
      BY DEF AttachedIsFinished
    <2>1. mic = "released" /\ mux.finished
      BY DEF RecorderInv, ThreadInv
    <2>2. CASE headWritten
      BY <2>1, <2>2 DEF RecorderInv, StreamInv, Streams
    <2>3. CASE ~headWritten
      BY <2>1, <2>3 DEF RecorderInv, StreamInv, Blank
    <2> QED
      BY <2>1, <2>2, <2>3
  <1> QED
    BY Invariant, <1>1, PTL

-----------------------------------------------------------------------------
(* The safety half of StopEnds *)

\* While the loop still waits for the end of the stream after its input has
\* ended, the mark of the end is the last thing in the encoder; only a failed
\* microphone ends the input without one.
EndIsComing ==
    /\ inputEos => pc # "off"
    /\ pc \in {"feed", "drain"} /\ inputEos /\ ~done /\ mic # "failed" =>
           queue # << >> /\ queue[Len(queue)] = Eos

LEMMA EndIn ==
  ASSUME RecorderInv, EndIsComing, QueuesEos
  PROVE  EndIsComing'
  <1>1. /\ queue \in Seq(0 .. MaxFrames) /\ Eos \in 0 .. MaxFrames
        /\ queue' = Append(queue, Eos) /\ pc' = "drain"
    BY TypesOfState, RecorderAssumption DEF QueuesEos, Turn, Eos, RecorderInv, TypeOK
  <1> DEFINE after == Append(queue, Eos)
  <1>2. Len(after) = Len(queue) + 1 /\ after[Len(queue) + 1] = Eos /\ Len(queue) \in Nat
    BY <1>1, AppendProperties, LenProperties
  <1>3. after # << >>
    BY <1>2
  <1> HIDE DEF after
  <1> QED
    BY <1>1, <1>2, <1>3 DEF EndIsComing, after

\* A packet is not the mark, and the last one takes the mark along.
LEMMA EndStays ==
  ASSUME RecorderInv, EndIsComing, Packet
  PROVE  EndIsComing'
  <1>1. queue \in Seq(0 .. MaxFrames) /\ queue # << >> /\ Head(queue) # Eos
        /\ UNCHANGED <<pc, inputEos, mic>> /\ Draining /\ done \in BOOLEAN
    BY TypesOfState DEF Packet, RecorderInv, TypeOK
  <1>2. CASE queue' = Tail(queue) /\ SeesEos(FALSE)
    <2> SUFFICES ASSUME queue[Len(queue)] = Eos
                 PROVE  Tail(queue) # << >> /\ Tail(queue)[Len(Tail(queue))] = Eos
      BY <1>1, <1>2 DEF EndIsComing, SeesEos
    <2> DEFINE rest == Tail(queue)
               n == Len(queue)
    <2>1. /\ n \in Nat /\ n # 0 /\ rest \in Seq(0 .. MaxFrames) /\ Len(rest) = n - 1
          /\ Head(queue) = queue[1] /\ \A i \in 1 .. Len(rest) : rest[i] = queue[i + 1]
      BY <1>1, HeadTailProperties, LenProperties, EmptySeq
    <2>2. n # 1
      BY <1>1, <2>1
    <2> HIDE DEF rest, n
    <2>3. n - 1 \in 1 .. Len(rest) /\ (n - 1) + 1 = n
      BY <2>1, <2>2
    <2>4. rest[n - 1] = queue[n]
      BY <2>1, <2>3
    <2>5. rest # << >>
      BY <2>1, <2>2, <2>3
    <2> QED
      BY <2>1, <2>4, <2>5 DEF rest, n
  <1>3. CASE queue' = << >> /\ SeesEos(TRUE)
    BY <1>1, <1>3 DEF EndIsComing, SeesEos, Draining
  <1> QED
    BY <1>2, <1>3 DEF Packet

LEMMA EndStep == RecorderInv /\ EndIsComing /\ [Next]_vars => EndIsComing'
  <1> SUFFICES ASSUME RecorderInv, EndIsComing, [Next]_vars PROVE EndIsComing'
    OBVIOUS
  <1>1. CASE Start
    BY <1>1 DEF Start, EndIsComing, RecorderInv, ThreadInv
  <1>2. CASE StopRequested \/ Joined \/ UNCHANGED vars
    <2>1. UNCHANGED <<pc, inputEos, done, mic, queue>>
      BY <1>2 DEF StopRequested, Joined, vars, flags, codec
    <2> QED
      BY <2>1 DEF EndIsComing
  <1>3. CASE LoopEnds \/ TailQueues \/ Throws \/ Finally
    <2>1. pc' \notin {"off", "feed", "drain"}
      BY <1>3 DEF LoopEnds, TailQueues, Throws, Finally
    <2> QED
      BY <2>1 DEF EndIsComing
  <1>4. CASE QueuesFrame \/ ReadsFrame
    <2>1. ~inputEos' /\ pc' = "drain"
      BY <1>4 DEF QueuesFrame, ReadsFrame, Turn
    <2> QED
      BY <2>1 DEF EndIsComing
  <1>5. CASE ReadFails
    <2>1. mic' = "failed" /\ pc' = "drain"
      BY <1>5 DEF ReadFails, Turn
    <2> QED
      BY <2>1 DEF EndIsComing
  <1>6. CASE QueuesEos
    BY <1>6, EndIn
  <1>7. CASE FeedsNothing
    <2>1. UNCHANGED <<inputEos, done, mic, queue>> /\ pc = "feed" /\ pc' = "drain"
      BY <1>7 DEF FeedsNothing, Turn
    <2> QED
      BY <2>1 DEF EndIsComing
  <1>8. CASE FormatChanged \/ ConfigBuffer
    <2>1. UNCHANGED <<pc, inputEos, done, mic, queue>>
      BY <1>8 DEF FormatChanged, ConfigBuffer, flags
    <2> QED
      BY <2>1 DEF EndIsComing
  <1>9. CASE Packet
    BY <1>9, EndStays
  <1>10. CASE EmptyEos
    BY <1>10 DEF EmptyEos, SeesEos, Draining, EndIsComing
  <1>11. CASE DrainEnds
    <2>1. UNCHANGED <<inputEos, done, mic, queue>> /\ pc' \in {"feed", "finally"}
          /\ (pc' = "feed" => pc = "drain")
      BY <1>11 DEF DrainEnds, flags, codec
    <2> QED
      BY <2>1 DEF EndIsComing
  <1>12. CASE MicFails
    <2>1. mic' = "failed" /\ UNCHANGED <<pc, inputEos>>
      BY <1>12 DEF MicFails, flags
    <2> QED
      BY <2>1 DEF EndIsComing
  <1> QED
    BY <1>1, <1>2, <1>3, <1>4, <1>5, <1>6, <1>7, <1>8, <1>9, <1>10, <1>11, <1>12
       DEF Next, Screen, Feed, Output

\* The thread never waits for an end of the stream that nobody has queued:
\* whatever buffer the encoder ends with and whenever the stop comes, the mark
\* is still in the encoder or has been seen.  That the encoder puts it out is
\* the fairness of FairSpec.
THEOREM TheEndIsComing == Spec => []EndIsComing
  <1>1. Init => EndIsComing
    BY DEF Init, EndIsComing
  <1> QED
    BY <1>1, EndStep, Invariant, PTL DEF Spec

=============================================================================
