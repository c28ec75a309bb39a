---------------------------- MODULE MCBootGuard ----------------------------
(* The limit of the crash guard is the code's own.  The screen has a       *)
(* header of two lines, two rows of two and a strip of one; the card a     *)
(* directory that just fits the list with its way up, and one that does    *)
(* not.                                                                    *)
EXTENDS AppLife

Entry(kind, name) == [kind |-> kind, name |-> name]
MCCard ==
  <<>>     :> <<Entry("other", 1), Entry("rom", 2), Entry("dir", 5), Entry("dir", 3)>> @@
  <<3>>    :> <<Entry("rom", 4), Entry("dir", 2), Entry("rom", 1)>> @@
  <<3, 2>> :> <<>> @@
  <<5>>    :> <<Entry("rom", 4), Entry("rom", 1), Entry("rom", 3), Entry("rom", 2), Entry("rom", 5)>>
==============================================================================
