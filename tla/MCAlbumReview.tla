---------------------------- MODULE MCAlbumReview ----------------------------
(***************************************************************************)
(* A small instance of AlbumReview: an album of two files, a folder that    *)
(* may hold its second disc, and a release MusicBrainz reorders, extends    *)
(* with a second disc, gives a pregap, or merges into another.              *)
(***************************************************************************)
EXTENDS AlbumReview

Track(rtid, rec, disc, num, len) ==
  [rtid |-> rtid, rec |-> rec, disc |-> disc, num |-> num, len |-> len]
Release(id, tracks) == [id |-> id, tracks |-> tracks, video |-> {}]

One == Track("t1", "x", 1, 1, 20)
Two == Track("t2", "y", 1, 2, 40)

Plain == Release("r", <<One, Two>>)
Reordered == Release("r", <<[Two EXCEPT !.num = 1], [One EXCEPT !.num = 2]>>)
TwoDiscs == Release("r", <<One, Two, Track("t3", "z", 2, 1, 60)>>)
WithPregap == Release("r", <<Track("t0", "w", 1, 0, 10), [One EXCEPT !.len = 10], Two>>)
VideoFirst == [Release("r", <<Track("v1", "m", 1, 1, 20), Track("v2", "n", 1, 2, 40),
                              [One EXCEPT !.disc = 2], [Two EXCEPT !.disc = 2]>>)
               EXCEPT !.video = {1}]
OtherEdition == Release("s", <<Track("u1", "x", 1, 1, 20), Track("u2", "y", 1, 2, 40)>>)
LiveEdition == Release("s", <<Track("u1", "x", 1, 1, 20), Track("u2", "v", 1, 2, 60)>>)

World(r, s) == [id \in {"r", "s"} |-> IF id = "r" THEN r ELSE s]
McWorlds == {World(Plain, LiveEdition), World(Reordered, LiveEdition),
             World(TwoDiscs, LiveEdition), World(WithPregap, LiveEdition), World(VideoFirst, LiveEdition),
             World(OtherEdition, OtherEdition)}   \* the last: r merged into s

File(audio, len) == [file |-> audio, len |-> len, ok |-> TRUE] @@ Unread
Wearing(tags, file) == tags @@ file

Numbered(n) == [num |-> n]
Ripped(rec, n) == [rec |-> rec, num |-> n, disc |-> 1, album |-> "r"]

FileA == File("a", 20)
FileB == File("b", 40)
FileC == File("c", 60)

Side(release, suggestion) == [release |-> release, candidate |-> suggestion, pregaps |-> {}]
Start(a, b, said) == [on |-> ("1" :> <<a, b>>) @@ ("2" :> <<FileC>>), side |-> said]

McStarts ==
  {Start(FileA, FileB, Side(None, None)),
   Start(Wearing(Numbered(2), FileB), Wearing(Numbered(1), FileA), Side(None, None)),
   Start(FileB, Wearing(Numbered(1), FileA), Side(None, "r")),
   Start(Wearing(Ripped("y", 2), FileB), Wearing(Ripped("x", 1), FileA), Side("r", None)),
   Start(Wearing([num |-> 1], FileA), Wearing([num |-> 2], FileB), Side("r", None)),
   Start(TaggedAs(FileB, Plain, 2), TaggedAs(FileA, Plain, 1), Side("r", None)),
   Start(TaggedAs(FileA, Plain, 1), FileB, Side("r", None))}

McFolders == <<"1", "2">>
McElsewhere == {[num |-> None, disc |-> None], [rtid |-> "t1", rec |-> "x"]}

=============================================================================
