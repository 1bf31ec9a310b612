---------------------------- MODULE MCRedownload ----------------------------
(* Redownload for TLC: two tracks, in two folders, or one of them missing.      *)
EXTENDS Redownload

McFiles == {<<"1", "a">>, <<"1", "b">>, <<"2", "b">>}
McBeginnings == {{<<"1", "a">>, <<"2", "b">>}, {<<"1", "a">>}}
McDownloads == {{<<"1", "a">>}, {<<"1", "a">>, <<"1", "b">>}}
McLength == [r |-> 2, s |-> 2]

=============================================================================
