------------------------- MODULE MCArtifactRegistration -------------------------
(* Instances of ArtifactRegistration for TLC: namespaces a and a b, prompts *)
(* that meet in one file name, and each adapter with its special cases.     *)
EXTENDS ArtifactRegistration

MCPresent == <<Path(<<"a">>, "video", <<"a", "b", "c">>, 1), Path(<<"a">>, "video", <<"b">>, 1)>>

Ask(adapter, words, out, namespace, parents, videos) ==
  [adapter |-> adapter, words |-> words, out |-> out, namespace |-> namespace, parents |-> parents,
   videos |-> videos, stored |-> TRUE, recorded |-> TRUE]

MCRequests ==
  {Ask("make_short", <<"b", "c">>, NoOut, <<"a">>, <<1, 1>>, <<>>),
   Ask("make_short", <<"c">>, NoOut, <<"a", "b">>, <<9>>, <<>>),
   Ask("elevenlabs", <<>>, Outside("tiktok", <<"b">>), <<"a">>, <<>>, <<>>),
   Ask("elevenlabs", <<>>, Path(<<"a">>, "video", <<"d">>, 1), <<"a">>, <<2>>, <<>>),
   Ask("expand_ltx", <<>>, NoOut, NoName, <<>>, <<>>),
   Ask("expand_ltx", <<>>, Outside("flows", <<"d">>), <<"..">>, <<>>, <<>>),
   Ask("tiktok", <<>>, NoOut, <<"a">>, <<2>>, << <<"1">> >>),
   Ask("tiktok", <<>>, NoOut, <<"a">>, <<9>>, << <<"1">> >>),
   Ask("f5", <<"b">>, Outside("videos", <<"b">>), <<"a">>, <<1, 2>>, <<>>),
   Ask("tiktok", <<>>, NoOut, <<"a">>, <<>>, << <<"1">>, <<>> >>),
   [Ask("make_short", <<>>, NoOut, NoName, <<>>, <<>>) EXCEPT !.stored = FALSE],
   [Ask("f5", <<"d">>, NoOut, <<"a">>, <<>>, <<>>) EXCEPT !.recorded = FALSE]}

Symmetry == Permutations(Runs)

===============================================================================
