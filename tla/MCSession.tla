----------------------------- MODULE MCSession -----------------------------
(***************************************************************************)
(* Instances of Session for TLC: addresses of five bits, eleven ports, and *)
(* a command line of up to three arguments.                                *)
(***************************************************************************)
EXTENDS Session

MCSegments == << <<8, 9>>, <<3, 7>>, <<10, 11>>, <<1, 2>> >>

MCTexts ==
  { Literal(<<4, 7>>), Literal(<<6, 1>>), Zoned(1, 2), Host("h"), Blank }
    \union {Cidr(<<4, 13>>, mask) : mask \in {0, 1, 2, 3, 5, 6, 9}}
    \union {Cidr(<<4, 31>>, 3), Cidr(<<6, 1>>, 5)}

MCArguments ==
  {Argument("target", text) : text \in MCTexts}
    \union {Argument("--range", r) : r \in {<<0, 10>>, <<0, 11>>, <<2, 4>>, <<4, 3>>, <<11, 11>>, <<1, 12>>}}
    \union {Argument("--threads", t) : t \in {AutoThreads, MaxThreads, FixedThreads(0), FixedThreads(4), FixedThreads(5)}}
    \union {Argument("--timeout-fast", 5), Argument("--timeout-slow", 40000),
            Argument("--timeout", 20)}
    \union {Argument(flag, 0) : flag \in
              {"--verify", "--no-verify", "--first", "--all", "bad", "--help"}}

MCEdits == {Blank, Host("h"), Cidr(<<4, 13>>, 3), Cidr(<<4, 13>>, 9)}
MCRangeEdits == {<<>>, <<5>>, <<4, 3>>, <<1, 11>>, <<0, 10>>}
MCResolutions == {<<>>, << <<6, 1>>, <<4, 3>> >>, << <<4, 3>>, <<4, 3>> >>}
MCRows == {<< <<4, 3>> >>, << <<6, 1>>, <<4, 3>>, <<6, 2>> >>}
MCLinkLocal == {<<6, 1>>}
===========================================================================
