--------------------------- MODULE MCInflateUsers ---------------------------
(* Model checking of InflateStream and of its users. *)
EXTENDS InflateUsers

\* One block; two; one that expands so much that little of it fills the target.
Raw == [fmt |-> "raw", flags |-> {}, extra |-> 0, name |-> 0, fdict |-> FALSE, refs |-> 0,
        bit |-> <<3, 5, 6, 8>>, out |-> <<0, 4, 10, 11>>, hdr |-> {1}, bad |-> "none"]
TwoBlocks == [Raw EXCEPT !.bit = <<1, 3, 5, 6>>, !.out = <<0, 4, 4, 5>>, !.hdr = {1, 3}]
Dense == [Raw EXCEPT !.bit = <<5, 6, 7>>, !.out = <<0, 4, 8>>]

Zlib == [TwoBlocks EXCEPT !.fmt = "zlib"]
Short == [Zlib EXCEPT !.bit = <<1, 3, 4>>, !.out = <<0, 3, 4>>, !.hdr = {1}]
DenseZlib == [Dense EXCEPT !.fmt = "zlib"]
Late == [Zlib EXCEPT !.bit = <<1, 3, 5>>, !.out = <<0, 1, 1>>, !.hdr = {1}]
Plainest == [Zlib EXCEPT !.bit = <<1, 3, 4>>, !.out = <<0, 1, 1>>, !.hdr = {1}]
WithDictionary == [Short EXCEPT !.fdict = TRUE, !.refs = 4]
Gzip == [TwoBlocks EXCEPT !.fmt = "gzip", !.flags = {"hcrc", "extra", "name"}, !.extra = 2,
                          !.name = 2]

MCMembersOf ==
  [app |-> {Raw, [Short EXCEPT !.fmt = "raw"], WithDictionary, Gzip},
   uncompress |-> {Zlib, [Zlib EXCEPT !.bad = "trailer"], WithDictionary, DenseZlib, Plainest, Late},
   gzread |-> {Zlib, [Dense EXCEPT !.fmt = "gzip"], [Zlib EXCEPT !.bad = "body"]}]
MCMembers == UNION {MCMembersOf[u] : u \in DOMAIN MCMembersOf}
MCAgain == {Zlib}
MCWraps == {{}, {"gzip"}, {"zlib", "gzip"}}
MCTrailers == [raw |-> 0, zlib |-> 1, gzip |-> 2]

\* What the theorem that no error is false supposes.
ASSUME HeadersFitHere == HeadersFit
=============================================================================
