----------------------------- MODULE MCInstalls -----------------------------
(* Two installers, of projects of their own or of one, and packages that     *)
(* share a dependency and a model.                                           *)
EXTENDS InstallsInv

Needs == [app |-> <<"lib">>, tool |-> <<"lib">>, lib |-> <<>>]
Pins  == [app |-> Absent, tool |-> "net", lib |-> "net"]

Of(links, clearing, projects) ==
  [asks |-> <<"app", "tool">>, project |-> projects, needs |-> Needs,
   pins |-> Pins, links |-> links, cache |-> TRUE, clears |-> clearing, busy |-> TRUE]

Posix == {"hard", "symlink"}

\* Both ask for one package, and the cache is cleared meanwhile.
Race(links) == [Of(links, 1, <<"p", "q">>) EXCEPT !.asks = <<"lib", "lib">>]
\* It is cleared between installs only.
Between(links) == [Race(links) EXCEPT !.busy = FALSE]
\* One asks for the package the other depends on, where no link can be made.
Under == [Of({}, 0, <<"p", "q">>) EXCEPT !.asks = <<"app", "lib">>]
\* A cache that cannot be written, and packages that depend on each other.
Uncached == [Of(Posix, 0, <<"p", "q">>) EXCEPT !.cache = FALSE]
Loop == [Uncached EXCEPT !.needs = [Needs EXCEPT !.lib = <<"tool">>]]

Several == {Race(Posix), Race({"hard"}), Between(Posix), Between({"symlink"}),
            Of({}, 0, <<"p", "p">>), Under, Uncached, Loop}

\* The cache is cleared while nobody installs.
Cleared == {Between(links) : links \in {Posix, {"symlink"}, {}}}
=============================================================================
