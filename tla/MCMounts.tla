------------------------------ MODULE MCMounts ------------------------------
EXTENDS Mounts
Id == <<"a05ef6ce", "e186", "415f", "bf90", "d70f6566ea6f">>
Entry(lookup, id, dest, opts) ==
  [kind |-> "entry", fields |-> 6, src |-> [lookup |-> lookup, id |-> id],
   dest |-> dest, opts |-> opts]
Plain(dest, opts) == Entry("path", <<"sda">>, dest, opts)
Comment == [kind |-> "comment"]
Home == <<"home">>
MCFstabs ==
  { << Comment >>,
    << Plain(Root, << "ro" >>), Comment, Plain(Home, << "defaults" >>) >>,
    << Plain(Root, << "remount" >>) >>,
    << Plain(Home, << >>), Plain(<<"home", "u">>, << "nosuid", "nosuid" >>) >>,
    << Plain(Home, << "bind" >>), Plain(Home, << "private" >>), Plain(Root, << "private" >>) >>,
    << Plain(Home, << "bind", "bind" >>) >>,
    << Entry("LABEL", <<"data">>, Home, << "rw" >>), Plain(<<"sys", "fs", "cgroup">>, << >>) >>,
    << Plain(<<"sys", "fs">>, << >>), Plain(<<"sys", "fs", "cgroup">>, << >>) >>,
    << Entry("LABEL", <<"gone">>, Home, << >>) >>,
    << Entry("UUID", Id, Home, << >>) >>,
    << Entry("UUID", << "a05ef6ce" >>, Home, << >>) >>,
    << Entry("DEVICE", << "x" >>, Home, << >>) >>,
    << [Plain(Home, << >>) EXCEPT !.fields = 4] >> }
MCName == {"proc", "sys", "dev", "run", "tmp", "pts", "fs", "cgroup", "kickit",
           "home", "u", "x", "mnt", "a", "service", "c", "user"}
MCLinks == { <<"by-label", <<"data">>>>, <<"by-uuid", Canonical(Id)>> }
MCOthers == { <<"home", "u", "x">>, <<"mnt">>, <<"mnt", "a">>, <<"dev", "pts">>,
              <<"run", "kickit", "service", "c">>, <<"run", "user">> }
=============================================================================
