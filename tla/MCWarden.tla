------------------------------ MODULE MCWarden ------------------------------
EXTENDS Warden
F(p, r) == [path |-> p, kind |-> "file", relative |-> r]
D(p) == [path |-> p, kind |-> "dir", relative |-> FALSE]
Passwd == <<"etc", "passwd">>
MCName == {"usr", "lib", "ld", "sys", "proc", "dev", "tmp", "run", "dbus",
           "etc", "passwd", "opt", "ssl", "x", "bin"}
MCNamespaces == {"NewMount", "NewNetwork"}
MCImports ==
  { << >>,
    << F(Passwd, FALSE), D(<<"opt">>) >>,
    << F(Passwd, FALSE), D(<<"etc">>) >>,          \* hidden by a later import
    << D(<<"etc">>), D(<<"etc", "ssl">>) >>,       \* on an earlier import
    << D(<<"opt">>), D(<<"run", "x">>) >>,         \* below a system mount
    << D(<<"run", "dbus">>) >>,                    \* at a mount of warden's own
    << D(<<"opt">>), D(<<"opt">>) >>,              \* twice
    << F(Passwd, FALSE), F(Passwd, FALSE) >>,
    << F(<<"usr", "bin">>, TRUE) >>,
    << [path |-> <<"opt">>, kind |-> "missing", relative |-> FALSE] >> }
=============================================================================
