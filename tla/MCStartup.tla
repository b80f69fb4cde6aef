----------------------------- MODULE MCStartup -----------------------------
(* Small configuration files, and paths made of "/", "a" and "b". *)
EXTENDS Startup

CONSTANTS www, other, cert, key, localhost

MCDefaults ==
    [address |-> localhost, port |-> 8080, threads |-> 8, use_ssl |-> FALSE, www_root |-> www,
     cert_file |-> cert, key_file |-> key, mounts |-> << >>]

Section(name) == [kind |-> "section", name |-> name]
Pair(k, v) == [kind |-> "pair", key |-> k, value |-> v]
Mount(prefix, root) == [prefix |-> prefix, root |-> root]

\* -131000 wraps around to a port, -1 does not, 131072 = 2^17 is out of range.
MCLines ==
    { [kind |-> "skip"], Section("server"), Section("ssl"), Section("static"), Section("misc"),
      Pair("port", 8081), Pair("port", -131000), Pair("port", 65536), Pair("threads", 0),
      Pair("threads", -1), Pair("threads", 131072), Pair("www_root", NoPath), Pair("use_ssl", TRUE),
      Pair("cert_file", other), Pair("mount", Mount(<< "/" >>, other)),
      Pair("mount", Mount(<< "/", "a" >>, other)), Pair("mount", Junk) }

MCPaths == { << "/" >>, << "/", "a" >>, << "/", "a", "/", "/", "b" >>, << "/", "a", "b" >>}
MCPrefixes == { << >>, << "/", "a" >>, << "/", "a", "/" >> }
MCRoots == {www}

MCFiles == { << www, << "a", "b" >> >>, << www, << "b" >> >>, << other, << "b" >> >>,
             << other, << "index.html" >> >>, << www, << "a", "/", "/", "b" >> >> }
MCFolders == { << www, << "a" >> >> }
MCOutside == { << other, << "a", "b" >> >> }
=============================================================================
