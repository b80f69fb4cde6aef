---------------------------- MODULE ServerConfig ----------------------------
(***************************************************************************)
(* load_config (config.cpp): one pass over the lines of a file, with a     *)
(* current section, defaults, and exceptions for the values that do not    *)
(* parse.  A line is skipped (a comment, an empty line, one without "="),  *)
(* or a section header, or a key with its value.  A path is a model value; *)
(* a number is the integer at the start of the text, sign included; Junk   *)
(* is text that does not parse.                                            *)
(***************************************************************************)
EXTENDS Integers, SequencesExt

CONSTANTS
    Lines,     \* the lines a file may have
    Defaults,  \* the ServerConfig of the constructor
    Junk,      \* text that is no number, no truth value and no mount
    ULongBits  \* the width of unsigned long

MaxPort == 65535

Keys == {"address", "port", "threads", "use_ssl", "www_root", "cert_file", "key_file", "mounts"}

ASSUME ConfigAssumption ==
    /\ 2^ULongBits \in Nat /\ MaxPort < 2^ULongBits
    /\ Defaults = [key \in Keys |-> Defaults[key]] /\ Defaults.mounts = <<>>
    /\ Defaults.port \in 0 .. MaxPort /\ Defaults.threads \in 0 .. 2^ULongBits - 1

\* A number is an integer.
ASSUME LinesAssumption ==
    \A l \in Lines :
        /\ l.kind \in {"skip", "section", "pair"}
        /\ l.kind = "pair" /\ l.key \in {"port", "threads"} /\ l.value # Junk =>
               l.value \in Int

VARIABLES
    lines,    \* the lines read so far
    section,  \* the current section
    cfg,      \* the ServerConfig being filled in
    loading   \* "reading", "threw" or "returned"

configVars == << lines, section, cfg, loading >>

-----------------------------------------------------------------------------
\* A negative number is accepted and wraps around.
stoul(v) == v % 2^ULongBits

\* A number whose digits do not fit makes stoul throw, whatever its sign.
InRange(v) == v < 2^ULongBits /\ -v < 2^ULongBits

parse_unsigned_short(v) == v # Junk /\ InRange(v) /\ stoul(v) <= MaxPort

parse_size_t(v) == v # Junk /\ InRange(v)

parse_bool(v) == v # Junk

\* The values that end the loading with an exception.
Refused(s, l) ==
    \/ s = "server" /\ l.key = "port" /\ ~parse_unsigned_short(l.value)
    \/ s = "server" /\ l.key = "threads" /\ ~parse_size_t(l.value)
    \/ s = "ssl" /\ l.key = "use_ssl" /\ ~parse_bool(l.value)
    \/ s = "static" /\ l.key = "mount" /\ l.value = Junk

\* The keys of a section; any other key is only warned about.
Known(s, key) ==
    \/ s = "server" /\ key \in {"address", "port", "threads", "www_root"}
    \/ s = "ssl" /\ key \in {"use_ssl", "cert_file", "key_file"}
    \/ s = "static" /\ key = "mount"

Set(s, l) ==
    IF ~Known(s, l.key) THEN cfg
    ELSE CASE l.key = "mount" -> [cfg EXCEPT !.mounts = Append(@, l.value)]
           [] l.key \in {"port", "threads"} -> [cfg EXCEPT ![l.key] = stoul(l.value)]
           [] OTHER -> [cfg EXCEPT ![l.key] = l.value]

ConfigInit ==
    /\ lines = <<>> /\ section = "none" /\ cfg = Defaults /\ loading = "reading"

\* The file cannot be opened.
OpenFails ==
    /\ loading = "reading" /\ lines = <<>>
    /\ loading' = "threw"
    /\ UNCHANGED << lines, section, cfg >>

\* Fault: a header that names no known section is ignored like a bad line.
Fault_load_section(l) ==
    /\ l.kind = "section"
    /\ section' = IF l.name \in {"server", "ssl", "static"} THEN l.name ELSE section
    /\ UNCHANGED << cfg, loading >>

load_section(l) ==
    /\ l.kind = "section"
    /\ section' = l.name
    /\ UNCHANGED << cfg, loading >>

load_pair(l) ==
    /\ l.kind = "pair"
    /\ \/ Refused(section, l) /\ loading' = "threw" /\ UNCHANGED cfg
       \/ ~Refused(section, l) /\ cfg' = Set(section, l) /\ UNCHANGED loading
    /\ UNCHANGED section

\* Comments, empty lines, and lines that are warned about.
load_nothing(l) == l.kind = "skip" /\ UNCHANGED << section, cfg, loading >>

load_line(l) ==
    /\ loading = "reading"
    /\ lines' = Append(lines, l)
    /\ load_section(l) \/ load_pair(l) \/ load_nothing(l)

EndOfFile ==
    /\ loading = "reading"
    /\ loading' = "returned"
    /\ UNCHANGED << lines, section, cfg >>

-----------------------------------------------------------------------------
(* The meaning of a file, read from its lines as a whole. *)

\* The section line i belongs to.
SectionOf(i) ==
    LET headers == {j \in 1 .. i : lines[j].kind = "section"} IN
    IF headers = {} THEN "none" ELSE lines[Max(headers)].name

Sets(i, s, key) == lines[i].kind = "pair" /\ lines[i].key = key /\ SectionOf(i) = s

\* The lines that set a key of a section.
Setting(s, key) == {i \in 1 .. Len(lines) : Sets(i, s, key)}

Meaning(s, key) ==
    IF Setting(s, key) = {} THEN Defaults[key] ELSE lines[Max(Setting(s, key))].value

\* The place of line i among the lines of at.
Place(at, i) == Cardinality({j \in at : j <= i})

\* A file that is accepted means what its lines say, whatever their order and
\* whatever other lines and sections are between them: a key has the value of
\* the last line of its section that sets it, or its default, and the mounts
\* are those of [static] in their order.  A negative number wraps around; a port
\* then has to fit.  Of a file that sets use_ssl in [server], where the README of
\* the repository expects it and the code ignores it, DocumentedTls in Startup
\* says what it should mean.
ConfigMeansItsLines ==
    loading = "returned" =>
        /\ \A key \in {"address", "www_root"} : cfg[key] = Meaning("server", key)
        /\ \A key \in {"cert_file", "key_file"} : cfg[key] = Meaning("ssl", key)
        /\ Setting("server", "use_ssl") = {} => cfg.use_ssl = Meaning("ssl", "use_ssl")
        /\ \A key \in {"port", "threads"} :
              cfg[key] = Meaning("server", key) % 2^ULongBits
        /\ cfg.port <= MaxPort
        /\ LET at == Setting("static", "mount") IN
              /\ Len(cfg.mounts) = Cardinality(at)
              /\ \A i \in at : cfg.mounts[Place(at, i)] = lines[i].value
=============================================================================
