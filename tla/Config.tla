------------------------------- MODULE Config -------------------------------
(***************************************************************************)
(* config.Load (internal/config/config.go): the environment is read once   *)
(* at startup, every setting is checked on its own, two of them against    *)
(* each other, and the accepted numbers become sizes and durations in      *)
(* 64-bit arithmetic.                                                      *)
(*                                                                         *)
(* A raw value is unset, blank (only white space), a number, or a text of  *)
(* some kind; kinds stand for what the parsers tell apart.  The int64      *)
(* range and the units are constants, so that a small range overflows at   *)
(* small numbers.                                                          *)
(***************************************************************************)
EXTENDS Integers, FiniteSets

CONSTANTS MaxInt,  \* the largest int64
          Minute,  \* time.Minute, in nanoseconds
          Day,     \* 24 * time.Hour
          MB       \* 1024 * 1024

ASSUME ConfigAssumption == MaxInt \in Nat /\ {Minute, Day, MB} \subseteq Nat \ {0}

Unset     == [kind |-> "unset"]
Blank     == [kind |-> "blank"]
Number(n) == [kind |-> "number", n |-> n]
Text(t)   == [kind |-> "text", text |-> t]

PositiveInts == {"MAX_EMAIL_SIZE_MB", "MAX_ATTACHMENT_MB", "CLEANUP_INTERVAL_MIN",
                 "SESSION_TTL_DAYS", "SMTP_CONNECTION_LIMIT_PER_MIN"}
NonNegativeInts == {"INBOX_TTL_DAYS", "INBOX_CREATE_LIMIT_PER_HOUR"}
ListenAddrs == {"SMTP_LISTEN_ADDR", "HTTP_LISTEN_ADDR"}
Paths == {"DATABASE_PATH", "MIGRATIONS_DIR"}

\* ADMIN_USERNAME and SMTP_HOSTNAME take any text.
Settings == PositiveInts \union NonNegativeInts \union ListenAddrs \union Paths
    \union {"BCRYPT_COST", "COOKIE_SECURE", "LOG_LEVEL", "DOMAIN"}

Default(s) ==
    CASE s = "MAX_EMAIL_SIZE_MB"             -> Number(10)
      [] s = "MAX_ATTACHMENT_MB"             -> Number(5)
      [] s = "CLEANUP_INTERVAL_MIN"          -> Number(15)
      [] s = "SESSION_TTL_DAYS"              -> Number(7)
      [] s = "SMTP_CONNECTION_LIMIT_PER_MIN" -> Number(30)
      [] s = "INBOX_TTL_DAYS"                -> Number(60)
      [] s = "INBOX_CREATE_LIMIT_PER_HOUR"   -> Number(2)
      [] s = "BCRYPT_COST"                   -> Number(10)
      [] s = "COOKIE_SECURE"                 -> Text("boolean")
      [] s = "LOG_LEVEL"                     -> Text("level")
      [] s = "DOMAIN"                        -> Blank
      [] s \in ListenAddrs                   -> Text("address")
      [] s \in Paths                         -> Text("path")

\* loadTrimmedString: blank stands for the default, except in a path.
Value(env, s) ==
    IF env[s] = Unset \/ (env[s] = Blank /\ s \notin Paths) THEN Default(s) ELSE env[s]

Int64 == -MaxInt - 1 .. MaxInt

\* strconv.Atoi.
Atoi(v) == v.kind = "number" /\ v.n \in Int64

\* Variant: zero passes for positive.
PositiveOrZero(v) == Atoi(v) /\ v.n >= 0

Positive(v) == Atoi(v) /\ v.n > 0

\* domainutil.Validate refuses an "@", inner white space and stray dots; whatever
\* else is not blank passes for a domain.
Malformed == {Text("with @"), Text("with space"), Text("with stray dots")}

Accepted(env, s) ==
    LET v == Value(env, s)
    IN  \/ s \in PositiveInts /\ Positive(v)
        \/ s \in NonNegativeInts /\ Atoi(v) /\ v.n >= 0
        \/ s = "BCRYPT_COST" /\ Atoi(v) /\ v.n \in 4..31
        \/ s = "COOKIE_SECURE" /\ (v = Text("boolean") \/ v \in {Number(0), Number(1)})
        \/ s = "LOG_LEVEL" /\ v = Text("level")
        \/ s = "DOMAIN" /\ v \notin Malformed
        \/ s \in ListenAddrs /\ v = Text("address")
        \/ s \in Paths /\ v # Blank

Rejected(env) == {s \in Settings : ~Accepted(env, s)}

\* Variant: the two sizes are not compared.
AttachmentsOverOff(env) == FALSE

\* Compared only if both sizes were accepted.
AttachmentsOver(env) ==
    /\ {"MAX_EMAIL_SIZE_MB", "MAX_ATTACHMENT_MB"} \intersect Rejected(env) = {}
    /\ Value(env, "MAX_ATTACHMENT_MB").n > Value(env, "MAX_EMAIL_SIZE_MB").n

\* Every error is collected before Load gives up.
Errors(env) == Cardinality(Rejected(env)) + (IF AttachmentsOver(env) THEN 1 ELSE 0)

LoadSucceeds(env) == Errors(env) = 0

\* Variant: as if products were exact.
WrapNever(x) == x

\* A product in int64.
Wrap(x) == ((x + MaxInt + 1) % (2 * (MaxInt + 1))) - (MaxInt + 1)

Scaled(env, s, unit) == Wrap(Value(env, s).n * unit)

\* The fields of Config that other modules use.
Loaded(env) ==
    [seeded            |-> Value(env, "DOMAIN") # Blank,
     maxEmailSize      |-> Scaled(env, "MAX_EMAIL_SIZE_MB", MB),
     maxAttachmentSize |-> Scaled(env, "MAX_ATTACHMENT_MB", MB),
     cleanupInterval   |-> Scaled(env, "CLEANUP_INTERVAL_MIN", Minute),
     sessionTTL        |-> Scaled(env, "SESSION_TTL_DAYS", Day)]

\* The products that Load computes are exact.
Unit(s) == CASE s = "CLEANUP_INTERVAL_MIN" -> Minute
             [] s = "SESSION_TTL_DAYS" -> Day
             [] s \in {"MAX_EMAIL_SIZE_MB", "MAX_ATTACHMENT_MB"} -> MB

InRange(env) ==
    \A s \in PositiveInts \ {"SMTP_CONNECTION_LIMIT_PER_MIN"} :
        Value(env, s).n * Unit(s) <= MaxInt
=============================================================================
