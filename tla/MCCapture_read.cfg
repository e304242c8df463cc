SPECIFICATION Spec
CONSTANT Files <- SomeFiles
INVARIANTS HeadersInside PacketsTile EndExplained WholePacketsRead GapsNoted
