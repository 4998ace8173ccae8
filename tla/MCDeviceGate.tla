---------------------------- MODULE MCDeviceGate ----------------------------
(* Small instances of DeviceGate: two devices; a device and the bridge.    *)
EXTENDS DeviceGate

CONSTANTS a, b

MCKeys == {"books", "bridge", "other"}

\* Two devices of the same books, either of which may dial.
BooksKeys == [d \in {a, b} \X {a, b} |-> "books"]
BothDial == {<<a, b>>, <<b, a>>}

\* b calls a gated protocol of a.
OneStream == {<<a, b>>}
BothStreams == {<<a, b>>, <<b, a>>}

\* a sees b over the own network: a QR session, or the LAN relay.
OneLocalPath == {<<a, b>>}

\* The bridge b serves the device a, which alone dials.
BridgeKeys == [d \in {a, b} \X {a, b} |-> "bridge"]
DeviceDials == {<<a, b>>}

\* b's id was typed in by mistake: it holds the key of other books; or the
\* bridge was paired again and a proves with a key of another generation.
OtherKeys == [d \in {a, b} \X {a, b} |-> IF d[1] = a THEN "books" ELSE "other"]

BooksKeyings == {BooksKeys, OtherKeys}
BridgeKeyings == {BridgeKeys, OtherKeys}
=============================================================================
