# TLA+ models of the GD32VW55x image-signing tool (`scripts/imgtool`)

This directory holds TLA+ models of the host-side tool that turns a raw
firmware binary into a signed boot image: `imglib/image.py` (the `Image` and
`TLV` classes), with the key classes `imglib/keys/ed25519.py` and
`imglib/keys/rsa.py` that it calls and the key files they write, and the two
sibling tools `sysset.py` (the system-settings sector) and `aestool.py` (AES-CTR
encryption of flash regions). Each module is translated from the Python
source. `PROJECT.json` maps every definition to the lines it models.

## 1. The system: parts, state, operations

| Part | Source | State | Operations |
|---|---|---|---|
| Format constants | `image.py` 25-53 | none | magic, sizes, type-code tables |
| TLV encoder | `image.py` 57-69 | `TLV.buf` | `add(kind, payload)`, `get()` |
| Image assembler | `image.py` 71-287 | `type, version, header_size, algo_hash, algo_sig, payload` | `load`, `check`, `sign`, `add_header`, `pad_to`, `save` |
| Keys | `keys/ed25519.py`, `keys/rsa.py` | the wrapped key; the key files written | `get_public_bytes`, `sig_len`, `sign` (RSA) / `sign_digest` (Ed25519), `generate`, `export_private`, `export_public`, `create_csr` |
| System settings | `sysset.py` | the output file | `main`: `gen_sysset` (`SysSet.generate`, a 48-byte settings struct padded to 4 KiB, then the file write) or `gen_sysstatus` |
| AES tool | `aestool.py` | the output files of successive runs | `main`: look up the region offset, `validateHex` the key and the IV (address bits 23..4), encrypt or decrypt in CTR mode |
| Hex tool | `hextool.py` | none | runs an external converter |

How the parts interact: the caller (the `imgtool` CLI, which is not in these
sources) calls `Image.load` → `sign(key, cert_file, cert_key)` →
`pad_to(size, align)` → `save`. `sign` asks the key for its public bytes and
`sig_len()`. It then works out the whole trailer size in advance, because that
size goes into the header and the header is covered by the digest. Next it
writes the header (`add_header`), builds the TLV records, hashes
`payload[header_size-32:]`, and signs. The signing method is picked by
`hasattr(key, 'sign')`. Last, it appends the TLV info header and the records.

The program is sequential, so the hard parts are not interleavings. They are:

- the order of steps inside `sign`;
- its exception paths: some exceptions fire before the payload changes, and one (a public-only key) fires after;
- numeric edges in the header fields (8-bit major, 16-bit trailer size, a negative image size, a header region smaller than 32);
- the agreement between the sizes declared in the header and TLV info header and the bytes actually appended.

## 2. Modules

- **`ImgFormat`**: the constants and tables, and the little-endian packing of `struct.pack('<IIBBBBHHIBBHI')` with its range check (`Fits`, `LE`, `PackOK`, `Pack`). Also the header checksum loop (`Checksum`), the TLV record and info headers, and `DecodeHeader`, which reads a header back at the spec's offsets.
  - TLC integers are 32-bit signed. So the 32-bit magic and checksum are handled as four bytes, and the checksum is XORed byte lane by byte lane. That equals the 32-bit XOR of the little-endian words, which the loop computes.
- **`ImgKeys`**: what `Image.sign` sees of a key class: the length of its public bytes, `sig_len()`, the length of the signature it produces, and which signing method the class defines. `"None"` stands for an absent key.
- **`ImageSign`**: the `Image` object through one pipeline. Its variables:
  - `phase`: one of `init`, `loaded`, `returned`, `signed`, `padded`, `saved`, `raised`;
  - `img`: the constructor fields;
  - `payload`: the bytes, up to the end of the header region plus firmware;
  - `trailer`: what `sign` and `pad_to` append, kept as chunks. Raw packed bytes stay exact. Hash, key, certificate, signature and fill bytes are opaque records that name what they are computed from, with their length;
  - `err`: the raised exception;
  - `loaded`, `signArgs`, `padArgs`: history of the inputs, which the properties use.

  Each action is one whole method:
  - `Load` covers `load` with `__init__` and `check`.
  - `Sign` covers all of `sign`, including `add_header`. It has four disjuncts, one per way `sign` ends: `SignReturn` (the print-and-return on a missing key), `SignRaiseEarly` (KeyError or struct.error before the payload is touched), `SignRaiseLate` (a failure after `add_header`) and `SignComplete`.
  - `PadTo` and `Save` are the other two methods.

  The inputs are chosen with `\E` from the CONSTANT sets.
- **`ImageSaveFault`**: `ImageSign` with the output file (`disk`: the old contents, the whole image, or a truncated file) and a write fault. `SaveFaulty` is `save`: the `open(path, 'wb')` truncates, then the write either puts out the whole payload or raises (disk full, I/O error, interrupt) with the file already truncated. The other methods leave the file alone. `MC_ImageSaveFault` gives it the constants of `MC_ImageSign`.
- **`KeyFile`**: key objects (`objs`), key pairs (`pairs`) and the files on disk (`files`). The actions are `Generate`, `ExportPrivate` (the PEM, and with it the empty-password ValueError, comes before the file is opened), `ExportPrivateUnsupported` (the public classes' `_unsupported`), `ExportPublic` (through `_get_public`), `CreateCsr` (AttributeError outside `Ed25519`; in `Ed25519` the CSR builder is given `hashes.SHA256()`, which cryptography refuses for an Ed25519 key with ValueError, so the call raises before its open) and `LoadKey`. Every file write goes through `WriteKeyFile`: the `open(path, 'wb')` truncates, then the write either completes or, when the constant `WriteFaults` allows it, raises OSError with the file left empty. `keys.load` is not in these sources. It is modelled from the spec and from what `rsa_test.py` asserts: None for an encrypted key without a password, ValueError for a wrong password or a non-key file, TypeError for a password on a plain key, and otherwise the private or public class.
- **`ImagePipeline`**: `KeyFile` composed with `ImageSign` in the order of the `imgtool sign` command (spec section 2; the command is not in these sources). Key-management calls come first, then `keys.load`, whose result, a key or None, is the key `sign` gets. Then come `load`, `sign`, `pad_to` and `save`. An exception from `keys.load` ends the command.
- **`SysSet`**: one run of `sysset.py main` over an output file that may hold an earlier sector. `Main` is the type dispatch; `GenSysSet` is `generate` (KeyError for a missing offset macro, struct.error for a field outside uint32, such as a negative shifted offset) followed by the open and the write. The macro values are a configuration record chosen from a set.
- **`AesTool`**: successive runs of `aestool.py main`. `validateHex` is modelled by what `int(s, 16)` accepts (whitespace, a sign, a `0x` prefix, single underscores) over a small alphabet. `StartCounter` is the exact `(addr & 0xffffff) >> 4`. The cipher, which is not in these sources, is kept as the counter blocks a run consumes, one per 16 bytes.
- **`MC_ImageSign`**, **`MC_ImagePipeline`**, **`MC_SysSet`**, **`MC_AesTool`**: the constant values for TLC.

Python exceptions become `phase = "raised"` plus `err = [op, exc]`. Later
steps are not enabled after one, because the script stops.

## 3. Runs

The image runs set `CHECK_DEADLOCK FALSE` because the script ends: after `save`, after an exception, or after `keys.load` raises, no method is called again. The same holds for `sysset.py`, which runs once.

| Run | cfg | Expect | What it shows |
|---|---|---|---|
| sign_pipeline | `MC_ImageSign.cfg` | pass | Covers every key class, both trust paths (a bare key, or a certificate) and the failing inputs. A signed header passes the checksum and decodes to the right fields. The digest covers the fixed header plus all the firmware. The trailer is PK or CERT_PK+CERT, then DIGEST, then SIG, and each signature is over the digest or the bytes the code hashes. `sign` raises only on bad input. Padding aligns. With a certificate, the declared trailer size, the TLV info header read little-endian, and the bytes appended agree (`CertTrailerSizeMatches`). |
| sign_clean | `MC_SignClean.cfg` (`MC_ImageSaveFault`) | pass | With keys that hold private material (or none), versions at the 32-bit boundary, a certificate that overflows the 16-bit trailer size, and a save that may fail: every exception out of `sign` (KeyError, struct.error) leaves the payload as loaded and appends nothing (`SignFailsCleanly`). |
| public_key_sign | `MC_SignPublic.cfg` | violation | A public-only key fails *after* the header was written. |
| sizes_nocert | `MC_SizesNoCert.cfg` | violation | Without one, the declared size is 4 bytes too large. |
| small_header | `MC_SmallHeader.cfg` | violation | A header_size of 16 is accepted; the 32-byte header written over the 16-byte region extends the payload, and the negative hash slice start makes the digest miss its first 16 bytes. |
| sig_alg | `MC_SigAlg.cfg` | violation | The header's signature-algorithm byte need not match the key that signs. |
| pipeline | `MC_ImagePipeline.cfg` | pass | Over every chain of generate, export_private, export_public, create_csr and load on two files, with any file write failing after its open, then the sign command with the key it loads: an export or create_csr that raises before it writes leaves every key file as it was (`FailedCallKeepsFiles`; the mutant that opens the file before building the PEM breaks it). |
| sysset | `MC_SysSet.cfg` | pass | A settings sector that was written is 4 KiB and reads back, word by word, to the configuration. A run that raises leaves the earlier file in place. |
| aes_ctr | `MC_AesTool.cfg` | pass | Regions encrypted under one key never share an AES-CTR counter block. |
| save_fault | `MC_SaveFault.cfg` (`MC_ImageSaveFault`) | violation | `save` truncates the output before writing; a failed write leaves a partial image in place of the old file. |
| aes_keys | `MC_AesKeys.cfg` | violation | `validateHex` accepts a key that is not all hex digits. |

**No liveness.** Every run is a straight line of at most five method calls, each of which returns or raises, so every behaviour is finite; a property that the command eventually ends would hold by the shape of the model and is not checked.

The bounds are chosen so that each edge is reached:

- **Versions:** 1.2.3 is an ordinary version. 0xFFFFFFFF tests the 8-bit masking of minor. 2^32 makes major overflow. The `save_fault` run uses 1.2.3 only.
- **Header sizes:** 0 is taken as 32, and 48 tests the 0xFF fill.
- **Hashes:** SHA256 and SHA512, plus SHA384, which is absent from the table (KeyError).
- **Files:** the firmware alone, zero-prefixed, non-zero-prefixed (the check fails), and 8 bytes too short (negative img_size).
- **Certificate sizes:** 100, and 65500, which overflows the 16-bit trailer size.
- **Padding:** the target is one byte short of the image or two bytes beyond it, with an alignment of 3 (rejected) or 4.
- **Key files:** write faults on (`WriteFaults = {FALSE, TRUE}`); two paths, so an export can overwrite another; two generated pairs of either algorithm; three key objects; the passwords "secret" and the empty one, which `BestAvailableEncryption` rejects; and loads with and without a password.
- **System settings:** three layouts (the default; MBL at 0, so a small `vtor_align` makes its shifted offset negative; one with no END macro) × four alignments × two version pairs. The runs are SYS_SET, SYS_STATUS and an ignored type, over an empty old file and an old sector.
- **AES:** the default flash layout, with each input fitting its region, and an unknown region (OTA). An input larger than its slot would overlap the next region's counters; that is a build-layout condition, not one the tool checks, and it is not varied. HexLen 4 stands for 32: the length check and the parse do not depend on the number. The key strings include a short key, one with a non-hex character, and (in `aes_keys`) signed, prefixed, underscored and padded forms.

Nothing depends on firmware content beyond its bytes, so two firmwares (empty and four bytes) are enough.

## 4. Findings

1. **image.py:150**: `tlv_size += TLV_HEADER_SIZE + cert_size` is also done without a certificate. So the header's `PTLVSz` and `TotSz`, and the TLV info header, claim 4 bytes more than the trailer holds: 148 against 144 for Ed25519 with SHA-256.
2. **image.py:172/209**: `header_size` < 32 is not rejected. The fill is empty, and the 32-byte header replaces the shorter region: the trace TLC gives has empty firmware, where the header extends the payload; with firmware, its first bytes would be overwritten. The negative slice start then hashes only a suffix (16 bytes are missing from the digest).
3. **image.py:192**: a public-only key raises AttributeError after `add_header` has already rewritten the payload. The spec says a usage error leaves the object unchanged.
4. **image.py:245**: the signature-algorithm code comes from `algo_sig` (default ECDSA256), not from the key, and RSA has no code.
5. **aestool.py:106** (run aes_keys): `validateHex` is `int(hex, 16)` after a length check. So `-fff…`, `0x…`, `f_ff…` and space-padded strings of length 32 pass as keys, against its comment ("passed value is hexadecimal and has proper length").
6. **image.py:106** (run save_fault): `save` opens the path with `'wb'`, which truncates it, and then writes. A write that raises leaves a partial image where the previous file was. Spec section 7 says no partial or corrupt image is ever persisted. The spec's argument covers only the in-memory buffer, which is indeed final before the write.

## 5. Not modelled, and why

- `hextool.py`: it only adds `flash_base` to the region offset (Python integers, nothing to overflow), builds a command line and runs an external converter with `check=False`.
- `rsa_test.py`: tests of the key classes that `KeyFile` models; what they assert of `keys.load` is where `LoadOutcome` comes from.
- `macro_parser` and the `imgtool` CLI are not in these sources. The CLI's sign order is modelled from the spec in `ImagePipeline`, and macro values are inputs.
- The crypto itself: a hash or signature is a record naming its input, and the AES cipher is the counter range it consumes. `verify_digest` changes no state.
- `__repr__`, the printing and the argument parsing: formatting only.
- Host byte order: the model packs the native `'HH'` info header for a little-endian host, where the build runs. `CertTrailerSizeMatches` reads it back little-endian, and the mutant `InfoHeaderBigEndian` shows that a big-endian host's packing would break it.
- Write faults in `gen_sysset`: it has the same open-then-write shape as `save` and the key exports, which carry the fault model. It was left out because the settings sector is regenerated from the macros on every build.
- A second `sign` on one `Image`: the command never makes one, and spec section 5 leaves single use to the caller.
- What a failed or interrupted key export must leave at its path: the write fault is modelled (`WriteKeyFile`), but neither the spec nor a test says what should remain, and the code, which truncates before it writes, cannot keep the previous key. No property is stated about it.
- The caller after `sign` returns on a missing key: `sign` prints and returns without touching the payload, as the spec asks; whether the command then pads and saves is up to the CLI, which is not in these sources, so no property is checked about it.
- An abstract specification of the pipeline with a refinement mapping: the pipeline is a short straight line of method calls, and every abstract property we could state (single signing, firmware preserved, sign-then-save order) restated the guards and the separate trailer variable of `ImageSign`. It was removed rather than kept as a check that shows nothing.

## 6. Plan for later work

1. A sysset → aestool composition: the encrypted regions taken from the settings sector that was written, rather than from the macros.
2. Larger bounds for the pipeline (both hash algorithms and certificates through the composed caller).
