------------------------------ MODULE SenderCalls ------------------------------
(***************************************************************************)
(* The methods of SenderLayer (src/api/layers/sender.layer.ts), each given *)
(* by the steps it takes in order.  PageCalls says what each kind of step  *)
(* does:                                                                   *)
(*   read     a path, URL or data URI is read into a data URI, in node     *)
(*   orphan   the same, inside an async promise executor                   *)
(*   mime     the type of the data is checked, in node                     *)
(*   convert  the data is converted by sharp or ffmpeg, in node            *)
(*   verify   what the page answered is checked, in node                   *)
(*   act      the page is asked for an effect, and the effect is awaited;  *)
(*            a function of WPP, outside src/, is taken to throw without it  *)
(*   may      the same, but the page function may answer without an effect *)
(*   ignore   the page function does not return the effect's promise       *)
(*   query    the page is asked for data                                   *)
(*   unbound  the page function names a variable that exists only in node  *)
(* Methods that stand together in the source are one record.               *)
(***************************************************************************)
LOCAL INSTANCE Sequences

\* The methods that ask the page for one thing.
Query == <<"query">>

Act == <<"act">>

May == <<"may">>

\* An effect, then the stored message is fetched and its field `erro` looked at.
SendAndFetch == <<"act", "query", "verify">>

TextSenders ==
  [sendLinkPreview    |-> Act,
   sendText           |-> SendAndFetch,
   sendPixKey         |-> SendAndFetch,
   sendMessageOptions |-> <<"act", "query">>]

\* sendImageFromBase64 checks the type itself, so sendImage checks it too.
ImageFromBase64 == <<"mime", "act">>

ImageSenders ==
  [sendImage           |-> <<"read">> \o ImageFromBase64,
   sendImageFromBase64 |-> ImageFromBase64]

ThumbSenders ==
  [sendMessageWithThumb |-> <<"read", "mime", "act">>,
   reply                |-> SendAndFetch]

\* `isPtt` is a parameter of the method, not of the function sent to the page.
PttFromBase64 == <<"unbound">>

PttSenders ==
  [sendPttFromBase64 |-> PttFromBase64,
   sendPtt           |-> <<"orphan">> \o PttFromBase64]

SendFile == <<"read", "act">>

FileSenders ==
  [sendFileFromBase64 |-> SendFile,
   sendFile           |-> SendFile]

GifFromBase64 == Act

GifSenders ==
  [sendVideoAsGif           |-> <<"read">> \o GifFromBase64,
   sendVideoAsGifFromBase64 |-> GifFromBase64,
   sendGif                  |-> <<"read", "convert">> \o GifFromBase64,
   sendGifFromBase64        |-> <<"convert">> \o GifFromBase64]

CardSenders ==
  [sendContactVcard     |-> Act,
   sendContactVcardList |-> Act,
   forwardMessage       |-> Act]

Sticker == <<"read", "mime", "convert", "act">>

StickerGifSenders ==
  [sendImageAsStickerGif |-> Sticker]

StickerSenders ==
  [sendImageAsSticker |-> Sticker]

PresenceSenders ==
  [sendLocation      |-> Act,
   sendSeen          |-> Act,
   markPlayed        |-> Act,
   startTyping       |-> Act,
   stopTyping        |-> Act,
   startRecording    |-> Act,
   stopRecoring      |-> Act,
   setOnlinePresence |-> Act]

ListSenders ==
  [sendMentioned   |-> Act,
   sendListMessage |-> SendAndFetch,
   sendPollMessage |-> SendAndFetch]

OrderSenders ==
  [setChatState          |-> <<"ignore">>,
   sendReactionToMessage |-> Act,
   sendOrderMessage      |-> SendAndFetch]
==============================================================================
